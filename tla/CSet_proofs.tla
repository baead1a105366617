----------------------------- MODULE CSet_proofs ------------------------------
(***************************************************************************)
(* Proofs about c_set, for every word size, every heap and every number of *)
(* adds.  What holds for every heap comes first; that c_set is the set its *)
(* callers take it for needs OneHalf and NonzeroFirst.                     *)
(***************************************************************************)
EXTENDS CSet, Sequences, FiniteSetTheorems, TLAPS

(***************************************************************************)
(* The interval never leaves the array while the search runs, and the array*)
(* is sorted by then.                                                      *)
(***************************************************************************)
Interval == /\ pc = "search" => sorted /\ last < n
            /\ pc = "scan" => first <= n

Safe == TypeOK /\ Interval /\ SortedMeansInOrder

(***************************************************************************)
(* The middle of a nonempty interval lies in it.                           *)
(***************************************************************************)
LEMMA MiddleInside ==
  ASSUME NEW a \in Int, NEW b \in Int, a <= b
  PROVE  /\ (a + b) \div 2 \in Int
         /\ a <= (a + b) \div 2
         /\ (a + b) \div 2 <= b
  OBVIOUS

(***************************************************************************)
(* What mulle_qsort_r leaves behind is a rearrangement of the array.       *)
(***************************************************************************)
LEMMA RearrangeKeeps ==
  ASSUME NEW k \in Nat, NEW s \in [0 .. k - 1 -> Objects],
         NEW f \in Bijection(0 .. k - 1, 0 .. k - 1)
  PROVE  /\ [i \in 0 .. k - 1 |-> s[f[i]]] \in [0 .. k - 1 -> Objects]
         /\ \A i \in 0 .. k - 1 : \E j \in 0 .. k - 1 : s[f[i]] = s[j]
         /\ \A i \in 0 .. k - 1 : \E j \in 0 .. k - 1 : s[i] = s[f[j]]
<1>1. /\ f \in [0 .. k - 1 -> 0 .. k - 1]
      /\ \A w \in 0 .. k - 1 : \E v \in 0 .. k - 1 : f[v] = w
  BY DEF Bijection, Surjection
<1>2. ASSUME NEW i \in 0 .. k - 1
      PROVE  \E j \in 0 .. k - 1 : s[i] = s[f[j]]
  <2>1. PICK v \in 0 .. k - 1 : f[v] = i
    BY <1>1
  <2> QED
    BY <2>1
<1> QED
  BY <1>1, <1>2

LEMMA InitSafe == Init => Safe
<1> SUFFICES ASSUME Init PROVE Safe
  OBVIOUS
<1>1. 0 .. n - 1 = {} /\ 0 .. -1 = {}
  BY DEF Init
<1>2. storage \in [0 .. n - 1 -> Objects]
  BY <1>1 DEF Init, Empty
<1>3. MaxN \in Nat /\ NULL \in Word
  BY CSetAssumption DEF NULL, Word
<1>4. TypeOK
  <2>1. last \in -1 .. MaxN - 1 /\ first \in 0 .. MaxN /\ n \in 0 .. MaxN
    BY <1>3 DEF Init
  <2> QED
    BY <1>2, <1>3, <2>1 DEF Init, TypeOK, InCall
<1> QED
  BY <1>4 DEF Init, Safe, Interval, SortedMeansInOrder

LEMMA SortTypes ==
  ASSUME TypeOK, Sort
  PROVE  /\ storage' \in [0 .. n - 1 -> Objects]
         /\ Stored' = Stored
<1>1. n \in Nat /\ storage \in [0 .. n - 1 -> Objects] /\ n' = n
  BY CSetAssumption DEF TypeOK, Sort
<1>2. CASE sorted
  BY <1>1, <1>2 DEF Sort, Stored
<1>3. CASE ~ sorted
  <2>1. PICK f \in Bijection(0 .. n - 1, 0 .. n - 1) : storage' = [i \in 0 .. n - 1 |-> storage[f[i]]]
    BY <1>3 DEF Sort
  <2>2. /\ storage' \in [0 .. n - 1 -> Objects]
        /\ \A i \in 0 .. n - 1 : storage'[i] = storage[f[i]]
    BY <1>1, <2>1, RearrangeKeeps
  <2>3. ASSUME NEW i \in 0 .. n - 1
        PROVE  /\ \E j \in 0 .. n - 1 : storage'[i] = storage[j]
               /\ \E j \in 0 .. n - 1 : storage[i] = storage'[j]
    <3>1. PICK j \in 0 .. n - 1 : storage[i] = storage[f[j]]
      BY <1>1, RearrangeKeeps
    <3>2. PICK m \in 0 .. n - 1 : storage[f[i]] = storage[m]
      BY <1>1, RearrangeKeeps
    <3> QED
      BY <2>2, <3>1, <3>2
  <2>4. Stored' = {storage'[i] : i \in 0 .. n - 1}
    BY <1>1 DEF Stored
  <2>5. Stored = {storage[i] : i \in 0 .. n - 1}
    BY DEF Stored
  <2>6. Stored' \subseteq Stored /\ Stored \subseteq Stored'
    BY <2>3, <2>4, <2>5, Zenon
  <2> QED
    BY <2>2, <2>6
<1> QED
  BY <1>2, <1>3

LEMMA NextSafe == Safe /\ [Next]_vars => Safe'
<1> SUFFICES ASSUME Safe, [Next]_vars PROVE Safe'
  OBVIOUS
<1> USE CSetAssumption DEF Safe, TypeOK, Interval, SortedMeansInOrder, Ready, InCall
<1>1. ASSUME NEW p \in Objects, Add(p) PROVE Safe'
  <2>1. storage' \in [0 .. n' - 1 -> Objects] /\ n' \in 0 .. MaxN
    BY <1>1 DEF Add
  <2> QED
    BY <1>1, <2>1 DEF Add, Word
<1>2. ASSUME NEW p \in Objects, Member(p) PROVE Safe'
  BY <1>2 DEF Member, Word, set
<1>3. CASE AddAborts
  BY <1>3 DEF AddAborts, Word, set
<1>4. CASE ScanStep
  BY <1>4 DEF ScanStep, Return, Word, set
<1>5. CASE ScanEnds
  BY <1>5 DEF ScanEnds, Return, Word, set, NULL
<1>6. CASE Sort
  <2>1. storage' \in [0 .. n - 1 -> Objects]
    BY <1>6, SortTypes
  <2>2. InOrder(storage)'
    BY <1>6 DEF Sort
  <2> QED
    BY <1>6, <2>1, <2>2 DEF Sort, Word
<1>7. CASE SearchStep
  <2>1. /\ Middle \in 0 .. n - 1
        /\ first <= Middle /\ Middle <= last
    BY <1>7, MiddleInside DEF SearchStep, Middle
  <2>2. storage[Middle] \in Objects /\ FirstWord[storage[Middle]] \in Word
    BY <2>1
  <2> QED
    BY <1>7, <2>1, <2>2 DEF SearchStep, Return, set
<1>8. CASE SearchEnds
  BY <1>8 DEF SearchEnds, Return, Word, set, NULL
<1>9. CASE Done
  BY <1>9 DEF Done, Word, set
<1>10. CASE InitAgain
  <2>1. 0 .. n' - 1 = {} /\ 0 .. -1 = {}
    BY <1>10 DEF InitAgain
  <2>2. storage' \in [0 .. n' - 1 -> Objects]
    BY <1>10, <2>1 DEF InitAgain, Empty
  <2>3. TypeOK'
    <3>1. n' \in 0 .. MaxN /\ sorted' = FALSE /\ pc' = "idle"
      BY <1>10 DEF InitAgain
    <3>2. <<arg, first, last, ret>>' = <<arg, first, last, ret>>
      BY <1>10 DEF InitAgain
    <3> QED
      BY <2>2, <3>1, <3>2 DEF Word
  <2> QED
    BY <1>10, <2>3 DEF InitAgain
<1>11. CASE UNCHANGED vars
  BY <1>11 DEF vars
<1> QED
  BY <1>1, <1>2, <1>3, <1>4, <1>5, <1>6, <1>7, <1>8, <1>9, <1>10, <1>11
     DEF Next, Lookup

(***************************************************************************)
(* The types hold in every reachable state, for every heap.                *)
(***************************************************************************)
THEOREM TypeCorrect == Spec => []TypeOK
<1>1. Safe => TypeOK
  BY DEF Safe
<1> QED
  BY <1>1, InitSafe, NextSafe, PTL DEF Spec

(***************************************************************************)
(* The search and the scan stay inside the array, for every heap, sorted   *)
(* for the search or not.                                                  *)
(***************************************************************************)
THEOREM ProbesStayInBounds == Spec => []ProbeInBounds
<1>1. Safe => ProbeInBounds
  <2> SUFFICES ASSUME Safe PROVE ProbeInBounds
    OBVIOUS
  <2>1. n \in Nat /\ first \in Nat /\ last \in Int
    BY CSetAssumption DEF Safe, TypeOK
  <2>2. ASSUME pc = "search", first <= last PROVE Middle \in 0 .. n - 1
    BY <2>1, <2>2, MiddleInside DEF Safe, Interval, Middle
  <2> QED
    BY <2>2 DEF Safe, Interval, ProbeInBounds
<1> QED
  BY <1>1, InitSafe, NextSafe, PTL DEF Spec

(***************************************************************************)
(* No lookup reports a pointer that was not added, for every heap.         *)
(***************************************************************************)
THEOREM NoLookupInvents == Spec => []NoFalseMember
<1>1. Init => NoFalseMember
  BY DEF Init, NoFalseMember
<1>2. Safe /\ NoFalseMember /\ [Next]_vars => NoFalseMember'
  <2> SUFFICES ASSUME Safe, NoFalseMember, [Next]_vars, (pc = "returned")', ret' # NULL
               PROVE  (arg \in Stored)'
    BY DEF NoFalseMember
  <2> USE DEF Safe, Ready, InCall
  <2>1. ASSUME NEW p \in Objects, Add(p) PROVE FALSE
    BY <2>1 DEF Add
  <2>2. ASSUME NEW p \in Objects, Member(p) PROVE FALSE
    BY <2>2 DEF Member
  <2>3. CASE AddAborts
    BY <2>3 DEF AddAborts
  <2>4. CASE ScanStep
    <3>1. first \in 0 .. n - 1 /\ arg = storage[first]
      BY <2>4, CSetAssumption DEF ScanStep, Return, TypeOK
    <3> QED
      BY <2>4, <3>1 DEF ScanStep, Stored, set
  <2>5. CASE ScanEnds
    BY <2>5 DEF ScanEnds, Return
  <2>6. CASE Sort
    BY <2>6 DEF Sort
  <2>7. CASE SearchStep
    <3>1. arg = storage[Middle]
      BY <2>7 DEF SearchStep, Return
    <3>2. Middle \in 0 .. n - 1
      BY <2>7, MiddleInside, CSetAssumption DEF SearchStep, Middle, TypeOK, Interval
    <3> QED
      BY <2>7, <3>1, <3>2 DEF SearchStep, Stored, set
  <2>8. CASE SearchEnds
    BY <2>8 DEF SearchEnds, Return
  <2>9. CASE Done
    BY <2>9 DEF Done
  <2>10. CASE InitAgain
    BY <2>10 DEF InitAgain
  <2>11. CASE UNCHANGED vars
    BY <2>11 DEF vars, NoFalseMember, Stored
  <2> QED
    BY <2>1, <2>2, <2>3, <2>4, <2>5, <2>6, <2>7, <2>8, <2>9, <2>10, <2>11
       DEF Next, Lookup
<1> QED
  BY <1>1, <1>2, InitSafe, NextSafe, PTL DEF Spec

(***************************************************************************)
(* Every turn of the search at least halves the slots left to look at, for *)
(* every heap, whatever order the array is in.                             *)
(***************************************************************************)
THEOREM SearchHalves == Spec => LookupHalves
<1>1. Safe /\ [Next]_vars
        => [pc = "search" /\ pc' = "search"
              => 2 * (last' - first' + 1) <= last - first + 1]_vars
  <2> SUFFICES ASSUME Safe, [Next]_vars, pc = "search", pc' = "search"
               PROVE  2 * (last' - first' + 1) <= last - first + 1 \/ UNCHANGED vars
    OBVIOUS
  <2>1. first \in Int /\ last \in Int
    BY CSetAssumption DEF Safe, TypeOK
  <2>2. CASE SearchStep
    <3>1. Middle \in Int /\ 2 * Middle <= first + last /\ first + last <= 2 * Middle + 1
      BY <2>1 DEF Middle
    <3>2. \/ first' = Middle + 1 /\ last' = last
          \/ first' = first /\ last' = Middle - 1
      BY <2>2 DEF SearchStep, Return
    <3>3. first <= last
      BY <2>2 DEF SearchStep
    <3> QED
      BY <2>1, <3>1, <3>2, <3>3
  <2>3. CASE UNCHANGED vars
    BY <2>3
  <2> QED
    BY <2>2, <2>3 DEF Next, Lookup, Add, Member, AddAborts, ScanStep, ScanEnds, Sort,
                      SearchEnds, Done, InitAgain, Ready, Return
<1> QED
  BY <1>1, InitSafe, NextSafe, PTL DEF Spec, LookupHalves

-------------------------------------------------------------------------------
(***************************************************************************)
(* On a heap that lies on one side of the sign bit the two comparisons     *)
(* agree.                                                                  *)
(***************************************************************************)
LEMMA OrdersAgree ==
  ASSUME OneHalf, NEW p \in Objects, NEW q \in Objects
  PROVE  SortsBefore(p, q) <=> p <= q
<1>1. p \in Nat /\ q \in Nat /\ Half \in Nat
  BY CSetAssumption DEF Word
<1> QED
  BY <1>1 DEF OneHalf, SortsBefore, Signed

(***************************************************************************)
(* A pointer that was added lies in the part of the array still to be      *)
(* looked at.  This is what makes MemberCorrect inductive: without it the  *)
(* "not found" exits say nothing.                                          *)
(***************************************************************************)
Narrowed ==
  /\ pc = "scan" => \A i \in 0 .. first - 1 : storage[i] # arg
  /\ pc = "search" => \A i \in 0 .. n - 1 : storage[i] = arg => first <= i /\ i <= last

LEMMA SearchStepNarrows ==
  ASSUME OneHalf, Safe, Narrowed, SearchStep
  PROVE  Narrowed'
<1> SUFFICES ASSUME (pc = "search")', NEW i \in 0 .. n - 1, storage[i] = arg
             PROVE  first' <= i /\ i <= last'
  BY DEF SearchStep, Narrowed, set, Return
<1> DEFINE m == Middle
<1>1. /\ n \in Nat /\ first \in Nat /\ last \in Int /\ last < n /\ arg \in Objects
      /\ storage \in [0 .. n - 1 -> Objects] /\ pc = "search" /\ first <= last
      /\ InOrder(storage)
  BY CSetAssumption DEF Safe, TypeOK, Interval, SortedMeansInOrder, SearchStep, InCall
<1>2. m \in Int /\ first <= m /\ m <= last
  BY <1>1, MiddleInside DEF Middle
<1>3. m \in 0 .. n - 1
  BY <1>1, <1>2
<1>4. first <= i /\ i <= last
  BY <1>1 DEF Narrowed
<1>5. storage[m] \in Nat /\ arg \in Nat /\ storage[m] \in Objects
  <2>1. Objects \subseteq Nat
    BY CSetAssumption DEF Word
  <2>2. storage[m] \in Objects
    BY <1>1, <1>3
  <2> QED
    BY <1>1, <2>1, <2>2
<1>6. i < m => storage[i] <= storage[m]
  BY <1>1, <1>3, OrdersAgree DEF InOrder
<1>7. m < i => storage[m] <= storage[i]
  BY <1>1, <1>3, OrdersAgree DEF InOrder
<1>8. CASE storage[m] < arg
  <2>1. first' = m + 1 /\ last' = last
    BY <1>5, <1>8 DEF SearchStep
  <2>2. ~ (i <= m)
    BY <1>2, <1>5, <1>6, <1>8
  <2> QED
    BY <1>2, <1>4, <2>1, <2>2
<1>9. CASE storage[m] > arg
  <2>1. first' = first /\ last' = m - 1
    BY <1>5, <1>9 DEF SearchStep
  <2>2. ~ (m <= i)
    BY <1>2, <1>5, <1>7, <1>9
  <2> QED
    BY <1>2, <1>4, <2>1, <2>2
<1>10. CASE storage[m] = arg
  BY <1>5, <1>10, <1>1 DEF SearchStep, Return
<1> QED
  BY <1>5, <1>8, <1>9, <1>10

LEMMA NextNarrows ==
  ASSUME OneHalf, Safe, Narrowed, [Next]_vars
  PROVE  Narrowed'
<1> USE DEF Ready
<1>1. ASSUME NEW p \in Objects, Add(p) PROVE Narrowed'
  BY <1>1 DEF Add, Narrowed
<1>2. ASSUME NEW p \in Objects, Member(p) PROVE Narrowed'
  BY <1>2 DEF Member, Narrowed
<1>3. CASE AddAborts
  BY <1>3 DEF AddAborts, Narrowed
<1>4. CASE ScanStep
  <2>0. /\ storage' = storage /\ arg' = arg
        /\ pc' \in {"scan", "returned"}
    BY <1>4 DEF ScanStep, Return, set
  <2> SUFFICES ASSUME pc' = "scan" PROVE \A i \in 0 .. first' - 1 : storage[i] # arg
    BY <2>0 DEF Narrowed
  <2>1. /\ first \in Nat /\ first' = first + 1 /\ storage[first] # arg
        /\ \A i \in 0 .. first - 1 : storage[i] # arg
    BY <1>4, CSetAssumption DEF ScanStep, Return, Safe, TypeOK, Narrowed
  <2> QED
    BY <2>1
<1>5. CASE ScanEnds
  BY <1>5 DEF ScanEnds, Return, Narrowed
<1>6. CASE Sort
  BY <1>6, CSetAssumption DEF Sort, Narrowed, Safe, TypeOK
<1>7. CASE SearchStep
  BY <1>7, SearchStepNarrows
<1>8. CASE SearchEnds
  BY <1>8 DEF SearchEnds, Return, Narrowed
<1>9. CASE Done
  BY <1>9 DEF Done, Narrowed
<1>10. CASE InitAgain
  BY <1>10 DEF InitAgain, Narrowed
<1>11. CASE UNCHANGED vars
  BY <1>11 DEF vars, Narrowed
<1> QED
  BY <1>1, <1>2, <1>3, <1>4, <1>5, <1>6, <1>7, <1>8, <1>9, <1>10, <1>11
     DEF Next, Lookup

(***************************************************************************)
(* A lookup comes to its answer with everything outside the interval ruled *)
(* out, or with the entry found in its hands.                              *)
(***************************************************************************)
LEMMA AnswerIsMembership ==
  ASSUME OneHalf, NonzeroFirst, Safe, Narrowed,
         ScanStep \/ ScanEnds \/ SearchStep \/ SearchEnds, pc' = "returned"
  PROVE  (ret' # NULL) <=> (arg \in Stored)
<1>1. /\ n \in Nat /\ first \in Nat /\ last \in Int
      /\ storage \in [0 .. n - 1 -> Objects]
  BY CSetAssumption DEF Safe, TypeOK
<1>2. \A p \in Objects : p # NULL
  BY CSetAssumption
<1>3. CASE ScanStep
  <2>1. ret' = arg /\ arg = storage[first] /\ first \in 0 .. n - 1
    BY <1>1, <1>3 DEF ScanStep, Return
  <2> QED
    BY <1>1, <1>2, <2>1 DEF Stored
<1>4. CASE ScanEnds
  BY <1>1, <1>4 DEF ScanEnds, Return, Narrowed, Stored, Safe, Interval
<1>5. CASE SearchStep
  <2>1. ret' = FirstWord[arg] /\ arg = storage[Middle]
    BY <1>5 DEF SearchStep, Return
  <2>2. Middle \in 0 .. n - 1
    BY <1>1, <1>5, MiddleInside DEF SearchStep, Middle, Safe, Interval, TypeOK
  <2> QED
    BY <1>1, <2>1, <2>2 DEF Stored, NonzeroFirst
<1>6. CASE SearchEnds
  BY <1>1, <1>6 DEF SearchEnds, Return, Narrowed, Stored
<1> QED
  BY <1>3, <1>4, <1>5, <1>6

(***************************************************************************)
(* On a heap on one side of the sign bit whose objects start with a nonzero*)
(* word, c_set_member answers non-NULL exactly for the pointers added.     *)
(***************************************************************************)
THEOREM LookupIsCorrect ==
  ASSUME OneHalf, NonzeroFirst
  PROVE  Spec => []MemberCorrect
<1> DEFINE Inv == Safe /\ Narrowed /\ MemberCorrect
<1>1. Init => Inv
  BY InitSafe DEF Init, Narrowed, MemberCorrect
<1>2. Inv /\ [Next]_vars => Inv'
  <2> SUFFICES ASSUME Inv, [Next]_vars PROVE MemberCorrect'
    BY NextSafe, NextNarrows
  <2> SUFFICES ASSUME (pc = "returned")' PROVE (ret' # NULL) <=> (arg \in Stored)'
    BY DEF MemberCorrect
  <2>1. CASE ScanStep \/ ScanEnds \/ SearchStep \/ SearchEnds
    <3>1. arg' = arg /\ Stored' = Stored
      BY <2>1 DEF ScanStep, ScanEnds, SearchStep, SearchEnds, set, Stored
    <3> QED
      BY <2>1, <3>1, AnswerIsMembership
  <2>2. CASE UNCHANGED vars
    BY <2>2 DEF vars, MemberCorrect, Stored
  <2>3. ASSUME NEW p \in Objects, Add(p) \/ Member(p) PROVE FALSE
    BY <2>3 DEF Add, Member
  <2>4. CASE AddAborts \/ Sort \/ Done \/ InitAgain
    BY <2>4 DEF AddAborts, Sort, Done, InitAgain
  <2> QED
    BY <2>1, <2>2, <2>3, <2>4 DEF Next, Lookup
<1>3. Inv => MemberCorrect
  OBVIOUS
<1> QED
  BY <1>1, <1>2, <1>3, PTL DEF Spec

(***************************************************************************)
(* On such a heap c_set implements the set of addresses its callers take it*)
(* for: every step is a step of PointerSet or leaves it as it is.          *)
(***************************************************************************)
THEOREM CSetIsASet ==
  ASSUME OneHalf, NonzeroFirst
  PROVE  Spec => Abstract!Spec
<1>1. Init => Abstract!Init
  <2> SUFFICES ASSUME Init PROVE Abstract!Init
    OBVIOUS
  <2>1. 0 .. n - 1 = {}
    BY DEF Init
  <2> QED
    BY <2>1 DEF Init, Abstract!Init, Abstract!NULL, NULL, InCall, Stored
<1>2. Safe /\ Narrowed /\ [Next]_vars => [Abstract!Next]_(Abstract!vars)
  <2> SUFFICES ASSUME Safe, Narrowed, [Next]_vars
               PROVE  [Abstract!Next]_(Abstract!vars)
    OBVIOUS
  <2> USE DEF Ready, InCall, Abstract!vars, Abstract!NULL, NULL
  <2>0. n \in Nat /\ storage \in [0 .. n - 1 -> Objects] /\ \A p \in Objects : p # 0
    BY CSetAssumption DEF Safe, TypeOK
  <2>1. ASSUME NEW p \in Objects, Add(p) PROVE Abstract!Add(p)
    <3>1. /\ n' = n + 1
          /\ storage' = [i \in 0 .. n |-> IF i = n THEN p ELSE storage[i]]
          /\ pc \in {"idle", "returned"} /\ pc' = "idle" /\ ret' = ret
      BY <2>1 DEF Add
    <3>2. Stored' = Stored \union {p}
      <4>1. Stored' = {storage'[i] : i \in 0 .. n}
        BY <2>0, <3>1 DEF Stored
      <4>2. storage'[n] = p /\ \A i \in 0 .. n - 1 : storage'[i] = storage[i]
        BY <2>0, <3>1
      <4>3. \A i \in 0 .. n : i \in 0 .. n - 1 \/ i = n
        BY <2>0
      <4>4. n \in 0 .. n /\ \A i \in 0 .. n - 1 : i \in 0 .. n
        BY <2>0
      <4>5. Stored = {storage[i] : i \in 0 .. n - 1}
        BY DEF Stored
      <4> QED
        BY <4>1, <4>2, <4>3, <4>4, <4>5, Zenon
    <3> QED
      BY <3>1, <3>2 DEF Abstract!Add
  <2>2. ASSUME NEW p \in Objects, Member(p) PROVE Abstract!Ask(p)
    <3>1. Stored' = Stored
      BY <2>2 DEF Member, Stored, set
    <3> QED
      BY <2>2, <3>1 DEF Member, Abstract!Ask
  <2>3. CASE ScanStep \/ ScanEnds \/ SearchStep \/ SearchEnds
    <3>1. /\ Stored' = Stored /\ arg' = arg /\ arg \in Objects
          /\ pc \in {"scan", "search"}
          /\ pc' = "returned" \/ (pc' = pc /\ ret' = ret)
      BY <2>3 DEF ScanStep, ScanEnds, SearchStep, SearchEnds, Return, set, Stored, Safe, TypeOK
    <3>2. CASE pc' = "returned"
      <4>1. (ret' # 0) <=> (arg \in Stored)
        BY <2>3, <3>2, AnswerIsMembership
      <4> QED
        BY <2>0, <3>1, <3>2, <4>1 DEF Abstract!Next, Abstract!Reply
    <3>3. CASE pc' = pc /\ ret' = ret
      BY <3>1, <3>3
    <3> QED
      BY <3>1, <3>2, <3>3
  <2>4. CASE Sort
    <3>1. Stored' = Stored
      BY <2>4, SortTypes DEF Safe
    <3> QED
      BY <2>4, <3>1 DEF Sort
  <2>5. CASE AddAborts
    BY <2>5 DEF AddAborts, set, Stored
  <2>6. CASE Done
    BY <2>6 DEF Done, set, Stored, Abstract!Next, Abstract!Clear
  <2>7. CASE InitAgain
    <3>1. Stored' = {}
      <4>1. 0 .. n' - 1 = {}
        BY <2>7 DEF InitAgain
      <4> QED
        BY <4>1 DEF Stored
    <3> QED
      BY <2>7, <3>1 DEF InitAgain
  <2>8. CASE UNCHANGED vars
    BY <2>8 DEF vars, Stored
  <2> QED
    BY <2>1, <2>2, <2>3, <2>4, <2>5, <2>6, <2>7, <2>8
       DEF Next, Lookup, Abstract!Next
<1>3. Init => Safe /\ Narrowed
  BY InitSafe DEF Init, Narrowed
<1>4. Safe /\ Narrowed /\ [Next]_vars => Safe' /\ Narrowed'
  BY NextSafe, NextNarrows
<1> QED
  BY <1>1, <1>2, <1>3, <1>4, PTL DEF Spec, Abstract!Spec

-------------------------------------------------------------------------------
(***************************************************************************)
(* One turn of the search of CSetAnswer, with the answers it goes on to    *)
(* taken from m.                                                           *)
(***************************************************************************)
ProbeStep(t, p, m, r) ==
  LET middle == (r[1] + r[2]) \div 2
      q      == t[middle + 1]
  IN  /\ r[1] <= r[2]
      /\ \/ q = p
         \/ q < p /\ m[<<middle + 1, r[2]>>]
         \/ q > p /\ m[<<r[1], middle - 1>>]

(***************************************************************************)
(* The recursion of Probes has a solution on all intervals: the least set  *)
(* of intervals closed under the turns of the search.                      *)
(***************************************************************************)
LEMMA ProbesExist ==
  ASSUME NEW t, NEW p
  PROVE  \E m : m = [r \in Int \X Int |-> ProbeStep(t, p, m, r)]
<1> DEFINE D == Int \X Int
           F(X) == {r \in D : ProbeStep(t, p, [x \in D |-> x \in X], r)}
           L == {r \in D : \A X \in SUBSET D : F(X) \subseteq X => r \in X}
           m == [x \in D |-> x \in L]
<1>1. ASSUME NEW X \in SUBSET D, NEW Y \in SUBSET D, X \subseteq Y
      PROVE  F(X) \subseteq F(Y)
  <2> SUFFICES ASSUME NEW r \in F(X) PROVE r \in F(Y)
    OBVIOUS
  <2>1. /\ r \in D
        /\ <<(r[1] + r[2]) \div 2 + 1, r[2]>> \in D
        /\ <<r[1], (r[1] + r[2]) \div 2 - 1>> \in D
    OBVIOUS
  <2>2. ProbeStep(t, p, [x \in D |-> x \in X], r)
    OBVIOUS
  <2>3. ProbeStep(t, p, [x \in D |-> x \in Y], r)
    BY <1>1, <2>1, <2>2 DEF ProbeStep
  <2> QED
    BY <2>1, <2>3
<1>2. F(L) \subseteq L
  <2> SUFFICES ASSUME NEW r \in F(L), NEW X \in SUBSET D, F(X) \subseteq X PROVE r \in X
    OBVIOUS
  <2>1. L \subseteq X /\ L \in SUBSET D
    OBVIOUS
  <2> HIDE DEF F, L
  <2> QED
    BY <1>1, <2>1
<1>3. L \subseteq F(L)
  <2>1. F(L) \in SUBSET D /\ L \in SUBSET D
    OBVIOUS
  <2>2. F(F(L)) \subseteq F(L)
    <3> HIDE DEF F, L
    <3> QED
      BY <1>1, <1>2, <2>1
  <2> SUFFICES ASSUME NEW r \in L PROVE r \in F(L)
    OBVIOUS
  <2>3. \A X \in SUBSET D : F(X) \subseteq X => r \in X
    BY DEF L
  <2> HIDE DEF F, L
  <2> QED
    BY <2>1, <2>2, <2>3
<1>4. ASSUME NEW r \in D PROVE m[r] = ProbeStep(t, p, m, r)
  <2>1. (r \in L) <=> (r \in F(L))
    <3> HIDE DEF F, L
    <3> QED
      BY <1>2, <1>3
  <2>2. (r \in F(L)) <=> ProbeStep(t, p, m, r)
    BY DEF F
  <2>3. ProbeStep(t, p, m, r) \in BOOLEAN
    BY DEF ProbeStep
  <2>4. m[r] = (r \in L)
    OBVIOUS
  <2> HIDE DEF F, L, m
  <2> QED
    BY <2>1, <2>2, <2>3, <2>4
<1>5. m = [r \in D |-> ProbeStep(t, p, m, r)]
  <2>1. m = [r \in D |-> m[r]]
    <3> HIDE DEF L
    <3> QED
      OBVIOUS
  <2> HIDE DEF L, m
  <2> QED
    BY <1>4, <2>1
<1> QED
  BY <1>5

LEMMA ProbesUnfold ==
  ASSUME NEW t, NEW p, NEW lo \in Int, NEW hi \in Int
  PROVE  Answer!Probes(t, p)[<<lo, hi>>]
           = ProbeStep(t, p, Answer!Probes(t, p), <<lo, hi>>)
<1> DEFINE P(f) == f = [r \in Int \X Int |-> ProbeStep(t, p, f, r)]
<1>1. Answer!Probes(t, p) = CHOOSE f : P(f)
  BY DEF Answer!Probes, ProbeStep
<1>2. \E f : P(f)
  BY ProbesExist
<1>3. P(CHOOSE f : P(f))
  <2> HIDE DEF P
  <2> QED
    BY <1>2
<1>4. P(Answer!Probes(t, p))
  <2> HIDE DEF P
  <2> QED
    BY <1>1, <1>3
<1> QED
  BY <1>4

-------------------------------------------------------------------------------
(***************************************************************************)
(* A nonempty family of subsets of a finite set has a smallest member, in  *)
(* the sense that no other one lies inside it.                             *)
(***************************************************************************)
SubsetsOf(S, F)    == IsFiniteSet(S) /\ F \subseteq SUBSET S /\ F # {}
NothingInside(X, F) == \A Y \in F : Y \subseteq X => Y = X

LEMMA SmallestMember ==
  ASSUME NEW S, NEW F, SubsetsOf(S, F)
  PROVE  \E X \in F : NothingInside(X, F)
<1>0. IsFiniteSet(S) /\ F \subseteq SUBSET S /\ F # {}
  BY DEF SubsetsOf
<1>1. IsWellFoundedOn(StrictSubsetOrdering(S), SUBSET S)
  BY <1>0, FS_StrictSubsetOrderingWellFounded, FS_FiniteSubsetsOfFinite
<1>2. PICK X \in F : \A Y \in F : ~ (<<Y, X>> \in StrictSubsetOrdering(S))
  BY <1>0, <1>1, WFMin
<1>3. ASSUME NEW Y \in F, Y \subseteq X PROVE Y = X
  BY <1>0, <1>2, <1>3 DEF StrictSubsetOrdering
<1> QED
  BY <1>3 DEF NothingInside

LEMMA LeastSlot ==
  ASSUME NEW k \in Nat, NEW g \in [1 .. k -> Int], NEW X \in SUBSET (1 .. k), X # {}
  PROVE  \E i \in X : \A j \in X : g[i] <= g[j]
<1> DEFINE Below(i) == {j \in 1 .. k : g[j] <= g[i]}
           F == {Below(i) : i \in X}
<1>1. SubsetsOf(1 .. k, F)
  <2>1. F \subseteq SUBSET (1 .. k)
    OBVIOUS
  <2>2. F # {}
    OBVIOUS
  <2> HIDE DEF F
  <2> QED
    BY <2>1, <2>2, FS_Interval DEF SubsetsOf
<1>2. PICK B \in F : NothingInside(B, F)
  <2> HIDE DEF F
  <2> QED
    BY <1>1, SmallestMember
<1>3. PICK i \in X : B = Below(i)
  OBVIOUS
<1>4. ASSUME NEW j \in X, ~ (g[i] <= g[j]) PROVE FALSE
  <2>1. g[i] \in Int /\ g[j] \in Int /\ g[j] < g[i]
    BY <1>4
  <2>2. Below(j) \subseteq Below(i)
    BY <2>1
  <2>3. i \in Below(i) /\ i \notin Below(j)
    BY <2>1
  <2>4. Below(j) \in F
    OBVIOUS
  <2> HIDE DEF F, Below
  <2> QED
    BY <1>2, <1>3, <2>2, <2>3, <2>4 DEF NothingInside
<1> QED
  BY <1>4

(***************************************************************************)
(* Every slot of the sorted array holds a word of the array, of the right  *)
(* rank: the words that do not sort after it fill the slots up to this one *)
(* and those that sort before it do not.                                   *)
(***************************************************************************)
Fits(t, w, j) == /\ Cardinality(Answer!Before(t, w)) < j
                 /\ j <= Cardinality(Answer!UpTo(t, w))

LEMMA RankTypes ==
  ASSUME NEW k \in Nat, NEW t \in [1 .. k -> Word], NEW w \in Word
  PROVE  /\ Signed(w) \in Int
         /\ Answer!Before(t, w) \subseteq 1 .. k
         /\ Answer!UpTo(t, w) \subseteq 1 .. k
         /\ \A i \in 1 .. k : /\ Signed(t[i]) \in Int
                              /\ i \in Answer!Before(t, w) <=> Signed(t[i]) < Signed(w)
                              /\ i \in Answer!UpTo(t, w) <=> Signed(t[i]) <= Signed(w)
         /\ IsFiniteSet(Answer!Before(t, w)) /\ Cardinality(Answer!Before(t, w)) \in Nat
         /\ IsFiniteSet(Answer!UpTo(t, w)) /\ Cardinality(Answer!UpTo(t, w)) \in Nat
         /\ Cardinality(Answer!UpTo(t, w)) <= k
<1>1. \A v \in Word : Signed(v) \in Int /\ Answer!SignedWord(v) = Signed(v)
  BY CSetAssumption DEF Word, Signed, Answer!SignedWord
<1>2. /\ Answer!Before(t, w) = {i \in 1 .. k : Signed(t[i]) < Signed(w)}
      /\ Answer!UpTo(t, w) = {i \in 1 .. k : Signed(t[i]) <= Signed(w)}
  BY <1>1 DEF Answer!Before, Answer!UpTo
<1>3. IsFiniteSet(1 .. k) /\ Cardinality(1 .. k) = k
  BY FS_Interval
<1>4. /\ Answer!Before(t, w) \in SUBSET (1 .. k)
      /\ Answer!UpTo(t, w) \in SUBSET (1 .. k)
  BY <1>2
<1> QED
  BY <1>1, <1>2, <1>3, <1>4, FS_Subset, FS_CardinalityType

LEMMA RanksDiffer ==
  ASSUME NEW k \in Nat, NEW t \in [1 .. k -> Word], NEW v \in Word, NEW w \in Word,
         NEW i \in Int, NEW j \in Int, Fits(t, v, i), Fits(t, w, j), Signed(v) < Signed(w)
  PROVE  i < j
<1>1. Answer!UpTo(t, v) \subseteq Answer!Before(t, w)
  BY RankTypes
<1>2. Cardinality(Answer!UpTo(t, v)) <= Cardinality(Answer!Before(t, w))
  BY <1>1, RankTypes, FS_Subset
<1> QED
  BY <1>2, RankTypes DEF Fits

(***************************************************************************)
(* No slot of the sorted array is left without a word: among the words with*)
(* enough words up to them take the one that sorts first.                  *)
(***************************************************************************)
LEMMA RankTaken ==
  ASSUME NEW k \in Nat, NEW t \in [1 .. k -> Word], NEW j \in 1 .. k
  PROVE  \E i \in 1 .. k : Fits(t, t[i], j)
<1> DEFINE up   == [i \in 1 .. k |-> Signed(t[i])]
           down == [i \in 1 .. k |-> - Signed(t[i])]
           X    == {i \in 1 .. k : j <= Cardinality(Answer!UpTo(t, t[i]))}
<1>1. \A i \in 1 .. k : t[i] \in Word /\ Signed(t[i]) \in Int
  BY RankTypes
<1>2. up \in [1 .. k -> Int] /\ down \in [1 .. k -> Int]
  BY <1>1
<1>3. PICK top \in 1 .. k : \A i \in 1 .. k : Signed(t[i]) <= Signed(t[top])
  <2>1. PICK top \in 1 .. k : \A i \in 1 .. k : down[top] <= down[i]
    <3>1. 1 .. k \in SUBSET (1 .. k) /\ 1 .. k # {}
      OBVIOUS
    <3> HIDE DEF down
    <3> QED
      BY <1>2, <3>1, LeastSlot
  <2>2. \A i \in 1 .. k : Signed(t[i]) <= Signed(t[top])
    BY <1>1, <2>1
  <2> QED
    BY <2>2
<1>4. top \in X
  <2>1. Answer!UpTo(t, t[top]) = 1 .. k
    BY <1>1, <1>3, RankTypes
  <2>2. Cardinality(1 .. k) = k
    BY FS_Interval
  <2> QED
    BY <2>1, <2>2
<1>5. PICK i \in X : \A h \in X : Signed(t[i]) <= Signed(t[h])
  <2>1. X \in SUBSET (1 .. k) /\ X # {}
    BY <1>4
  <2>2. PICK i \in X : \A h \in X : up[i] <= up[h]
    <3> HIDE DEF up, X
    <3> QED
      BY <1>2, <2>1, LeastSlot
  <2> QED
    BY <2>2
<1> DEFINE B == Answer!Before(t, t[i])
<1>6. /\ i \in 1 .. k /\ t[i] \in Word /\ B \subseteq 1 .. k
      /\ \A h \in 1 .. k : h \in B <=> Signed(t[h]) < Signed(t[i])
  BY <1>1, RankTypes
<1>7. Cardinality(B) < j
  <2>1. CASE B = {}
    BY <2>1, FS_EmptySet
  <2>2. CASE B # {}
    <3>1. B \in SUBSET (1 .. k)
      BY <1>6
    <3>2. PICK b \in B : \A h \in B : down[b] <= down[h]
      <4> HIDE DEF down, B
      <4> QED
        BY <1>2, <2>2, <3>1, LeastSlot
    <3>3. b \in 1 .. k /\ Signed(t[b]) < Signed(t[i]) /\ b \notin X
      BY <1>1, <1>5, <1>6
    <3>4. ASSUME NEW h \in B PROVE Signed(t[h]) <= Signed(t[b])
      <4>1. h \in 1 .. k /\ b \in 1 .. k /\ down[b] <= down[h]
        BY <3>1, <3>2
      <4>2. - Signed(t[b]) <= - Signed(t[h])
        BY <4>1
      <4> QED
        BY <1>1, <4>1, <4>2
    <3>5. B \subseteq Answer!UpTo(t, t[b])
      <4>1. \A h \in 1 .. k : h \in Answer!UpTo(t, t[b]) <=> Signed(t[h]) <= Signed(t[b])
        BY <1>1, <3>3, RankTypes
      <4> HIDE DEF B
      <4> QED
        BY <3>1, <3>4, <4>1
    <3>6. /\ IsFiniteSet(Answer!UpTo(t, t[b]))
          /\ Cardinality(Answer!UpTo(t, t[b])) \in Nat
      BY <1>1, <3>3, RankTypes
    <3>7. Cardinality(B) <= Cardinality(Answer!UpTo(t, t[b]))
      BY <3>5, <3>6, FS_Subset
    <3>8. Cardinality(Answer!UpTo(t, t[b])) < j
      BY <3>3, <3>6
    <3>9. Cardinality(B) \in Nat
      BY <1>6, RankTypes
    <3> QED
      BY <3>6, <3>7, <3>8, <3>9
  <2> QED
    BY <2>1, <2>2
<1>8. j <= Cardinality(Answer!UpTo(t, t[i]))
  OBVIOUS
<1> QED
  BY <1>6, <1>7, <1>8 DEF Fits

(***************************************************************************)
(* What the sort of CSetAnswer makes of an array: the same words, in the   *)
(* order of _pointer_compare.                                              *)
(***************************************************************************)
LEMMA SortedSlots ==
  ASSUME NEW k \in Nat, NEW s \in [1 .. k -> Word]
  PROVE  /\ Answer!SortedAsSigned(s) \in [1 .. k -> Word]
         /\ \A j \in 1 .. k : /\ Fits(s, Answer!SortedAsSigned(s)[j], j)
                              /\ \E i \in 1 .. k : Answer!SortedAsSigned(s)[j] = s[i]
<1> DEFINE P(w, j) == Fits(s, w, j)
<1>1. DOMAIN s = 1 .. k /\ \A i \in 1 .. k : s[i] \in Word
  OBVIOUS
<1>2. Range(s) = {s[i] : i \in 1 .. k}
  BY <1>1 DEF Range
<1>3. Answer!SortedAsSigned(s) = [j \in 1 .. k |-> CHOOSE w \in Range(s) : P(w, j)]
  <2>1. \A S : Answer!Cardinality(S) = Cardinality(S)
    BY DEF Answer!Cardinality, Cardinality
  <2>2. Answer!Range(s) = Range(s)
    BY DEF Answer!Range, Range
  <2> QED
    BY <1>1, <2>1, <2>2 DEF Answer!SortedAsSigned, Fits
<1>4. ASSUME NEW j \in 1 .. k
      PROVE  \E i \in 1 .. k : /\ (CHOOSE w \in Range(s) : P(w, j)) = s[i]
                               /\ P(s[i], j)
  <2>1. \E w \in Range(s) : P(w, j)
    BY <1>2, RankTaken
  <2> HIDE DEF P
  <2>2. /\ (CHOOSE w \in Range(s) : P(w, j)) \in Range(s)
        /\ P(CHOOSE w \in Range(s) : P(w, j), j)
    BY <2>1
  <2> QED
    BY <1>2, <2>2
<1> HIDE DEF P
<1>5. \A j \in 1 .. k : \E i \in 1 .. k : /\ Answer!SortedAsSigned(s)[j] = s[i]
                                          /\ P(s[i], j)
  BY <1>3, <1>4
<1>6. Answer!SortedAsSigned(s) \in [1 .. k -> Word]
  BY <1>1, <1>3, <1>5
<1> QED
  BY <1>5, <1>6 DEF P

LEMMA SortSorts ==
  ASSUME NEW k \in Nat, NEW s \in [1 .. k -> Word]
  PROVE  /\ \A i, j \in 1 .. k :
              i < j => Signed(Answer!SortedAsSigned(s)[i]) <= Signed(Answer!SortedAsSigned(s)[j])
         /\ \A i \in 1 .. k : \E j \in 1 .. k : Answer!SortedAsSigned(s)[j] = s[i]
<1>1. PICK t \in [1 .. k -> Word] : /\ t = Answer!SortedAsSigned(s)
                                    /\ \A j \in 1 .. k : /\ Fits(s, t[j], j)
                                                         /\ \E i \in 1 .. k : t[j] = s[i]
  BY SortedSlots
<1>2. \A w \in Word : Signed(w) \in Int
  BY CSetAssumption DEF Word, Signed
<1>3. \A v, w \in Word : Signed(v) = Signed(w) => v = w
  BY CSetAssumption DEF Word, Signed
<1>4. ASSUME NEW i \in 1 .. k, NEW j \in 1 .. k, i < j
      PROVE  Signed(t[i]) <= Signed(t[j])
  <2>1. t[i] \in Word /\ t[j] \in Word /\ Fits(s, t[i], i) /\ Fits(s, t[j], j)
    BY <1>1
  <2>2. ~ (Signed(t[j]) < Signed(t[i]))
    BY <1>4, <2>1, RanksDiffer
  <2> QED
    BY <1>2, <2>1, <2>2
<1>5. ASSUME NEW i \in 1 .. k
      PROVE  \E j \in 1 .. k : t[j] = s[i]
  <2>1. s[i] \in Word
    OBVIOUS
  <2>2. PICK B, U : B = Answer!Before(s, s[i]) /\ U = Answer!UpTo(s, s[i])
    OBVIOUS
  <2>3. /\ \A h \in 1 .. k : /\ Signed(s[h]) \in Int
                             /\ h \in B <=> Signed(s[h]) < Signed(s[i])
                             /\ h \in U <=> Signed(s[h]) <= Signed(s[i])
        /\ B \subseteq 1 .. k /\ Cardinality(B) \in Nat
        /\ IsFiniteSet(U) /\ Cardinality(U) \in Nat /\ Cardinality(U) <= k
    BY <2>1, <2>2, RankTypes
  <2>4. B \subseteq U \ {i} /\ i \in U
    BY <2>3
  <2>5. Cardinality(B) <= Cardinality(U) - 1
    <3>1. IsFiniteSet(U \ {i}) /\ Cardinality(U \ {i}) = Cardinality(U) - 1
      BY <2>3, <2>4, FS_RemoveElement
    <3>2. Cardinality(B) <= Cardinality(U \ {i})
      BY <2>4, <3>1, FS_Subset
    <3> QED
      BY <3>1, <3>2
  <2>6. PICK j \in 1 .. k : Fits(s, s[i], j)
    <3>1. Cardinality(B) + 1 \in 1 .. k
      BY <2>3, <2>5
    <3>2. Fits(s, s[i], Cardinality(B) + 1)
      BY <2>2, <2>3, <2>5 DEF Fits
    <3> QED
      BY <3>1, <3>2
  <2>7. t[j] \in Word /\ Fits(s, t[j], j)
    BY <1>1
  <2>8. ~ (Signed(t[j]) < Signed(s[i])) /\ ~ (Signed(s[i]) < Signed(t[j]))
    BY <2>1, <2>6, <2>7, RanksDiffer
  <2>9. t[j] = s[i]
    BY <1>2, <1>3, <2>1, <2>7, <2>8
  <2> QED
    BY <2>9
<1> QED
  BY <1>1, <1>4, <1>5

(***************************************************************************)
(* An array that is in the order of _pointer_compare is what the sort of   *)
(* CSetAnswer makes of it.                                                 *)
(***************************************************************************)
LEMMA SortKeepsSorted ==
  ASSUME NEW k \in Nat, NEW t \in [1 .. k -> Word],
         \A i, j \in 1 .. k : i < j => SortsBefore(t[i], t[j])
  PROVE  Answer!SortedAsSigned(t) = t
<1>1. PICK u \in [1 .. k -> Word] : /\ u = Answer!SortedAsSigned(t)
                                    /\ \A j \in 1 .. k : Fits(t, u[j], j)
  BY SortedSlots
<1>2. /\ \A w \in Word : Signed(w) \in Int
      /\ \A v, w \in Word : Signed(v) = Signed(w) => v = w
  BY CSetAssumption DEF Word, Signed
<1>3. ASSUME NEW j \in 1 .. k
      PROVE  Fits(t, t[j], j)
  <2>1. PICK B, U : B = Answer!Before(t, t[j]) /\ U = Answer!UpTo(t, t[j])
    OBVIOUS
  <2>2. /\ \A h \in 1 .. k : /\ Signed(t[h]) \in Int
                             /\ h \in B <=> Signed(t[h]) < Signed(t[j])
                             /\ h \in U <=> Signed(t[h]) <= Signed(t[j])
        /\ B \subseteq 1 .. k /\ Cardinality(B) \in Nat
        /\ IsFiniteSet(U) /\ Cardinality(U) \in Nat
    BY <2>1, RankTypes
  <2>3. \A h \in 1 .. k : /\ h < j => Signed(t[h]) <= Signed(t[j])
                          /\ j < h => Signed(t[j]) <= Signed(t[h])
    BY DEF SortsBefore
  <2>4. B \subseteq 1 .. j - 1 /\ 1 .. j \subseteq U
    BY <2>2, <2>3
  <2>5. /\ IsFiniteSet(1 .. j - 1) /\ Cardinality(1 .. j - 1) = j - 1
        /\ IsFiniteSet(1 .. j) /\ Cardinality(1 .. j) = j
    BY FS_Interval
  <2>6. Cardinality(B) <= j - 1
    <3>1. B \in SUBSET (1 .. j - 1)
      BY <2>4
    <3>2. Cardinality(B) <= Cardinality(1 .. j - 1)
      BY <2>5, <3>1, FS_Subset, Zenon
    <3> QED
      BY <2>5, <3>2
  <2>7. j <= Cardinality(U)
    BY <2>2, <2>4, <2>5, FS_Subset
  <2> QED
    BY <2>1, <2>2, <2>6, <2>7 DEF Fits
<1>4. ASSUME NEW j \in 1 .. k
      PROVE  u[j] = t[j]
  <2>1. u[j] \in Word /\ t[j] \in Word /\ Fits(t, u[j], j) /\ Fits(t, t[j], j)
    BY <1>1, <1>3
  <2>2. ~ (Signed(u[j]) < Signed(t[j])) /\ ~ (Signed(t[j]) < Signed(u[j]))
    BY <2>1, RanksDiffer
  <2> QED
    BY <1>2, <2>1, <2>2
<1> QED
  BY <1>1, <1>4

LEMMA AsManyBefore ==
  ASSUME NEW D, IsFiniteSet(D), NEW f \in Bijection(D, D), NEW B \in SUBSET D
  PROVE  Cardinality({i \in D : f[i] \in B}) = Cardinality(B)
<1> DEFINE C == {i \in D : f[i] \in B}
           g == [i \in C |-> f[i]]
<1>1. /\ f \in [D -> D]
      /\ \A a, b \in D : f[a] = f[b] => a = b
      /\ \A w \in D : \E v \in D : f[v] = w
  BY DEF Bijection, Surjection, Injection, IsInjective
<1>2. g \in [C -> B] /\ \A i \in C : g[i] = f[i] /\ i \in D
  BY <1>1
<1>3. \A w \in B : \E v \in C : f[v] = w
  BY <1>1
<1>4. IsFiniteSet(C)
  BY FS_Subset
<1> HIDE DEF g, C
<1>5. g \in Surjection(C, B) /\ g \in Injection(C, B)
  BY <1>1, <1>2, <1>3 DEF Surjection, Injection, IsInjective
<1>6. ExistsBijection(C, B)
  BY <1>5 DEF ExistsBijection, Bijection
<1>7. Cardinality(B) = Cardinality(C)
  BY <1>4, <1>6, FS_Bijection
<1> QED
  BY <1>7 DEF C

(***************************************************************************)
(* The order in which the addresses were added makes no difference to the  *)
(* answer: the models of the dumps keep the addresses in the order of the  *)
(* adds, c_set in the order its sorts have left them in.                   *)
(***************************************************************************)
THEOREM AnswerIgnoresOrder ==
  ASSUME NEW k \in Nat, NEW s \in [1 .. k -> Word],
         NEW f \in Bijection(1 .. k, 1 .. k), NEW p
  PROVE  Answer!Answers([i \in 1 .. k |-> s[f[i]]], p) <=> Answer!Answers(s, p)
<1> DEFINE D == 1 .. k
           t == [i \in D |-> s[f[i]]]
<1>1. f \in [D -> D] /\ \A w \in D : \E v \in D : f[v] = w
  BY DEF Bijection, Surjection
<1>2. /\ t \in [D -> Word] /\ DOMAIN t = D /\ Len(t) = k /\ \A i \in D : t[i] = s[f[i]]
      /\ DOMAIN s = D /\ Len(s) = k
  BY <1>1
<1>3. Range(t) = Range(s)
  <2>1. \A i \in D : \E j \in D : t[i] = s[j]
    BY <1>1, <1>2
  <2>2. \A j \in D : \E i \in D : t[i] = s[j]
    BY <1>1, <1>2
  <2>3. Range(t) = {t[i] : i \in D} /\ Range(s) = {s[i] : i \in D}
    BY <1>2 DEF Range
  <2> HIDE DEF t, D
  <2>4. {t[i] : i \in D} \subseteq {s[i] : i \in D}
    BY <2>1
  <2>5. {s[i] : i \in D} \subseteq {t[i] : i \in D}
    BY <2>2
  <2> QED
    BY <2>3, <2>4, <2>5
<1>4. ASSUME NEW w
      PROVE  /\ Cardinality(Answer!Before(t, w)) = Cardinality(Answer!Before(s, w))
             /\ Cardinality(Answer!UpTo(t, w)) = Cardinality(Answer!UpTo(s, w))
  <2>1. Answer!Before(t, w) = {i \in D : f[i] \in Answer!Before(s, w)}
    <3> HIDE DEF t, D
    <3> QED
      BY <1>1, <1>2 DEF Answer!Before
  <2>2. Answer!UpTo(t, w) = {i \in D : f[i] \in Answer!UpTo(s, w)}
    <3> HIDE DEF t, D
    <3> QED
      BY <1>1, <1>2 DEF Answer!UpTo
  <2>3. Answer!Before(s, w) \in SUBSET D /\ Answer!UpTo(s, w) \in SUBSET D
    BY <1>2 DEF Answer!Before, Answer!UpTo
  <2>4. IsFiniteSet(D)
    BY FS_Interval
  <2> HIDE DEF t, D
  <2> QED
    BY <2>1, <2>2, <2>3, <2>4, AsManyBefore DEF D
<1>5. Answer!SortedAsSigned(t) = Answer!SortedAsSigned(s)
  <2> DEFINE Rank(u, w, j) == /\ Answer!Cardinality(Answer!Before(u, w)) < j
                              /\ j <= Answer!Cardinality(Answer!UpTo(u, w))
  <2>1. \A S : Answer!Cardinality(S) = Cardinality(S)
    BY DEF Answer!Cardinality, Cardinality
  <2>2. \A u : Answer!Range(u) = Range(u)
    BY DEF Answer!Range, Range
  <2>3. \A w, j : Rank(t, w, j) <=> Rank(s, w, j)
    <3> HIDE DEF t
    <3> QED
      BY <1>4, <2>1
  <2>4. ASSUME NEW j
        PROVE  (CHOOSE w \in Answer!Range(t) : Rank(t, w, j))
                 = (CHOOSE w \in Answer!Range(s) : Rank(s, w, j))
    <3>1. Answer!Range(t) = Answer!Range(s)
      BY <1>3, <2>2
    <3> HIDE DEF t, Rank
    <3> QED
      BY <2>3, <3>1, Zenon
  <2>5. \A u : Answer!SortedAsSigned(u)
                 = [j \in DOMAIN u |-> CHOOSE w \in Answer!Range(u) : Rank(u, w, j)]
    BY DEF Answer!SortedAsSigned
  <2>6. /\ Answer!SortedAsSigned(t) = [j \in D |-> CHOOSE w \in Answer!Range(t) : Rank(t, w, j)]
        /\ Answer!SortedAsSigned(s) = [j \in D |-> CHOOSE w \in Answer!Range(s) : Rank(s, w, j)]
    BY <1>2, <2>5
  <2> HIDE DEF t, Rank, D
  <2> QED
    BY <2>4, <2>6
<1>6. (\E i \in DOMAIN t : t[i] = p) <=> (\E i \in DOMAIN s : s[i] = p)
  <2> HIDE DEF t, D
  <2> QED
    BY <1>3 DEF Range
<1> HIDE DEF t
<1>7. Answer!Answers(t, p) <=> Answer!Answers(s, p)
  BY <1>2, <1>5, <1>6 DEF Answer!Answers
<1> QED
  BY <1>7 DEF t

(***************************************************************************)
(* The binary search: what it comes across lies in its interval, on every  *)
(* array; and on an array in the unsigned order it comes across whatever   *)
(* lies there.                                                             *)
(***************************************************************************)
Rising(t) == \A i, j \in DOMAIN t : i < j => t[i] <= t[j]

LEMMA ProbesFind ==
  ASSUME NEW k \in Nat, NEW t \in [1 .. k -> Nat], NEW p \in Nat
  PROVE  \A lo, hi \in Int :
           0 <= lo /\ hi < k
             => /\ Answer!Probes(t, p)[<<lo, hi>>] => \E i \in lo .. hi : t[i + 1] = p
                /\ Rising(t) /\ (\E i \in lo .. hi : t[i + 1] = p)
                     => Answer!Probes(t, p)[<<lo, hi>>]
<1>1. PICK m : m = Answer!Probes(t, p)
  OBVIOUS
<1> DEFINE Right(lo, hi) ==
             /\ m[<<lo, hi>>] => \E i \in lo .. hi : t[i + 1] = p
             /\ Rising(t) /\ (\E i \in lo .. hi : t[i + 1] = p) => m[<<lo, hi>>]
           Wrong(lo, hi) == 0 <= lo /\ hi < k /\ ~ Right(lo, hi)
           F == {X \in SUBSET (0 .. k - 1) :
                   \E lo, hi \in Int : X = lo .. hi /\ Wrong(lo, hi)}
<1>2. SUFFICES ASSUME F # {} PROVE FALSE
  <2>1. SUFFICES ASSUME NEW lo \in Int, NEW hi \in Int, Wrong(lo, hi) PROVE FALSE
    BY <1>1
  <2>2. lo .. hi \in SUBSET (0 .. k - 1)
    BY <2>1
  <2>3. lo .. hi \in F
    <3> HIDE DEF Wrong
    <3> QED
      BY <2>1, <2>2
  <2> HIDE DEF F, Wrong
  <2> QED
    BY <1>2, <2>3
<1>3. PICK X \in F : NothingInside(X, F)
  <2>1. SubsetsOf(0 .. k - 1, F)
    <3>1. IsFiniteSet(0 .. k - 1) /\ F \subseteq SUBSET (0 .. k - 1)
      BY FS_Interval
    <3> HIDE DEF F
    <3> QED
      BY <1>2, <3>1 DEF SubsetsOf
  <2> HIDE DEF F
  <2> QED
    BY <2>1, SmallestMember
<1>4. PICK lo \in Int, hi \in Int : X = lo .. hi /\ Wrong(lo, hi)
  <2> HIDE DEF Wrong
  <2> QED
    OBVIOUS
<1>5. m[<<lo, hi>>] = ProbeStep(t, p, m, <<lo, hi>>)
  <2> HIDE DEF F, Wrong, Right
  <2>1. Answer!Probes(t, p)[<<lo, hi>>] = ProbeStep(t, p, Answer!Probes(t, p), <<lo, hi>>)
    BY ProbesUnfold, Zenon
  <2> QED
    BY <1>1, <2>1
<1>6. lo <= hi
  <2>1. CASE lo > hi
    <3>1. ~ m[<<lo, hi>>]
      BY <1>5, <2>1 DEF ProbeStep
    <3>2. lo .. hi = {}
      BY <2>1
    <3> QED
      BY <1>4, <3>1, <3>2
  <2> QED
    BY <2>1
<1>7. PICK c \in Int : c = (lo + hi) \div 2 /\ lo <= c /\ c <= hi
  BY <1>6, MiddleInside
<1>8. 0 <= lo /\ hi < k /\ c + 1 \in 1 .. k /\ t[c + 1] \in Nat
  BY <1>4, <1>7
<1>9. ASSUME NEW a \in Int, NEW b \in Int, lo <= a, b <= hi, c \notin a .. b
      PROVE  Right(a, b)
  <2>1. a .. b \subseteq lo .. hi /\ a .. b # lo .. hi
    BY <1>7, <1>9
  <2>2. a .. b \notin F
    <3> HIDE DEF F
    <3> QED
      BY <1>3, <1>4, <2>1 DEF NothingInside
  <2>3. a .. b \in SUBSET (0 .. k - 1)
    BY <1>8, <1>9
  <2>4. ~ Wrong(a, b)
    <3> HIDE DEF Wrong
    <3> QED
      BY <2>2, <2>3
  <2>5. 0 <= a /\ b < k
    BY <1>8, <1>9
  <2> HIDE DEF F, Right
  <2> QED
    BY <2>4, <2>5
<1>10. Right(c + 1, hi) /\ Right(lo, c - 1)
  <2>1. c \notin c + 1 .. hi /\ c \notin lo .. c - 1
    OBVIOUS
  <2>2. c + 1 \in Int /\ c - 1 \in Int /\ lo <= c + 1 /\ c - 1 <= hi
    BY <1>7
  <2> HIDE DEF Right
  <2> QED
    BY <1>9, <2>1, <2>2
<1>11. m[<<lo, hi>>] <=> \/ t[c + 1] = p
                         \/ t[c + 1] < p /\ m[<<c + 1, hi>>]
                         \/ t[c + 1] > p /\ m[<<lo, c - 1>>]
  BY <1>5, <1>6, <1>7 DEF ProbeStep
<1>12. m[<<lo, hi>>] => \E i \in lo .. hi : t[i + 1] = p
  <2>1. (\E i \in c + 1 .. hi : t[i + 1] = p) => \E i \in lo .. hi : t[i + 1] = p
    BY <1>7
  <2>2. (\E i \in lo .. c - 1 : t[i + 1] = p) => \E i \in lo .. hi : t[i + 1] = p
    BY <1>7
  <2>3. t[c + 1] = p => \E i \in lo .. hi : t[i + 1] = p
    BY <1>7
  <2> QED
    BY <1>10, <1>11, <2>1, <2>2, <2>3
<1>13. ASSUME Rising(t), NEW i \in lo .. hi, t[i + 1] = p PROVE m[<<lo, hi>>]
  <2>0. \A a, b \in 1 .. k : a < b => t[a] <= t[b]
    BY <1>13 DEF Rising
  <2>1. /\ i + 1 \in 1 .. k /\ i \in Int
        /\ i < c => p <= t[c + 1]
        /\ c < i => t[c + 1] <= p
    <3>1. i + 1 \in 1 .. k /\ i \in Int
      BY <1>8
    <3>2. (i < c => i + 1 < c + 1) /\ (c < i => c + 1 < i + 1)
      BY <3>1
    <3> QED
      BY <1>8, <1>13, <2>0, <3>1, <3>2
  <2>2. CASE t[c + 1] = p
    BY <1>11, <2>2
  <2>3. CASE t[c + 1] < p
    <3>1. c < i
      BY <1>8, <1>13, <2>1, <2>3
    <3>2. i \in c + 1 .. hi
      BY <3>1
    <3> QED
      BY <1>10, <1>11, <1>13, <2>3, <3>2
  <2>4. CASE t[c + 1] > p
    <3>1. i < c
      BY <1>8, <1>13, <2>1, <2>4
    <3>2. i \in lo .. c - 1
      BY <3>1
    <3> QED
      BY <1>10, <1>11, <1>13, <2>4, <3>2
  <2> QED
    BY <1>8, <2>2, <2>3, <2>4
<1>14. Right(lo, hi)
  BY <1>12, <1>13
<1> QED
  BY <1>4, <1>14

(***************************************************************************)
(* CSetAnswer never takes an address for added that was not, and misses    *)
(* none when the addresses lie on one side of the sign bit.  With distinct *)
(* addresses this is what the theorems about the dumps assume of their set *)
(* under the name of MemberExact.                                          *)
(***************************************************************************)
THEOREM AnswerIsExact ==
  ASSUME NEW k \in Nat, NEW s \in [1 .. k -> Word], NEW p \in Word
  PROVE  /\ Answer!Answers(s, p) => \E i \in 1 .. k : s[i] = p
         /\ (\A i \in 1 .. k : (s[i] < Half) <=> (p < Half))
              => (Answer!Answers(s, p) <=> \E i \in 1 .. k : s[i] = p)
<1>1. /\ DOMAIN s = 1 .. k /\ Len(s) = k
      /\ \A w \in Word : w \in Nat /\ Signed(w) \in Int
  BY CSetAssumption DEF Word, Signed
<1>2. CASE k < 2
  BY <1>1, <1>2 DEF Answer!Answers
<1>3. CASE ~ (k < 2)
  <2>1. PICK t \in [1 .. k -> Word] :
          /\ t = Answer!SortedAsSigned(s)
          /\ \A j \in 1 .. k : \E i \in 1 .. k : t[j] = s[i]
    BY SortedSlots
  <2>2. /\ \A i, j \in 1 .. k : i < j => Signed(t[i]) <= Signed(t[j])
        /\ \A i \in 1 .. k : \E j \in 1 .. k : t[j] = s[i]
    BY <2>1, SortSorts
  <2>3. Answer!Answers(s, p) <=> Answer!Probes(t, p)[<<0, k - 1>>]
    <3>1. Len(t) = k
      BY <2>1
    <3>2. Answer!Answers(s, p) <=> Answer!Meets(t, p)
      BY <1>1, <1>3, <2>1 DEF Answer!Answers
    <3> QED
      BY <3>1, <3>2 DEF Answer!Meets
  <2>4. (\E i \in 0 .. k - 1 : t[i + 1] = p) <=> \E i \in 1 .. k : s[i] = p
    <3>1. ASSUME NEW i \in 0 .. k - 1, t[i + 1] = p PROVE \E j \in 1 .. k : s[j] = p
      <4>1. i + 1 \in 1 .. k
        OBVIOUS
      <4> QED
        BY <2>1, <3>1, <4>1
    <3>2. ASSUME NEW i \in 1 .. k, s[i] = p PROVE \E j \in 0 .. k - 1 : t[j + 1] = p
      <4>1. PICK j \in 1 .. k : t[j] = p
        BY <2>2, <3>2
      <4>2. j - 1 \in 0 .. k - 1 /\ (j - 1) + 1 = j
        OBVIOUS
      <4> QED
        BY <4>1, <4>2
    <3> QED
      BY <3>1, <3>2
  <2>5. t \in [1 .. k -> Nat] /\ p \in Nat /\ 0 \in Int /\ k - 1 \in Int
    <3>1. t \in [1 .. k -> Nat]
      BY <1>1
    <3> QED
      BY <1>1, <3>1
  <2>6. (\A i \in 1 .. k : (s[i] < Half) <=> (p < Half)) => Rising(t)
    <3> SUFFICES ASSUME \A i \in 1 .. k : (s[i] < Half) <=> (p < Half),
                        NEW i \in 1 .. k, NEW j \in 1 .. k, i < j
                 PROVE  t[i] <= t[j]
      BY DEF Rising
    <3>1. /\ t[i] \in Word /\ t[j] \in Word
          /\ (t[i] < Half) <=> (t[j] < Half)
      BY <2>1
    <3>2. Signed(t[i]) <= Signed(t[j])
      BY <2>2
    <3> QED
      BY <3>1, <3>2, CSetAssumption DEF Signed, Word
  <2>7. /\ Answer!Probes(t, p)[<<0, k - 1>>] => \E i \in 0 .. k - 1 : t[i + 1] = p
        /\ Rising(t) /\ (\E i \in 0 .. k - 1 : t[i + 1] = p)
             => Answer!Probes(t, p)[<<0, k - 1>>]
    <3>1. 0 <= 0 /\ k - 1 < k
      OBVIOUS
    <3>2. \A lo, hi \in Int :
            0 <= lo /\ hi < k
              => /\ Answer!Probes(t, p)[<<lo, hi>>] => \E i \in lo .. hi : t[i + 1] = p
                 /\ Rising(t) /\ (\E i \in lo .. hi : t[i + 1] = p)
                      => Answer!Probes(t, p)[<<lo, hi>>]
      BY <2>5, ProbesFind, Zenon
    <3> QED
      BY <2>5, <3>1, <3>2, Zenon
  <2> QED
    BY <2>3, <2>4, <2>6, <2>7
<1> QED
  BY <1>2, <1>3

(***************************************************************************)
(* What the dumps add and look up are objects at addresses of their own.   *)
(* When these lie on one side of the sign bit, the answers worked out from *)
(* the addresses are those of a set of objects.  With the addresses of the *)
(* runs this is the hypothesis MemberExact of the theorems about the dumps.*)
(***************************************************************************)
THEOREM ObjectsAreFound ==
  ASSUME NEW Things, NEW address \in [Things -> Word],
         \A x, y \in Things : /\ address[x] = address[y] => x = y
                              /\ (address[x] < Half) <=> (address[y] < Half),
         NEW added \in Seq(Things), NEW x \in Things
  PROVE  Answer!Answers([i \in DOMAIN added |-> address[added[i]]], address[x])
           <=> x \in {added[i] : i \in DOMAIN added}
<1>1. PICK k \in Nat : DOMAIN added = 1 .. k /\ \A i \in 1 .. k : added[i] \in Things
  OBVIOUS
<1>2. PICK s \in [1 .. k -> Word] : /\ s = [i \in DOMAIN added |-> address[added[i]]]
                                    /\ \A i \in 1 .. k : s[i] = address[added[i]]
  <2>1. [i \in DOMAIN added |-> address[added[i]]] = [i \in 1 .. k |-> address[added[i]]]
    BY <1>1
  <2>2. [i \in 1 .. k |-> address[added[i]]] \in [1 .. k -> Word]
    BY <1>1
  <2> QED
    BY <2>1, <2>2
<1>3. PICK p \in Word : p = address[x]
  OBVIOUS
<1>4. \A i \in 1 .. k : (s[i] < Half) <=> (p < Half)
  BY <1>1, <1>2, <1>3
<1>5. Answer!Answers(s, p) <=> \E i \in 1 .. k : s[i] = p
  BY <1>4, AnswerIsExact
<1>6. (\E i \in 1 .. k : s[i] = p) <=> \E i \in 1 .. k : added[i] = x
  BY <1>1, <1>2, <1>3
<1> QED
  BY <1>1, <1>2, <1>3, <1>5, <1>6

-------------------------------------------------------------------------------
(***************************************************************************)
(* Wherever the search stands, what is left to probe decides what the whole*)
(* array decides; and while the scan runs, no slot before it holds the     *)
(* pointer.  This is what makes the agreement inductive.                   *)
(***************************************************************************)
Agreeing ==
  /\ pc \in {"sort", "search"} => n >= 2
  /\ pc = "scan" => n < 2 /\ \A i \in 0 .. first - 1 : storage[i] # arg
  /\ pc = "search" => (Answer!Probes(Array, arg)[<<first, last>>]
                         <=> Answer!Probes(Array, arg)[<<0, n - 1>>])

LEMMA ArrayType ==
  ASSUME Safe
  PROVE  /\ n \in Nat /\ Array \in [1 .. n -> Word] /\ Len(Array) = n
         /\ \A i \in 1 .. n : Array[i] = storage[i - 1]
         /\ \A i \in 0 .. n - 1 : Array[i + 1] = storage[i]
<1>1. n \in Nat /\ storage \in [0 .. n - 1 -> Word]
  BY CSetAssumption DEF Safe, TypeOK
<1>2. \A i \in 1 .. n : i - 1 \in 0 .. n - 1
  BY <1>1
<1>3. Array \in [1 .. n -> Word]
  BY <1>1, <1>2 DEF Array
<1>4. Array \in Seq(Word) /\ Len(Array) = n
  BY <1>1, <1>3
<1>5. \A i \in 1 .. n : Array[i] = storage[i - 1]
  BY DEF Array
<1>6. \A i \in 0 .. n - 1 : i + 1 \in 1 .. n /\ (i + 1) - 1 = i
  BY <1>1
<1> QED
  BY <1>1, <1>3, <1>4, <1>5, <1>6

LEMMA AnswerOfScan ==
  ASSUME Safe, n < 2
  PROVE  Answer!Answers(Array, arg) <=> \E i \in 0 .. n - 1 : storage[i] = arg
<1>1. Answer!Answers(Array, arg) <=> \E i \in DOMAIN Array : Array[i] = arg
  BY ArrayType DEF Answer!Answers
<1>2. DOMAIN Array = 1 .. n
  BY ArrayType
<1>3. ASSUME NEW i \in 1 .. n, Array[i] = arg
      PROVE  \E j \in 0 .. n - 1 : storage[j] = arg
  <2>1. i - 1 \in 0 .. n - 1 /\ storage[i - 1] = arg
    BY <1>3, ArrayType
  <2> QED
    BY <2>1
<1>4. ASSUME NEW i \in 0 .. n - 1, storage[i] = arg
      PROVE  \E j \in 1 .. n : Array[j] = arg
  <2>1. i + 1 \in 1 .. n /\ Array[i + 1] = arg
    BY <1>4, ArrayType
  <2> QED
    BY <2>1
<1> QED
  BY <1>1, <1>2, <1>3, <1>4

LEMMA AnswerOfSearch ==
  ASSUME Safe, n >= 2, sorted
  PROVE  Answer!Answers(Array, arg) <=> Answer!Probes(Array, arg)[<<0, n - 1>>]
<1>1. \A i, j \in 1 .. n : i < j => SortsBefore(Array[i], Array[j])
  <2> SUFFICES ASSUME NEW i \in 1 .. n, NEW j \in 1 .. n, i < j
               PROVE  SortsBefore(Array[i], Array[j])
    OBVIOUS
  <2>1. n \in Nat /\ Array[i] = storage[i - 1] /\ Array[j] = storage[j - 1]
    BY ArrayType
  <2>2. i - 1 \in 0 .. n - 1 /\ j - 1 \in 0 .. n - 1 /\ i - 1 < j - 1
    BY <2>1
  <2>3. InOrder(storage) /\ DOMAIN storage = 0 .. n - 1
    BY DEF Safe, TypeOK, SortedMeansInOrder
  <2> QED
    BY <2>1, <2>2, <2>3 DEF InOrder
<1>2. PICK k \in Nat : k = n
  BY ArrayType
<1>3. PICK t \in [1 .. k -> Word] : t = Array
  BY <1>2, ArrayType
<1>4. Answer!SortedAsSigned(t) = t
  <2>1. \A i, j \in 1 .. k : i < j => SortsBefore(t[i], t[j])
    BY <1>1, <1>2, <1>3
  <2> QED
    BY <2>1, SortKeepsSorted
<1>5. Len(t) = k /\ ~ (Len(t) < 2)
  BY <1>2, <1>3, ArrayType
<1>6. Answer!Answers(t, arg) <=> Answer!Meets(t, arg)
  BY <1>4, <1>5 DEF Answer!Answers
<1>7. Answer!Meets(t, arg) <=> Answer!Probes(t, arg)[<<0, k - 1>>]
  BY <1>5 DEF Answer!Meets
<1> QED
  BY <1>2, <1>3, <1>6, <1>7

(***************************************************************************)
(* One turn of the loop leaves the answer of the probes as it was, and ends*)
(* the lookup with it.                                                     *)
(***************************************************************************)
LEMMA SearchStepAgrees ==
  ASSUME Safe, SearchStep, NEW m, m = Answer!Probes(Array, arg)
  PROVE  /\ pc' = "search" => (m[<<first, last>>] <=> m[<<first', last'>>])
         /\ pc' = "returned" => m[<<first, last>>] /\ ret' = FirstWord[arg]
<1>1. /\ first \in Int /\ last \in Int /\ n \in Nat /\ last < n /\ first >= 0
      /\ first <= last /\ pc = "search" /\ arg \in Nat
  BY CSetAssumption DEF Safe, TypeOK, Interval, SearchStep, Word, InCall
<1>2. Middle \in Int /\ first <= Middle /\ Middle <= last /\ Middle \in 0 .. n - 1
  BY <1>1, MiddleInside DEF Middle
<1>3. PICK q \in Nat : q = storage[Middle] /\ q = Array[Middle + 1]
  <2>1. storage[Middle] \in Objects
    BY <1>2 DEF Safe, TypeOK
  <2>2. Objects \subseteq Nat
    BY CSetAssumption DEF Word
  <2>3. storage[Middle] \in Nat
    BY <2>1, <2>2
  <2> QED
    BY <1>2, <2>3, ArrayType
<1>4. PICK a \in Int, b \in Int, c \in Int : a = first /\ b = last /\ c = Middle
  BY <1>1, <1>2
<1>5. m[<<a, b>>] = ProbeStep(Array, arg, m, <<a, b>>)
  BY ProbesUnfold
<1>6. c = (a + b) \div 2 /\ a <= b
  BY <1>1, <1>4 DEF Middle
<1>7. m[<<a, b>>] <=> \/ q = arg
                      \/ q < arg /\ m[<<c + 1, b>>]
                      \/ q > arg /\ m[<<a, c - 1>>]
  <2>1. q = Array[c + 1]
    BY <1>3, <1>4
  <2> QED
    BY <1>5, <1>6, <2>1 DEF ProbeStep
<1>8. CASE q = arg
  BY <1>1, <1>3, <1>4, <1>7, <1>8 DEF SearchStep, Return
<1>9. CASE q < arg
  <2>1. pc' = "search" /\ first' = c + 1 /\ last' = b
    BY <1>1, <1>3, <1>4, <1>9 DEF SearchStep
  <2>2. m[<<a, b>>] <=> m[<<c + 1, b>>]
    BY <1>1, <1>7, <1>9
  <2> QED
    BY <1>4, <2>1, <2>2
<1>10. CASE q > arg
  <2>1. pc' = "search" /\ first' = a /\ last' = c - 1
    BY <1>1, <1>3, <1>4, <1>10 DEF SearchStep
  <2>2. m[<<a, b>>] <=> m[<<a, c - 1>>]
    BY <1>1, <1>7, <1>10
  <2> QED
    BY <1>4, <2>1, <2>2
<1> QED
  BY <1>1, <1>8, <1>9, <1>10

(***************************************************************************)
(* c_set_member answers, for every heap and every sequence of adds and     *)
(* lookups, what the sort by signed words and the unsigned search of       *)
(* CSetAnswer answer.                                                      *)
(***************************************************************************)
THEOREM LookupAgreesWithAnswer == Spec => []StepsAgreeWithAnswer
<1> DEFINE Inv == Safe /\ Agreeing /\ StepsAgreeWithAnswer
<1>1. Init => Inv
  BY InitSafe DEF Init, Agreeing, StepsAgreeWithAnswer
<1>2. Inv /\ [Next]_vars => Inv'
  <2> SUFFICES ASSUME Safe, Agreeing, StepsAgreeWithAnswer, [Next]_vars
               PROVE  Agreeing' /\ StepsAgreeWithAnswer'
    BY NextSafe
  <2>1. CASE /\ pc' \notin {"scan", "sort", "search", "returned"}
    BY <2>1 DEF Agreeing, StepsAgreeWithAnswer
  <2>2. ASSUME NEW p \in Objects, Member(p) PROVE Agreeing' /\ StepsAgreeWithAnswer'
    <3>1. n \in Nat
      BY CSetAssumption DEF Safe, TypeOK
    <3> QED
      BY <2>2, <3>1 DEF Member, Agreeing, StepsAgreeWithAnswer, set
  <2>3. CASE ScanStep \/ ScanEnds
    <3>1. /\ <<n, storage, arg>>' = <<n, storage, arg>> /\ Array' = Array /\ pc = "scan"
          /\ n < 2 /\ \A i \in 0 .. first - 1 : storage[i] # arg
          /\ n \in Nat /\ first \in Nat /\ arg \in Objects /\ arg # NULL
      BY <2>3, CSetAssumption
         DEF ScanStep, ScanEnds, set, Array, Agreeing, Safe, TypeOK, InCall
    <3>2. Agreeing'
      BY <2>3, <3>1 DEF ScanStep, ScanEnds, Return, Agreeing
    <3>3. pc' = "returned" => ((ret' # NULL) <=> \E i \in 0 .. n - 1 : storage[i] = arg)
      <4>1. CASE ScanStep
        BY <3>1, <4>1 DEF ScanStep, Return
      <4>2. CASE ScanEnds
        BY <3>1, <4>2 DEF ScanEnds, Return
      <4> QED
        BY <2>3, <4>1, <4>2
    <3>4. Answer!Answers(Array, arg) <=> \E i \in 0 .. n - 1 : storage[i] = arg
      BY <3>1, AnswerOfScan
    <3>5. ~ (n' >= 2)
      BY <3>1
    <3>6. Answer!Answers(Array, arg)' <=> Answer!Answers(Array, arg)
      BY <3>1
    <3> QED
      BY <3>2, <3>3, <3>4, <3>5, <3>6 DEF StepsAgreeWithAnswer
  <2>4. CASE Sort
    BY <2>4 DEF Sort, Agreeing, StepsAgreeWithAnswer
  <2>5. CASE SearchStep \/ SearchEnds
    <3>1. PICK m : m = Answer!Probes(Array, arg)
      OBVIOUS
    <3>2. /\ <<n, arg>>' = <<n, arg>> /\ Array' = Array
          /\ pc = "search" /\ n >= 2 /\ sorted /\ n \in Nat
          /\ m = Answer!Probes(Array, arg)'
          /\ m[<<first, last>>] <=> m[<<0, n - 1>>]
      <4>1. /\ <<n, arg, storage>>' = <<n, arg, storage>> /\ pc = "search"
        BY <2>5 DEF SearchStep, SearchEnds, set
      <4>2. Array' = Array
        BY <4>1 DEF Array
      <4>3. sorted /\ n \in Nat
        BY <4>1, CSetAssumption DEF Safe, TypeOK, Interval
      <4>4. n >= 2 /\ (m[<<first, last>>] <=> m[<<0, n - 1>>])
        BY <3>1, <4>1 DEF Agreeing
      <4> QED
        BY <3>1, <4>1, <4>2, <4>3, <4>4
    <3>3. Answer!Answers(Array, arg) <=> m[<<0, n - 1>>]
      BY <3>1, <3>2, AnswerOfSearch
    <3>4. Answer!Answers(Array, arg)' <=> Answer!Answers(Array, arg)
      BY <3>2
    <3>5. CASE SearchStep
      <4>1. /\ pc' = "search" => (m[<<first, last>>] <=> m[<<first', last'>>])
            /\ pc' = "returned" => m[<<first, last>>] /\ ret' = FirstWord[arg]
            /\ pc' \in {"search", "returned"}
        BY <3>1, <3>5, SearchStepAgrees DEF SearchStep, Return
      <4>2. Agreeing'
        BY <3>2, <4>1 DEF Agreeing
      <4>3. StepsAgreeWithAnswer'
        BY <3>2, <3>3, <3>4, <4>1 DEF StepsAgreeWithAnswer
      <4> QED
        BY <4>2, <4>3
    <3>6. CASE SearchEnds
      <4>1. PICK a \in Int, b \in Int : a = first /\ b = last /\ a > b
        BY <3>6, CSetAssumption DEF SearchEnds, Safe, TypeOK
      <4>2. ~ m[<<a, b>>]
        <5>1. Answer!Probes(Array, arg)[<<a, b>>]
                = ProbeStep(Array, arg, Answer!Probes(Array, arg), <<a, b>>)
          BY ProbesUnfold
        <5> QED
          BY <3>1, <4>1, <5>1 DEF ProbeStep
      <4>3. pc' = "returned" /\ ret' = NULL
        BY <3>6 DEF SearchEnds, Return
      <4>4. Agreeing'
        BY <4>3 DEF Agreeing
      <4>5. StepsAgreeWithAnswer'
        BY <3>2, <3>3, <3>4, <4>1, <4>2, <4>3 DEF StepsAgreeWithAnswer
      <4> QED
        BY <4>4, <4>5
    <3> QED
      BY <2>5, <3>5, <3>6
  <2>6. CASE UNCHANGED vars
    BY <2>6 DEF vars, Agreeing, StepsAgreeWithAnswer, Array
  <2> QED
    BY <2>1, <2>2, <2>3, <2>4, <2>5, <2>6
       DEF Next, Lookup, Add, AddAborts, Done, InitAgain
<1>3. Inv => StepsAgreeWithAnswer
  OBVIOUS
<1> QED
  BY <1>1, <1>2, <1>3, PTL DEF Spec
===============================================================================
