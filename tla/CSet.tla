--------------------------------- MODULE CSet ---------------------------------
(***************************************************************************)
(* c_set of c-set.inc, step by step: an array that grows by one slot per   *)
(* add, a linear scan while it holds fewer than two pointers, and a sort   *)
(* followed by a binary search afterwards.                                 *)
(*                                                                         *)
(* The sort compares the pointers as signed words (intptr_t) and the search*)
(* compares them as unsigned words (uintptr_t).  A word has 2 * Half       *)
(* values, so both views fit one natural number.  The search returns the   *)
(* element it met, not its slot, and c_set_member2 dereferences that: the  *)
(* answer is the first word of the object found.                           *)
(***************************************************************************)
EXTENDS Integers, Functions

CONSTANTS Half,        \* half the number of machine words, 2^31 or 2^63
          Objects,     \* the addresses a caller adds and looks up
          FirstWord,   \* the word stored at each of these addresses
          MaxN         \* bound on the number of adds before a c_set_done

Word == 0 .. (2 * Half - 1)
NULL == 0

ASSUME CSetAssumption ==
  /\ Half \in Nat \ {0}
  /\ Objects \subseteq Word \ {NULL}
  /\ FirstWord \in [Objects -> Word]
  /\ MaxN \in Nat

VARIABLES n, storage, sorted,   \* the struct c_set
          pc,                   \* where the caller or the lookup stands
          arg,                  \* the pointer last looked up
          first, last,          \* the search interval; first is also the scan index
          ret                   \* what c_set_member returned last

set  == <<n, storage, sorted>>
call == <<pc, arg, first, last, ret>>
vars == <<n, storage, sorted, pc, arg, first, last, ret>>

Ready   == pc \in {"idle", "returned"}
InCall  == pc \in {"scan", "sort", "search"}
Empty   == [i \in 0 .. -1 |-> NULL]
Stored  == {storage[i] : i \in 0 .. n - 1}

(***************************************************************************)
(* (intptr_t) p.                                                           *)
(***************************************************************************)
Signed(p) == IF p < Half THEN p ELSE p - 2 * Half

\* faulty variant: the operands of _pointer_compare swapped
SortsAfter(a, b) == Signed(a) >= Signed(b)

\* _pointer_compare( a, b) <= 0
SortsBefore(a, b) == Signed(a) <= Signed(b)

Init == /\ n = 0 /\ storage = Empty /\ sorted = FALSE
        /\ pc = "idle" /\ arg = NULL /\ ret = NULL
        /\ first = 0 /\ last = -1

\* faulty variant: an add that leaves the sorted flag up
AddKeepsSorted(p) == /\ Ready /\ n < MaxN
                     /\ storage' = [i \in 0 .. n |-> IF i = n THEN p ELSE storage[i]]
                     /\ n' = n + 1
                     /\ pc' = "idle"
                     /\ UNCHANGED <<sorted, arg, first, last, ret>>

(***************************************************************************)
(* c_set_add.                                                              *)
(***************************************************************************)
Add(p) == /\ Ready /\ n < MaxN
          /\ storage' = [i \in 0 .. n |-> IF i = n THEN p ELSE storage[i]]
          /\ n' = n + 1
          /\ sorted' = FALSE
          /\ pc' = "idle"
          /\ UNCHANGED <<arg, first, last, ret>>

\* realloc returned NULL: abort()
AddAborts == /\ Ready
             /\ pc' = "aborted"
             /\ UNCHANGED <<set, arg, first, last, ret>>

(***************************************************************************)
(* c_set_member: two or more pointers are left to c_set_member2.           *)
(***************************************************************************)
Member(p) == /\ Ready
             /\ arg' = p
             /\ first' = 0
             /\ pc' = IF n >= 2 THEN "sort" ELSE "scan"
             /\ UNCHANGED <<set, last, ret>>

Return(value) == pc' = "returned" /\ ret' = value

ScanStep == /\ pc = "scan" /\ first < n
            /\ \/ storage[first] = arg /\ Return(arg) /\ UNCHANGED first
               \/ storage[first] # arg /\ first' = first + 1 /\ UNCHANGED <<pc, ret>>
            /\ UNCHANGED <<set, arg, last>>

ScanEnds == /\ pc = "scan" /\ first >= n
            /\ Return(NULL)
            /\ UNCHANGED <<set, arg, first, last>>

(***************************************************************************)
(* c_set_member2: mulle_qsort_r unless sorted, then voidptr_bsearch.       *)
(***************************************************************************)
InOrder(s) == \A i, j \in DOMAIN s : i < j => SortsBefore(s[i], s[j])

\* faulty variant: the interval to search reaches one slot too far
SortUpToN == /\ pc = "sort"
             /\ \E f \in Bijection(0 .. n - 1, 0 .. n - 1) :
                  LET t == [i \in 0 .. n - 1 |-> storage[f[i]]]
                  IN  InOrder(t) /\ storage' = t
             /\ sorted' = TRUE
             /\ first' = 0 /\ last' = n
             /\ pc' = "search"
             /\ UNCHANGED <<n, arg, ret>>

Sort == /\ pc = "sort"
        /\ IF sorted
             THEN UNCHANGED storage
             ELSE \E f \in Bijection(0 .. n - 1, 0 .. n - 1) :
                    LET t == [i \in 0 .. n - 1 |-> storage[f[i]]]
                    IN  InOrder(t) /\ storage' = t
        /\ sorted' = TRUE
        /\ first' = 0 /\ last' = n - 1
        /\ pc' = "search"
        /\ UNCHANGED <<n, arg, ret>>

Middle == (first + last) \div 2

\* faulty variant: the lower half is left with the middle still in it
SearchStepKeepsMiddle ==
  /\ pc = "search" /\ first <= last
  /\ LET p == storage[Middle]
     IN  \/ p = arg /\ Return(FirstWord[p]) /\ UNCHANGED <<first, last>>
         \/ p < arg /\ first' = Middle /\ UNCHANGED <<pc, last, ret>>
         \/ p > arg /\ last' = Middle - 1 /\ UNCHANGED <<pc, first, ret>>
  /\ UNCHANGED <<set, arg>>

\* one turn of the loop; the comparisons are between uintptr_t
SearchStep == /\ pc = "search" /\ first <= last
              /\ LET p == storage[Middle]
                 IN  \/ p = arg /\ Return(FirstWord[p]) /\ UNCHANGED <<first, last>>
                     \/ p < arg /\ first' = Middle + 1 /\ UNCHANGED <<pc, last, ret>>
                     \/ p > arg /\ last' = Middle - 1 /\ UNCHANGED <<pc, first, ret>>
              /\ UNCHANGED <<set, arg>>

\* faulty variant: the nearest element instead of NULL
SearchEndsNearest == /\ pc = "search" /\ first > last
                     /\ Return(FirstWord[storage[IF last < 0 THEN 0 ELSE last]])
                     /\ UNCHANGED <<set, arg, first, last>>

SearchEnds == /\ pc = "search" /\ first > last
              /\ Return(NULL)
              /\ UNCHANGED <<set, arg, first, last>>

(***************************************************************************)
(* c_set_done frees the array and leaves the struct as it is; the next dump*)
(* initialises a new one.                                                  *)
(***************************************************************************)
Done == /\ Ready
        /\ pc' = "done"
        /\ UNCHANGED <<set, arg, first, last, ret>>

\* faulty variant: the struct of the last dump used again without c_set_init
NoInitAgain == /\ pc = "done"
               /\ pc' = "idle"
               /\ UNCHANGED <<set, arg, first, last, ret>>

InitAgain == /\ pc = "done"
             /\ n' = 0 /\ storage' = Empty /\ sorted' = FALSE
             /\ pc' = "idle"
             /\ UNCHANGED <<arg, first, last, ret>>

Lookup == ScanStep \/ ScanEnds \/ Sort \/ SearchStep \/ SearchEnds

Next == \/ \E p \in Objects : Add(p) \/ Member(p)
        \/ AddAborts
        \/ Lookup
        \/ Done
        \/ InitAgain

Spec == Init /\ [][Next]_vars

\* a lookup runs on one thread, to its end, before the caller goes on
FairSpec == Spec /\ WF_vars(Lookup)

-------------------------------------------------------------------------------
TypeOK == /\ n \in 0 .. MaxN
          /\ storage \in [0 .. n - 1 -> Objects]
          /\ sorted \in BOOLEAN
          /\ pc \in {"idle", "scan", "sort", "search", "returned", "done", "aborted"}
          /\ arg \in Objects \union {NULL}
          /\ (InCall => arg \in Objects)
          /\ first \in 0 .. MaxN
          /\ last \in -1 .. MaxN - 1
          /\ ret \in Word

(***************************************************************************)
(* c_set_member answers non-NULL exactly for the pointers that were added. *)
(* It takes the sort order, the search order and the word behind the       *)
(* pointer to agree: three places of c-set.inc.                            *)
(***************************************************************************)
MemberCorrect == pc = "returned" => ((ret # NULL) <=> (arg \in Stored))

(***************************************************************************)
(* Whatever the order of the array and whatever the first words are, a     *)
(* pointer is never taken for a member that was not added: a dump may show *)
(* an object twice, but it never leaves one out.                           *)
(***************************************************************************)
NoFalseMember == pc = "returned" /\ ret # NULL => arg \in Stored

(***************************************************************************)
(* voidptr_bsearch and the scan read only slots that c_set_add has filled, *)
(* whatever the interval arithmetic did before (no read past realloc'd     *)
(* memory, even on an array sorted in the other order).                    *)
(***************************************************************************)
ProbeInBounds == /\ (pc = "search" /\ first <= last => Middle \in 0 .. n - 1)
                 /\ (pc = "scan" => first <= n)

(***************************************************************************)
(* Whenever the sorted flag is up the array is in the order of             *)
(* _pointer_compare: an add after a lookup must take the flag down again.  *)
(***************************************************************************)
SortedMeansInOrder == sorted => InOrder(storage)

(***************************************************************************)
(* The lookup answers what CSetAnswer says it answers, member or not, in   *)
(* every heap: the sort by signed words loses exactly the pointers that the*)
(* unsigned probes of CSetAnswer lose, and the dereference loses the object*)
(* that starts with zero (c-set.inc:133).                                  *)
(***************************************************************************)
Answer == INSTANCE CSetAnswer
Array  == [i \in 1 .. n |-> storage[i - 1]]

StepsAgreeWithAnswer ==
  pc = "returned" => ((ret # NULL) <=> /\ Answer!Answers(Array, arg)
                                       /\ n >= 2 => FirstWord[arg] # NULL)

(***************************************************************************)
(* Each turn of the loop of voidptr_bsearch at least halves the slots left *)
(* to look at, so that a lookup among n pointers compares at most          *)
(* log2( n) + 1 of them; a turn that keeps the middle would go on for ever *)
(* on two slots.                                                           *)
(***************************************************************************)
LookupHalves == [][pc = "search" /\ pc' = "search"
                     => 2 * (last' - first' + 1) <= last - first + 1]_vars

(***************************************************************************)
(* c_set as a set of addresses.                                            *)
(***************************************************************************)
Abstract == INSTANCE PointerSet WITH
              members <- IF pc = "done" THEN {} ELSE Stored,
              asked   <- IF InCall THEN arg ELSE NULL,
              answer  <- (ret # NULL)

ImplementsSet == Abstract!FairSpec

(***************************************************************************)
(* The two facts about the memory of a dump under which c_set is a set: no *)
(* two addresses lie on different sides of the sign bit, and no object     *)
(* starts with a zero word.                                                *)
(***************************************************************************)
OneHalf       == \A p, q \in Objects : (p < Half) <=> (q < Half)
NonzeroFirst  == \A p \in Objects : FirstWord[p] # NULL
===============================================================================
