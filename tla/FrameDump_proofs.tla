---------------------------- MODULE FrameDump_proofs ----------------------------
(***************************************************************************)
(* Proofs about FrameDump, for every number of threads, every width of int *)
(* and every setting of MULLE_OBJC_DOTDUMP_MAX.                            *)
(***************************************************************************)
EXTENDS FrameDump, TLAPS

\* Words that differ give numbers that differ: the cast to int loses nothing.
LEMMA CastInjective ==
  ASSUME NEW v \in 0 .. 2 * IntHalf - 1, NEW w \in 0 .. 2 * IntHalf - 1, v # w
  PROVE  ToInt(v) # ToInt(w) /\ ToInt(v) \in -IntHalf .. (IntHalf - 1)
BY FrameDumpAssumption DEF ToInt

\* The increment of the counter, with its wrap.
LEMMA Increment ==
  ASSUME NEW w \in 0 .. 2 * IntHalf - 1
  PROVE  /\ (w + 1) % (2 * IntHalf) \in 0 .. 2 * IntHalf - 1
         /\ w + 1 < 2 * IntHalf => (w + 1) % (2 * IntHalf) = w + 1
BY FrameDumpAssumption

-------------------------------------------------------------------------------
\* The types hold in every reachable state of the frame dump.
THEOREM FrameTypes == Spec => []TypeOK
<1>1. Init => TypeOK
  BY FrameDumpAssumption DEF Init, TypeOK
<1>2. TypeOK /\ [Next]_vars => TypeOK'
  <2> SUFFICES ASSUME TypeOK, [Next]_vars PROVE TypeOK'
    OBVIOUS
  <2> USE FrameDumpAssumption DEF TypeOK
  <2>1. ASSUME NEW t \in Threads, TakeNumber(t) PROVE TypeOK'
    <3>1. counter' \in 0 .. 2 * IntHalf - 1
      BY <2>1, Increment DEF TakeNumber
    <3>2. ToInt(counter) \in -IntHalf .. (IntHalf - 1)
      BY DEF ToInt
    <3>3. nr' \in [Threads -> -IntHalf .. (IntHalf - 1)]
      BY <2>1, <3>2 DEF TakeNumber
    <3> QED BY <2>1, <3>1, <3>3 DEF TakeNumber
  <2>2. ASSUME NEW t \in Threads, Skip(t) PROVE TypeOK'
    BY <2>2 DEF Skip
  <2>3. ASSUME NEW t \in Threads, Open(t) PROVE TypeOK'
    <3>1. File(t) \in [in : {Cwd, Directory}, nr : -IntHalf .. (IntHalf - 1), by : Threads]
      BY DEF File
    <3> QED BY <2>3, <3>1 DEF Open
  <2>4. ASSUME NEW t \in Threads, OpenFails(t) PROVE TypeOK'
    BY <2>4 DEF OpenFails
  <2>5. ASSUME NEW t \in Threads, Close(t) PROVE TypeOK'
    BY <2>5 DEF Close
  <2>6. CASE UNCHANGED vars
    BY <2>6 DEF vars
  <2> QED BY <2>1, <2>2, <2>3, <2>4, <2>5, <2>6 DEF Next
<1> QED BY <1>1, <1>2, PTL DEF Spec

-------------------------------------------------------------------------------
(***************************************************************************)
(* Until the counter has gone round it is the number of calls, every       *)
(* number that is in use or on a file was cast from a word below it, and a *)
(* thread that has a number and no file yet shares the number with no file *)
(* and with no other such thread.                                          *)
(***************************************************************************)
CounterIsCalls == calls < 2 * IntHalf => counter = calls

Taken(n) == \E w \in 0 .. calls - 1 : n = ToInt(w)

NumbersTaken ==
  calls <= 2 * IntHalf =>
    /\ \A t \in Threads : pc[t] # "idle" => Taken(nr[t])
    /\ \A f \in files : Taken(f.nr)

NumbersOwned ==
  calls <= 2 * IntHalf =>
    \A t \in Threads : pc[t] = "numbered" =>
      /\ \A f \in files : f.nr # nr[t]
      /\ \A u \in Threads \ {t} : pc[u] = "numbered" => nr[u] # nr[t]

Ownership == TypeOK /\ CounterIsCalls /\ NumbersTaken /\ NumbersOwned

\* A number the counter gives before it has gone round is new.
LEMMA NewNumber ==
  ASSUME calls \in Nat, calls < 2 * IntHalf, counter = calls, NEW n, Taken(n)
  PROVE  n # ToInt(counter)
<1>1. PICK w \in 0 .. calls - 1 : n = ToInt(w)
  BY DEF Taken
<1>2. w \in 0 .. 2 * IntHalf - 1 /\ counter \in 0 .. 2 * IntHalf - 1 /\ w # counter
  BY <1>1, FrameDumpAssumption
<1> QED BY <1>1, <1>2, CastInjective

\* The numbers are handed out once, by every step of every thread.
LEMMA OwnershipStep == Ownership /\ TypeOK' /\ [Next]_vars => Ownership'
<1> SUFFICES ASSUME Ownership, TypeOK', [Next]_vars PROVE Ownership'
  OBVIOUS
<1> USE DEF Ownership
<1>1. ASSUME NEW t \in Threads, TakeNumber(t) PROVE Ownership'
  <2> USE FrameDumpAssumption DEF TypeOK
  <2>0. calls' = calls + 1 /\ files' = files /\ counter' = (counter + 1) % (2 * IntHalf)
    BY <1>1 DEF TakeNumber
  <2>1. nr' = [nr EXCEPT ![t] = ToInt(counter)] /\ pc' = [pc EXCEPT ![t] = "numbered"]
        /\ pc[t] = "idle"
    BY <1>1 DEF TakeNumber
  <2>2. CounterIsCalls'
    BY <2>0, Increment DEF CounterIsCalls
  <2>3. SUFFICES ASSUME calls' <= 2 * IntHalf PROVE NumbersTaken' /\ NumbersOwned'
    BY <2>2 DEF NumbersTaken, NumbersOwned
  <2>4. calls < 2 * IntHalf /\ counter = calls
    BY <2>0, <2>3 DEF CounterIsCalls
  <2>5. ASSUME NEW n, Taken(n) PROVE Taken(n)'
    <3>1. PICK w \in 0 .. calls - 1 : n = ToInt(w)
      BY <2>5 DEF Taken
    <3>2. w \in 0 .. calls' - 1 /\ n = ToInt(w)'
      BY <2>0, <3>1 DEF ToInt
    <3> QED BY <3>2 DEF Taken
  <2>6. Taken(nr[t])'
    BY <2>0, <2>1, <2>4 DEF Taken, ToInt
  <2>7. \A f \in files : Taken(f.nr) /\ f.nr # ToInt(counter)
    BY <2>4, NewNumber DEF NumbersTaken
  <2>8. \A u \in Threads : pc[u] # "idle" => Taken(nr[u]) /\ nr[u] # ToInt(counter)
    BY <2>4, NewNumber DEF NumbersTaken
  <2>9. NumbersTaken'
    BY <2>0, <2>1, <2>5, <2>6, <2>7, <2>8 DEF NumbersTaken
  <2>10. NumbersOwned'
    BY <2>0, <2>1, <2>4, <2>7, <2>8 DEF NumbersOwned
  <2> QED BY <2>9, <2>10
<1>2. ASSUME NEW t \in Threads, Skip(t) PROVE Ownership'
  BY <1>2 DEF Skip, TypeOK, CounterIsCalls, NumbersTaken, NumbersOwned, Taken, ToInt
<1>3. ASSUME NEW t \in Threads, Open(t) PROVE Ownership'
  <2>1. /\ files' \subseteq files \union {File(t)} /\ pc' = [pc EXCEPT ![t] = "writing"]
        /\ calls' = calls /\ counter' = counter /\ nr' = nr /\ pc[t] = "numbered"
    BY <1>3 DEF Open
  <2>2. \A n : Taken(n)' <=> Taken(n)
    BY <2>1 DEF Taken, ToInt
  <2>3. NumbersTaken'
    BY <2>1, <2>2 DEF NumbersTaken, File, TypeOK
  <2>4. NumbersOwned'
    BY <2>1 DEF NumbersOwned, File, TypeOK
  <2> QED BY <2>1, <2>3, <2>4 DEF CounterIsCalls
<1>4. ASSUME NEW t \in Threads, OpenFails(t) PROVE Ownership'
  BY <1>4 DEF OpenFails, TypeOK, CounterIsCalls, NumbersTaken, NumbersOwned, Taken, ToInt
<1>5. ASSUME NEW t \in Threads, Close(t) PROVE Ownership'
  BY <1>5 DEF Close, TypeOK, CounterIsCalls, NumbersTaken, NumbersOwned, Taken, ToInt
<1>6. CASE UNCHANGED vars
  BY <1>6 DEF vars, CounterIsCalls, NumbersTaken, NumbersOwned, Taken, ToInt
<1> QED BY <1>1, <1>2, <1>3, <1>4, <1>5, <1>6 DEF Next

LEMMA OwnershipInvariant == Spec => []Ownership
<1>1. Init => CounterIsCalls /\ NumbersTaken /\ NumbersOwned
  BY FrameDumpAssumption DEF Init, CounterIsCalls, NumbersTaken, NumbersOwned
<1> QED BY <1>1, OwnershipStep, FrameTypes, PTL DEF Spec, Ownership

(***************************************************************************)
(* No frame overwrites another one before the counter has gone round: of   *)
(* the actions only Open takes files away, those with its own number.      *)
(***************************************************************************)
THEOREM FramesStay == Spec => NeverOverwritten
<1>1. Ownership /\ [Next]_vars => [calls <= 2 * IntHalf => files \subseteq files']_vars
  <2> SUFFICES ASSUME Ownership, [Next]_vars, calls <= 2 * IntHalf
               PROVE  files \subseteq files'
    OBVIOUS
  <2>1. ASSUME NEW t \in Threads, Open(t) PROVE files \subseteq files'
    BY <2>1 DEF Open, Ownership, NumbersOwned
  <2>2. ASSUME NEW t \in Threads, TakeNumber(t) \/ Skip(t) \/ OpenFails(t) \/ Close(t)
        PROVE  files' = files
    BY <2>2 DEF TakeNumber, Skip, OpenFails, Close
  <2> QED BY <2>1, <2>2 DEF Next, vars
<1> QED BY <1>1, OwnershipInvariant, PTL DEF Spec, NeverOverwritten

-------------------------------------------------------------------------------
(***************************************************************************)
(* As long as the numbers are not negative: those that have a file, failed *)
(* to get one, or belong to a thread that is about to open one, are the    *)
(* first ones that MULLE_OBJC_DOTDUMP_MAX lets through.                    *)
(***************************************************************************)
Opening(n)   == \E t \in Threads : pc[t] = "numbered" /\ ~ OverMax(t) /\ nr[t] = n
LetThrough   == {n \in 0 .. calls - 1 : max # 0 => n < max}
FilmSoFar    == calls <= IntHalf => \A n : n \in Numbers \/ Opening(n) <=> n \in LetThrough
Film         == TypeOK /\ CounterIsCalls /\ FilmSoFar

\* A thread that gets a number adds one to both sides, unless it is over the maximum.
LEMMA FilmTakeNumber ==
  ASSUME Film, NEW t \in Threads, TakeNumber(t), calls' <= IntHalf, NEW n
  PROVE  (n \in Numbers \/ Opening(n) <=> n \in LetThrough)'
<1> USE FrameDumpAssumption DEF Film, TypeOK
<1>1. /\ pc[t] = "idle" /\ pc' = [pc EXCEPT ![t] = "numbered"]
      /\ nr' = [nr EXCEPT ![t] = ToInt(counter)]
      /\ calls' = calls + 1 /\ max' = max /\ files' = files /\ skipped' = skipped
  BY DEF TakeNumber
<1>2. calls < IntHalf /\ ToInt(counter) = calls
  BY <1>1 DEF CounterIsCalls, ToInt
<1>3. n \in Numbers \/ Opening(n) <=> n \in LetThrough
  BY <1>2 DEF FilmSoFar
<1>4. Numbers' = Numbers
  BY <1>1 DEF Numbers
<1>5. Opening(n)' <=> Opening(n) \/ (n = calls /\ (max # 0 => calls < max))
  <2>1. ASSUME Opening(n)' PROVE Opening(n) \/ (n = calls /\ (max # 0 => calls < max))
    <3>1. PICK u \in Threads : pc'[u] = "numbered" /\ ~ (max # 0 /\ nr'[u] >= max) /\ nr'[u] = n
      BY <1>1, <2>1 DEF Opening, OverMax
    <3>2. CASE u = t
      BY <1>1, <1>2, <3>1, <3>2
    <3>3. CASE u # t
      BY <1>1, <3>1, <3>3 DEF Opening, OverMax
    <3> QED BY <3>2, <3>3
  <2>2. ASSUME Opening(n) PROVE Opening(n)'
    BY <1>1, <2>2 DEF Opening, OverMax
  <2>3. ASSUME n = calls, max # 0 => calls < max PROVE Opening(n)'
    BY <1>1, <1>2, <2>3 DEF Opening, OverMax
  <2> QED BY <2>1, <2>2, <2>3
<1>6. n \in LetThrough' <=> n \in LetThrough \/ (n = calls /\ (max # 0 => calls < max))
  BY <1>1 DEF LetThrough
<1> QED BY <1>3, <1>4, <1>5, <1>6

\* A thread that opens its file, or fails to, moves its number from one set to the other.
LEMMA FilmOpen ==
  ASSUME Film, NEW t \in Threads, Open(t) \/ OpenFails(t), NEW n
  PROVE  (n \in Numbers \/ Opening(n))' <=> n \in Numbers \/ Opening(n)
<1> USE DEF Film, TypeOK
<1>1. /\ pc[t] = "numbered" /\ ~ OverMax(t) /\ nr' = nr /\ max' = max
      /\ pc'[t] # "numbered" /\ \A u \in Threads \ {t} : pc'[u] = pc[u]
  BY DEF Open, OpenFails
<1>2. n \in Numbers' <=> n \in Numbers \/ n = nr[t]
  <2>1. CASE Open(t)
    <3>1. files' = {f \in files : f.nr # nr[t]} \union {File(t)} /\ skipped' = skipped
      BY <2>1 DEF Open
    <3>2. File(t).nr = nr[t]
      BY DEF File
    <3>3. n \in {f.nr : f \in files'} <=> n \in {f.nr : f \in files} \/ n = nr[t]
      BY <3>1, <3>2
    <3> QED BY <3>1, <3>3 DEF Numbers
  <2>2. CASE OpenFails(t)
    BY <2>2 DEF OpenFails, Numbers
  <2> QED BY <2>1, <2>2
<1>3. Opening(n)' => Opening(n)
  BY <1>1 DEF Opening, OverMax
<1>4. Opening(n) => Opening(n)' \/ n = nr[t]
  BY <1>1 DEF Opening, OverMax
<1>5. Opening(nr[t])
  BY <1>1 DEF Opening
<1> QED BY <1>2, <1>3, <1>4, <1>5

LEMMA FilmStep == Film /\ TypeOK' /\ CounterIsCalls' /\ [Next]_vars => FilmSoFar'
<1> SUFFICES ASSUME Film, TypeOK', [Next]_vars PROVE FilmSoFar'
  OBVIOUS
<1> USE DEF Film, TypeOK
<1>1. ASSUME NEW t \in Threads, TakeNumber(t) PROVE FilmSoFar'
  BY <1>1, FilmTakeNumber DEF FilmSoFar
<1>2. ASSUME NEW t \in Threads, Open(t) \/ OpenFails(t) PROVE FilmSoFar'
  <2>1. calls' = calls /\ LetThrough' = LetThrough
    BY <1>2 DEF Open, OpenFails, LetThrough
  <2> QED BY <1>2, <2>1, FilmOpen DEF FilmSoFar
<1>3. ASSUME NEW t \in Threads, Skip(t) \/ Close(t) PROVE FilmSoFar'
  <2>1. /\ calls' = calls /\ max' = max /\ files' = files /\ skipped' = skipped /\ nr' = nr
        /\ pc[t] # "numbered" \/ OverMax(t)
        /\ pc'[t] # "numbered" /\ \A u \in Threads \ {t} : pc'[u] = pc[u]
    BY <1>3 DEF Skip, Close
  <2>2. \A n : Opening(n)' <=> Opening(n)
    BY <2>1 DEF Opening, OverMax
  <2> QED BY <2>1, <2>2 DEF FilmSoFar, Numbers, LetThrough
<1>4. CASE UNCHANGED vars
  BY <1>4 DEF vars, FilmSoFar, Numbers, LetThrough, Opening, OverMax
<1> QED BY <1>1, <1>2, <1>3, <1>4 DEF Next

\* When no thread is between its number and its file, the film has no holes.
THEOREM FilmComplete == Spec => []FilmHasNoHoles
<1>1. Init => FilmSoFar
  BY DEF Init, FilmSoFar, Numbers, LetThrough, Opening
<1>2. Film => FilmHasNoHoles
  <2> SUFFICES ASSUME Film, calls <= IntHalf, \A t \in Threads : pc[t] = "idle"
               PROVE  Numbers = LetThrough
    BY DEF FilmHasNoHoles, LetThrough
  <2> QED BY DEF Film, FilmSoFar, Opening
<1>3. Ownership => CounterIsCalls
  BY DEF Ownership
<1> QED BY <1>1, <1>2, <1>3, FilmStep, OwnershipInvariant, FrameTypes, PTL DEF Spec, Film
===============================================================================
