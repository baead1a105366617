------------------------------ MODULE CSetAnswer ------------------------------
(***************************************************************************)
(* The answer of c_set_member as a function of the addresses added so far, *)
(* for the modules whose programs use a c_set and do not look inside it.   *)
(* CSet steps through the same code one comparison at a time; the run      *)
(* cset_mixed compares the two in every state.                             *)
(***************************************************************************)
EXTENDS Integers, Sequences, FiniteSets, Functions

CONSTANT Half     \* half the number of machine words

SignedWord(p) == IF p < Half THEN p ELSE p - 2 * Half

(***************************************************************************)
(* mulle_qsort_r with _pointer_compare.  The k-th word of the sorted array *)
(* is the one that fewer than k words sort before and at least k words do  *)
(* not sort after.                                                         *)
(***************************************************************************)
Before(added, w) == {i \in DOMAIN added : SignedWord(added[i]) < SignedWord(w)}
UpTo(added, w)   == {i \in DOMAIN added : SignedWord(added[i]) <= SignedWord(w)}

SortedAsSigned(added) ==
  [k \in DOMAIN added |->
     CHOOSE w \in Range(added) : /\ Cardinality(Before(added, w)) < k
                                 /\ k <= Cardinality(UpTo(added, w))]

(***************************************************************************)
(* voidptr_bsearch: is there a pointer among t[lo + 1], ..., t[hi + 1] that*)
(* the search for p, which compares unsigned words, comes across?          *)
(***************************************************************************)
Probes(t, p) ==
  LET meets[r \in Int \X Int] ==      \* r = <<lo, hi>>
        LET middle == (r[1] + r[2]) \div 2
            q      == t[middle + 1]
        IN  /\ r[1] <= r[2]
            /\ \/ q = p
               \/ q < p /\ meets[<<middle + 1, r[2]>>]
               \/ q > p /\ meets[<<r[1], middle - 1>>]
  IN  meets

Meets(t, p) == Probes(t, p)[<<0, Len(t) - 1>>]

(***************************************************************************)
(* c_set_member( set, p) != NULL, when no object starts with a zero word.  *)
(***************************************************************************)
Answers(added, p) ==
  IF Len(added) < 2
    THEN \E i \in DOMAIN added : added[i] = p
    ELSE \E t \in {SortedAsSigned(added)} : Meets(t, p)
===============================================================================
