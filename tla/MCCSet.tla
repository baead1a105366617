-------------------------------- MODULE MCCSet --------------------------------
(***************************************************************************)
(* Two heaps for c_set.  The low heap lies below the sign bit and every    *)
(* object starts with a nonzero word: c_set is a set there.  The mixed heap*)
(* has objects on both sides of the sign bit, as a 32-bit process has, and *)
(* its lowest object starts with a zero word.                              *)
(***************************************************************************)
EXTENDS CSet

NonzeroWords == [p \in Objects |-> 1]
OneZeroWord  == [p \in Objects |-> IF \A q \in Objects : p <= q THEN NULL ELSE p]
===============================================================================
