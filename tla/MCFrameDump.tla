----------------------------- MODULE MCFrameDump ------------------------------
(***************************************************************************)
(* Three threads; ints of three bits, so that the fifth call gets a        *)
(* negative number and the ninth the number of the first.                  *)
(***************************************************************************)
EXTENDS FrameDump, TLC

Settings == {-1, 0, 2, 3}
AnyThread == Permutations(Threads)
===============================================================================
