---------------------------- MODULE MCDebugSession ----------------------------
(***************************************************************************)
(* A root class, a mixin whose name has markup in it, a subclass with the  *)
(* mixin, and below it a class with the name of the overview's file.  The  *)
(* values of errno are all alike to this code.                             *)
(***************************************************************************)
EXTENDS DebugSession, TLC

SuperOf   == [c \in Classes |-> CASE c = "B" -> "A" [] c = "overview" -> "B" [] OTHER -> None]
MixinsOf  == [c \in Classes |-> IF c = "B" THEN {"M"} ELSE {}]
MethodsOf == [c \in Classes |-> IF c \in {"A", "B"} THEN MethodIds ELSE {}]

ErrnosAlike == Permutations(Errnos)
===============================================================================
