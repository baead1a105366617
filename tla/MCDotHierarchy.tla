---------------------------- MODULE MCDotHierarchy ----------------------------
(***************************************************************************)
(* Four class pairs, two of them mixins that may adopt each other: every   *)
(* hierarchy over them, dumped from every class and every metaclass.       *)
(* Classes get addresses, and c_set answers on these as the code does.     *)
(***************************************************************************)
EXTENDS DotHierarchy

CONSTANTS Half,       \* half the number of machine words
          AddressOf   \* of each class

Set == INSTANCE CSetAnswer

Found(added, c) ==
  \E words \in {[i \in DOMAIN added |-> AddressOf[added[i]]]} :
    Set!Answers(words, AddressOf[c])

\* the classes of a pair lie next to each other; A to D are loaded in this order
Position == [A |-> 0, B |-> 1, M |-> 2, N |-> 3]
Packed == [c \in Class |-> 2 * Position[c[1]] + (IF c[2] = "infra" THEN 1 ELSE 2)]
===============================================================================
