------------------------------ MODULE MCHtmlDump ------------------------------
(***************************************************************************)
(* Three class pairs, two of them mixins that may adopt each other, every  *)
(* dump of every runtime over them; one name has markup in it.             *)
(***************************************************************************)
EXTENDS HtmlDump

CONSTANT Half      \* half the number of machine words

Set == INSTANCE CSetAnswer

\* the parts of a pair lie next to each other
Offset    == [pair |-> 0, infra |-> 1, meta |-> 2]
Position  == [A |-> 1, M |-> 4, N |-> 7, index |-> 7]
Address(p) == IF p = Universe THEN 10 ELSE Position[p[1]] + Offset[p[2]]

Found(added, p) ==
  \E words \in {[i \in DOMAIN added |-> Address(added[i])]} : Set!Answers(words, Address(p))
===============================================================================
