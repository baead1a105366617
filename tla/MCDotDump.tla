------------------------------- MODULE MCDotDump ------------------------------
(***************************************************************************)
(* Three class pairs, two of them mixins that may adopt each other and may *)
(* be the superclass of the third: every runtime over them, every dump,    *)
(* with the options callers pass and some that leave things out.           *)
(***************************************************************************)
EXTENDS DotDump

CONSTANT Half      \* half the number of machine words

Set == INSTANCE CSetAnswer

\* the parts of a pair lie next to each other
Offset    == [pair |-> 0, infra |-> 1, meta |-> 2]
Position  == [A |-> 1, M |-> 4, N |-> 7]
Address(p) == IF p = Universe THEN 10 ELSE Position[p[1]] + Offset[p[2]]

Found(added, p) ==
  \E words \in {[i \in DOMAIN added |-> Address(added[i])]} : Set!Answers(words, Address(p))

AllTables == {"methodlist", "ivarlist", "protocolids", "descriptortable",
              "staticinstances", "classes", "categoriestoload"}

Arguments == {{}, SHOW_ALL \union HYPERLINK, SHOW_DEFAULT,
              {"INFRACLASS", "MIXINS", "METACLASS", "MIXIN_HYPERLINK", "SUPERCLASS"},
              {"INFRACLASS", "MIXINS", "SUPERCLASS", "CLASS_HYPERLINK"},
              {"METACLASS", "SUPERCLASS", "CLASSPAIR"},
              {"METACLASS", "MIXINS"}}
===============================================================================
