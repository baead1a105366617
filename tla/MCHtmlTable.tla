----------------------------- MODULE MCHtmlTable -----------------------------
(***************************************************************************)
(* Every renderer, for every table the dumps make, over lists of up to     *)
(* three of the names a, a:, ab, b< and b&: one that continues another with*)
(* a character below '<', one above, and two that are escaped to the same  *)
(* text.                                                                   *)
(***************************************************************************)
EXTENDS HtmlTable

SomeNames == {<<97>>, <<97, 58>>, <<97, 98>>, <<98, 60>>, <<98, 38>>}
==============================================================================
