------------------------------ MODULE PointerSet ------------------------------
(***************************************************************************)
(* What the dumpers expect of c_set: a set of addresses that one caller    *)
(* adds to and asks about.  The comment on c-set.inc:44 calls c_set "an    *)
(* older version of mulle__pointerset", and every caller (dotdump_callback,*)
(* _mulle_buffer_dot_mixins, _mulle_buffer_dot_hierarchy and htmldump's    *)
(* callback) only looks at whether the answer is NULL.                     *)
(***************************************************************************)
EXTENDS Naturals

CONSTANT Objects     \* the addresses of the objects a dump can meet

VARIABLES members,   \* the addresses added since the set was initialised
          asked,     \* the address being looked up, or NULL
          answer     \* the last answer: was the address a member?

vars == <<members, asked, answer>>

NULL == 0

Init == /\ members = {}
        /\ asked = NULL
        /\ answer = FALSE

Add(p) == /\ asked = NULL
          /\ members' = members \union {p}
          /\ UNCHANGED <<asked, answer>>

Ask(p) == /\ asked = NULL
          /\ asked' = p
          /\ UNCHANGED <<members, answer>>

Reply == /\ asked # NULL
         /\ answer' = (asked \in members)
         /\ asked' = NULL
         /\ UNCHANGED members

Clear == /\ asked = NULL
         /\ members' = {}
         /\ UNCHANGED <<asked, answer>>

Next == \/ \E p \in Objects : Add(p) \/ Ask(p)
        \/ Reply
        \/ Clear

Spec == Init /\ [][Next]_vars

FairSpec == Spec /\ WF_vars(Reply)
===============================================================================
