----------------------------- MODULE DotHierarchy -----------------------------
(***************************************************************************)
(* The class hierarchy dump of mulle-objc-dotdump.c:                       *)
(* mulle_objc_classhierarchy_dotdump_to_file and the recursion under it.   *)
(* The recursion of _mulle_buffer_dot_hierarchy over superclasses and      *)
(* mixins is kept as an explicit stack of its activations; the class_set   *)
(* is the sequence of the pointers added to it, and IsMember is what       *)
(* c_set_member answers on it.                                             *)
(*                                                                         *)
(* The classes are those of the runtime, which does not change during a    *)
(* dump: super and mixins are chosen in Init and never change.             *)
(***************************************************************************)
EXTENDS Integers, Sequences, FiniteSets

CONSTANTS Infras,         \* the class pairs, named by their infraclass
          MixinClasses,   \* the root classes that are mixins (protocol classes)
          MaxMixins,      \* bound on the mixins of one class pair
          None,           \* NULL
          IsMember(_, _)  \* IsMember( added, cls): does c_set_member find cls?

\* an infraclass or a metaclass
Class == Infras \X {"infra", "meta"}

MixinLists == UNION {[1 .. k -> MixinClasses] : k \in 0 .. MaxMixins}

ASSUME HierarchyAssumption ==
  /\ MixinClasses \subseteq Infras
  /\ MaxMixins \in Nat
  /\ None \notin Infras /\ None \notin Class

VARIABLES super, mixins,  \* the runtime
          start,          \* the class whose hierarchy is dumped, or None
          pc,             \* the caller: "fopen", "dumping", "closed" or "failed"
          known,          \* the class_set
          stack,          \* the activations of _mulle_buffer_dot_hierarchy
          printed,        \* the classes output, in order
          edges           \* the edges output, in order

runtime == <<super, mixins, start>>
vars == <<super, mixins, start, pc, known, stack, printed, edges>>

IsMeta(c) == c[2] = "meta"

(***************************************************************************)
(* The runtime's class graph.  The superclass of a metaclass is the        *)
(* metaclass of the superclass; a root metaclass inherits from its own     *)
(* infraclass ("wrap around to root infra for meta").                      *)
(***************************************************************************)
Superclass(c) ==
  IF super[c[1]] # None
    THEN <<super[c[1]], c[2]>>
    ELSE IF IsMeta(c) THEN <<c[1], "infra">> ELSE None

\* a class is loaded after its superclass: there is no cycle of superclasses
Loadable(s) == \A C \in SUBSET Infras : C # {} => \E i \in C : s[i] \notin C

NoDuplicates(s) == \A i, j \in DOMAIN s : s[i] = s[j] => i = j

(***************************************************************************)
(* is_meta is copied from activation to activation: it is the kind of the  *)
(* class the dump started with.                                            *)
(***************************************************************************)
DumpsMeta == start # None /\ IsMeta(start)

\* the condition under which the superclass is dumped
FollowsSuper(c) ==
  LET s == Superclass(c)
  IN  /\ s # None
      /\ \/ IsMeta(s) = DumpsMeta
         \/ DumpsMeta /\ Superclass(s) = None /\ c[1] \notin MixinClasses

\* classpair_callback: the i-th mixin of the pair of c, in the dump's kind
MixinOf(c, i) == <<mixins[c[1]][i], IF DumpsMeta THEN "meta" ELSE "infra">>

(***************************************************************************)
(* An activation: its class, how its caller reached it, whether it is about*)
(* to dump the superclass or is walking the mixins, the next mixin, and the*)
(* counter of the print_hierarchy_info its mixins share.                   *)
(***************************************************************************)
Frame == [cls : Class, relationship : {"none", "superclass", "mixin"},
          at : {"super", "mixins"}, next : Nat, counter : Nat]

Edge == [from : Class, to : Class, relationship : {"superclass", "mixin"}, nr : Int]

Top  == stack[Len(stack)]
Rest == SubSeq(stack, 1, Len(stack) - 1)

NewFrame(c, relationship) == [cls |-> c, relationship |-> relationship,
                              at |-> "super", next |-> 1, counter |-> 1]

\* faulty variants: the set is not asked; NULL is not checked
CallUnasked(frames, c, relationship) ==
  IF c = None THEN stack' = frames /\ UNCHANGED known
  ELSE known' = Append(known, c) /\ stack' = Append(frames, NewFrame(c, relationship))
CallWithNull(frames, c, relationship) ==
  IF IsMember(known, c) THEN stack' = frames /\ UNCHANGED known
  ELSE known' = Append(known, c) /\ stack' = Append(frames, NewFrame(c, relationship))

(***************************************************************************)
(* _mulle_buffer_dot_hierarchy( buffer, c, ..) up to its first dump of     *)
(* another class, called from the activations on frames.                   *)
(***************************************************************************)
Call(frames, c, relationship) ==
  IF c = None \/ IsMember(known, c)
    THEN stack' = frames /\ UNCHANGED known
    ELSE /\ known' = Append(known, c)
         /\ stack' = Append(frames, NewFrame(c, relationship))

Init == /\ super \in {s \in [Infras -> Infras \union {None}] : Loadable(s)}
        /\ \A m \in MixinClasses : super[m] = None
        /\ mixins \in [Infras -> {l \in MixinLists : NoDuplicates(l)}]
        /\ \A i \in Infras : \A k \in DOMAIN mixins[i] : mixins[i][k] # i
        /\ start \in Class \union {None}
        /\ pc = "fopen"
        /\ known = <<>> /\ stack = <<>> /\ printed = <<>> /\ edges = <<>>

OpenFails == /\ pc = "fopen"
             /\ pc' = "failed"
             /\ UNCHANGED <<runtime, known, stack, printed, edges>>

Open == /\ pc = "fopen"
        /\ pc' = "dumping"
        /\ Call(<<>>, start, "none")
        /\ UNCHANGED <<runtime, printed, edges>>

\* faulty variant: a metaclass dump that does not wrap around to the root
VisitSuperNoWrap ==
  /\ stack # <<>> /\ Top.at = "super"
  /\ LET frames == [stack EXCEPT ![Len(stack)].at = "mixins"]
         s      == Superclass(Top.cls)
     IN  IF s # None /\ IsMeta(s) = DumpsMeta
           THEN Call(frames, s, "superclass")
           ELSE stack' = frames /\ UNCHANGED known
  /\ UNCHANGED <<runtime, pc, printed, edges>>

VisitSuper ==
  /\ stack # <<>> /\ Top.at = "super"
  /\ LET frames == [stack EXCEPT ![Len(stack)].at = "mixins"]
     IN  IF FollowsSuper(Top.cls)
           THEN Call(frames, Superclass(Top.cls), "superclass")
           ELSE stack' = frames /\ UNCHANGED known
  /\ UNCHANGED <<runtime, pc, printed, edges>>

\* faulty variants: the last mixin is left out; the walk stays where it is
VisitMixinButLast ==
  /\ stack # <<>> /\ Top.at = "mixins" /\ Top.next \in DOMAIN mixins[Top.cls[1]]
  /\ LET frames == [stack EXCEPT ![Len(stack)].next = Top.next + 1]
     IN  IF Top.next < Len(mixins[Top.cls[1]])
           THEN Call(frames, MixinOf(Top.cls, Top.next), "mixin")
           ELSE stack' = frames /\ UNCHANGED known
  /\ UNCHANGED <<runtime, pc, printed, edges>>
VisitMixinStays ==
  /\ stack # <<>> /\ Top.at = "mixins" /\ Top.next \in DOMAIN mixins[Top.cls[1]]
  /\ Call(stack, MixinOf(Top.cls, Top.next), "mixin")
  /\ UNCHANGED <<runtime, pc, printed, edges>>

VisitMixin ==
  /\ stack # <<>> /\ Top.at = "mixins" /\ Top.next \in DOMAIN mixins[Top.cls[1]]
  /\ Call([stack EXCEPT ![Len(stack)].next = Top.next + 1],
          MixinOf(Top.cls, Top.next), "mixin")
  /\ UNCHANGED <<runtime, pc, printed, edges>>

\* faulty variant: the edge to a superclass counts as well
PrintCountedEdge ==
  LET caller == Rest[Len(Rest)]
  IN  /\ edges' = Append(edges, [from |-> Top.cls, to |-> caller.cls,
                                 relationship |-> Top.relationship,
                                 nr |-> caller.counter - 1])
      /\ stack' = [Rest EXCEPT ![Len(Rest)].counter = caller.counter + 1]

(***************************************************************************)
(* The class itself, then the edge to the class it was reached from.  An   *)
(* edge to a mixin takes its number from the caller's counter and counts   *)
(* it up, which only happens when the mixin was not output before.         *)
(***************************************************************************)
PrintEdge ==
  LET caller == Rest[Len(Rest)]
  IN  /\ edges' = Append(edges, [from |-> Top.cls, to |-> caller.cls,
                                 relationship |-> Top.relationship,
                                 nr |-> caller.counter - 1])
      /\ stack' = IF Top.relationship = "mixin"
                    THEN [Rest EXCEPT ![Len(Rest)].counter = caller.counter + 1]
                    ELSE Rest

PrintClass ==
  /\ stack # <<>> /\ Top.at = "mixins" /\ Top.next \notin DOMAIN mixins[Top.cls[1]]
  /\ printed' = Append(printed, Top.cls)
  /\ \/ Top.relationship = "none" /\ stack' = Rest /\ UNCHANGED edges
     \/ Top.relationship # "none" /\ PrintEdge
  /\ UNCHANGED <<runtime, pc, known>>

Close == /\ pc = "dumping" /\ stack = <<>>
         /\ pc' = "closed"
         /\ UNCHANGED <<runtime, known, stack, printed, edges>>

Next == OpenFails \/ Open \/ VisitSuper \/ VisitMixin \/ PrintClass \/ Close

Spec == Init /\ [][Next]_vars

\* one thread runs the dump to its end
FairSpec == Spec /\ WF_vars(Next)

-------------------------------------------------------------------------------
TypeOK == /\ super \in [Infras -> Infras \union {None}]
          /\ mixins \in [Infras -> MixinLists]
          /\ start \in Class \union {None}
          /\ pc \in {"fopen", "dumping", "closed", "failed"}
          /\ known \in Seq(Class)
          /\ stack \in Seq(Frame)
          /\ printed \in Seq(Class)
          /\ edges \in Seq(Edge)

(***************************************************************************)
(* "output each class only once" (mulle-objc-dotdump.c:1312), over diamonds*)
(* and cycles of mixins; and begin each class only once: the recursion is  *)
(* never deeper than the chain of classes it is in the middle of, and      *)
(* cycles of mixins cannot exhaust the C stack.                            *)
(***************************************************************************)
PrintedOnce == NoDuplicates(printed)
NoReentry   == \A i, j \in DOMAIN stack : stack[i].cls = stack[j].cls => i = j
EachOnce    == PrintedOnce /\ NoReentry

(***************************************************************************)
(* The class itself comes after its superclass, so that Graphviz puts it   *)
(* below ("Will then hopefully be at the bottom in Graphviz"), also when   *)
(* the superclass was first met as somebody's mixin.                       *)
(***************************************************************************)
SuperAbove ==
  \A i \in DOMAIN printed :
    FollowsSuper(printed[i]) =>
      \E j \in 1 .. i - 1 : printed[j] = Superclass(printed[i])

(***************************************************************************)
(* "Dump a class and all superclasses and protocol classes" (line 1264):   *)
(* when the file is closed it holds the class, and with every class the    *)
(* superclass and the mixins that are followed from it.                    *)
(***************************************************************************)
Printed == {printed[i] : i \in DOMAIN printed}
AllDumped ==
  pc = "closed" =>
    /\ start # None => start \in Printed
    /\ \A c \in Printed :
         /\ FollowsSuper(c) => Superclass(c) \in Printed
         /\ \A i \in DOMAIN mixins[c[1]] : MixinOf(c, i) \in Printed

(***************************************************************************)
(* Nothing is drawn that does not belong to the class: every class but the *)
(* first is tied by one edge to a class that is printed too, and there is  *)
(* no edge without its class.  So the graph is one tree.  The mixin edges  *)
(* into a class are numbered 0, 1, 2, ... in the order they are output,    *)
(* whatever else is dumped between two of them.                            *)
(***************************************************************************)
MixinEdgesInto(c) == {i \in DOMAIN edges : edges[i].to = c /\ edges[i].relationship = "mixin"}
MixinsNumbered ==
  \A i \in DOMAIN edges :
    edges[i].relationship = "mixin" =>
      edges[i].nr = Cardinality({j \in MixinEdgesInto(edges[i].to) : j < i})

OneTree ==
  pc = "closed" =>
    /\ MixinsNumbered
    /\ \A c \in Printed \ {start} : \E i \in DOMAIN edges : edges[i].from = c
    /\ \A i, j \in DOMAIN edges : edges[i].from = edges[j].from => i = j
    /\ \A i \in DOMAIN edges : edges[i].from \in Printed \ {start} /\ edges[i].to \in Printed

(***************************************************************************)
(* What a dump still has to do.  A class takes Len( its mixins) + 2 steps, *)
(* numbered from 0: the superclass, each mixin, the class itself.  All are *)
(* left of a class the set does not hold, none of one that was output.     *)
(***************************************************************************)
StepOf(frame) == IF frame.at = "super" THEN 0 ELSE frame.next
Undone ==
  {w \in Class \X (0 .. MaxMixins + 1) :
     /\ w[2] <= Len(mixins[w[1][1]]) + 1
     /\ \/ \A i \in DOMAIN known : known[i] # w[1]
        \/ \E i \in DOMAIN stack : stack[i].cls = w[1] /\ StepOf(stack[i]) <= w[2]}

StepsOfCaller == CASE pc = "fopen" -> 2 [] pc = "dumping" -> 1 [] OTHER -> 0

(***************************************************************************)
(* Every step brings the end closer: no superclass that is followed, no    *)
(* cycle of mixins and no edge back to a class on the stack ever makes work*)
(* that was done before.  So a dump takes no more steps than that.         *)
(***************************************************************************)
StepsLeft   == Cardinality(Undone) + StepsOfCaller
WorkShrinks == [][StepsLeft' \in 0 .. StepsLeft - 1]_vars

(***************************************************************************)
(* The dump ends, over every hierarchy and every cycle of mixins.          *)
(***************************************************************************)
Terminates == <>(pc \in {"closed", "failed"})
===============================================================================
