------------------------------- MODULE DotDump --------------------------------
(***************************************************************************)
(* The Graphviz dumps of mulle-objc-dotdump.c that the runtime's walker    *)
(* drives: the overview of all classes, the dump of one class with its     *)
(* superclasses, and the page of the universe's tables.  dotdump_callback  *)
(* is called for what the walker meets; the recursion that draws the mixins*)
(* of a class is kept as a stack of activations.                           *)
(*                                                                         *)
(* The output is the sequence of nodes and edges.  A node is drawn in full *)
(* or as a hyperlink to the class's own file.  The tables hanging off a    *)
(* class (method lists, cache, ...) are one node per kind of table.        *)
(***************************************************************************)
EXTENDS Integers, Sequences, FiniteSets

CONSTANTS Infras,          \* the class pairs, named by their infraclass
          MixinClasses,    \* the root classes that are mixins (protocol classes)
          MaxMixins,       \* bound on the mixins of one class pair
          None,            \* NULL
          Tables,          \* the kinds of tables that are not empty
          OptionArguments, \* what a caller passes as options; {} is 0
          IsMember(_, _)   \* IsMember( added, p): does c_set_member find p?

Class    == Infras \X {"infra", "meta"}
Pair     == Infras \X {"pair"}
Universe == <<"universe", "universe">>
MixinLists == UNION {[1 .. k -> MixinClasses] : k \in 0 .. MaxMixins}

(***************************************************************************)
(* enum mulle_objc_dotdump_options, without the three that only change the *)
(* inside of a node (FILELINK, CLASSFIELDS, METHODLISTFIELDS).             *)
(***************************************************************************)
UniverseTables == {"SELECTORS", "PROTOCOLS", "CATEGORIES", "SUPERS", "STRINGS",
                   "FASTCLASSES", "CLASSES", "CLASSESTOLOAD"}
HYPERLINK == {"CLASS_HYPERLINK", "MIXIN_HYPERLINK", "UNIVERSE_HYPERLINK"}
SHOW_ALL  == UniverseTables \union
             {"UNIVERSE", "INFRACLASS", "METACLASS", "SUPERCLASS", "METHODLISTS",
              "MIXINS", "CACHE", "CLASSPAIR", "IVARLIST", "PROPERTYLIST"}
SHOW_DEFAULT == SHOW_ALL \ {"STRINGS", "SELECTORS"}

ASSUME DotDumpAssumption ==
  /\ MixinClasses \subseteq Infras
  /\ MaxMixins \in Nat
  /\ None \notin Infras /\ None \notin Class
  /\ OptionArguments \subseteq SUBSET (SHOW_ALL \union HYPERLINK)

VARIABLES super, mixins, closed,   \* the runtime; closed: DONT_INHERIT_PROTOCOLS
          job,       \* which dump, of which class, with which options argument
          options,   \* info->options
          known,     \* info->set
          cls,       \* the class whose pair the class dump walks
          pairs,     \* the pairs the universe walk has yet to visit
          walk,      \* the pointers of a pair the walker has yet to visit
          stack,     \* the classes being drawn in full
          out,       \* the nodes and edges output
          pc         \* "walking" or "done"

runtime == <<super, mixins, closed, job>>
vars == <<runtime, options, known, cls, pairs, walk, stack, out, pc>>

Infra(i) == <<i, "infra">>
Meta(i)  == <<i, "meta">>
IsMeta(c) == c[2] = "meta"

Superclass(c) ==
  IF super[c[1]] # None
    THEN <<super[c[1]], c[2]>>
    ELSE IF IsMeta(c) THEN Infra(c[1]) ELSE None

\* a class is loaded after its superclass: there is no cycle of superclasses
Loadable(s) == \A C \in SUBSET Infras : C # {} => \E i \in C : s[i] \notin C

-------------------------------------------------------------------------------
(***************************************************************************)
(* What is output.                                                         *)
(***************************************************************************)
Node(x, style)    == <<[kind |-> "node", of |-> x, style |-> style]>>
Edge(a, b, label) == <<[kind |-> "edge", from |-> a, to |-> b, label |-> label]>>
When(P, items)    == IF P THEN items ELSE <<>>

\* a table of x: an edge from the node that shows it and the table itself
Table(shown, node, x, label) ==
  When(shown /\ label \in Tables,
       Edge(node, Append(x, label), label) \o Node(Append(x, label), "table"))

\* _mulle_buffer_dot_class up to its mixins
HeadItems(c) ==
  LET i == c[1]
  IN  When("UNIVERSE" \in options, Edge(c, Universe, "universe"))
      \o When("SUPERCLASS" \in options /\ ~ IsMeta(c) /\ Superclass(c) # None,
              Edge(c, Superclass(c), "super"))
      \o Node(c, "full")
      \o When("METACLASS" \in options /\ ~ IsMeta(c), Edge(c, Meta(i), "isa/meta"))
      \o When({"METACLASS", "INFRACLASS"} \subseteq options /\ IsMeta(c),
              Edge(c, Infra(i), "infra"))

\* the arrays of protocols and categories belong to the pair: both of its
\* classes draw them
ClassPairItems(c) ==
  LET shown == "CLASSPAIR" \in options
  IN  Table(shown, c, <<c[1], "pair">>, "protocolids")
      \o Table(shown, c, <<c[1], "pair">>, "categoryids")

\* what follows the mixins in dot_class, dot_infraclass and dot_metaclass
TailItems(c) ==
  Table("METHODLISTS" \in options, c, c, "methodlist")
  \o Table("CACHE" \in options, c, c, "cache")
  \o Table("IVARLIST" \in options /\ ~ IsMeta(c), c, c, "ivarlist")
  \o Table("PROPERTYLIST" \in options /\ ~ IsMeta(c), c, c, "propertylist")
  \o ClassPairItems(c)

HyperInfraItems(c) ==
  Node(c, "hyper")
  \o When("UNIVERSE" \in options, Edge(c, Universe, "universe"))
  \o When("SUPERCLASS" \in options /\ Superclass(c) # None,
          Edge(c, Superclass(c), "super"))

UniverseTable(option, table) ==
  Table(option \in options, Universe, Universe, table)

\* the static strings have a node but no edge
UniverseItems ==
  Node(Universe, "full")
  \o UniverseTable("SELECTORS", "descriptortable")
  \o UniverseTable("PROTOCOLS", "protocoltable")
  \o UniverseTable("CATEGORIES", "categorytable")
  \o UniverseTable("SUPERS", "supertable")
  \o When("STRINGS" \in options /\ "staticinstances" \in Tables,
          Node(Append(Universe, "staticinstances"), "table"))
  \o UniverseTable("FASTCLASSES", "fastclasses")
  \o UniverseTable("CLASSES", "classes")
  \o UniverseTable("CLASSESTOLOAD", "classestoload")
  \o UniverseTable("CLASSESTOLOAD", "categoriestoload")

-------------------------------------------------------------------------------
Frame(c) == [cls |-> c, at |-> "head", next |-> 1]
Top      == stack[Len(stack)]
Rest     == SubSeq(stack, 1, Len(stack) - 1)
At(step) == stack # <<>> /\ Top.at = step

Overview == [dump |-> "overview", start |-> None, argument |-> {}]
Jobs == {Overview}
        \union [dump : {"universe"}, start : {None},
                argument : SUBSET {"STRINGS", "SELECTORS"}]
        \union [dump : {"class"}, start : Class, argument : OptionArguments]

(***************************************************************************)
(* The options the three dumps start with.  The environment can add two    *)
(* tables to the universe's page; an options argument of 0 means the       *)
(* default without the universe.                                           *)
(***************************************************************************)
InitialOptions(j) ==
  CASE j.dump = "overview" -> SHOW_DEFAULT \union HYPERLINK
    [] j.dump = "universe" -> SHOW_DEFAULT \union j.argument
    [] j.dump = "class"    -> (IF j.argument = {}
                                 THEN SHOW_DEFAULT \ {"UNIVERSE"}
                                 ELSE j.argument) \ {"CLASS_HYPERLINK"}

InitRuntime ==
  /\ super \in {s \in [Infras -> Infras \union {None}] : Loadable(s)}
  /\ \A m \in MixinClasses : super[m] = None
  /\ mixins \in [Infras -> {l \in MixinLists : \A i, j \in DOMAIN l : l[i] = l[j] => i = j}]
  /\ \A i \in Infras : \A k \in DOMAIN mixins[i] : mixins[i][k] # i
  /\ closed \in SUBSET Infras

Init == /\ InitRuntime
        /\ job \in Jobs
        /\ options = InitialOptions(job)
        /\ known = <<>> /\ stack = <<>>
        /\ cls = job.start
        /\ pairs = IF job.dump = "overview" THEN Infras ELSE {}
        /\ walk = IF job.dump = "overview" THEN <<Universe>> ELSE <<>>
        /\ out = <<>>
        /\ pc = "walking"

PairWalk(i) == <<<<i, "pair">>, Infra(i), Meta(i)>>

-------------------------------------------------------------------------------
(***************************************************************************)
(* The walker: mulle_objc_universe_walk meets the universe, then the pairs *)
(* in the order of the class table; mulle_objc_classpair_walk meets the    *)
(* pair, the infraclass and the metaclass.                                 *)
(***************************************************************************)
WalkPair == /\ pc = "walking" /\ stack = <<>> /\ walk = <<>>
            /\ \E i \in pairs : walk' = PairWalk(i) /\ pairs' = pairs \ {i}
            /\ UNCHANGED <<runtime, options, known, cls, stack, out, pc>>

\* the walk of the pair of cls
WalkOne == /\ pc = "walking" /\ stack = <<>> /\ walk = <<>> /\ cls # None
           /\ walk' = PairWalk(cls[1])
           /\ UNCHANGED <<runtime, known, pairs, stack, out, pc>>

\* faulty variants: the superclass is not checked for NULL; the hyperlinks
\* never come on; the loop stays where it is
WalkClassUnchecked == WalkOne /\ cls' = <<super[cls[1]], cls[2]>> /\ UNCHANGED options
WalkClassInFull    == WalkOne /\ cls' = Superclass(cls) /\ UNCHANGED options
WalkClassStays     == WalkOne /\ UNCHANGED <<cls, options>>

(***************************************************************************)
(* The loop of _mulle_objc_class_dotdump_to_buffer over the superclasses.  *)
(* The hyperlinks for classes come on after the first pair, if the caller  *)
(* asked for them.                                                         *)
(***************************************************************************)
WalkClass == /\ WalkOne
             /\ cls' = Superclass(cls)
             /\ options' = IF cls = job.start
                             THEN options
                             ELSE options \union (job.argument \intersect {"CLASS_HYPERLINK"})

DumpUniverse == /\ pc = "walking" /\ job.dump = "universe"
                /\ out' = UniverseItems
                /\ pc' = "done"
                /\ UNCHANGED <<runtime, options, known, cls, pairs, walk, stack>>

Finish == /\ pc = "walking" /\ job.dump # "universe"
          /\ stack = <<>> /\ walk = <<>> /\ pairs = {} /\ cls = None
          /\ pc' = "done"
          /\ UNCHANGED <<runtime, options, known, cls, pairs, walk, stack, out>>

(***************************************************************************)
(* dotdump_callback for the next pointer.  When the answer is              *)
(* mulle_objc_walk_dont_descend for an infraclass, the walker may or may   *)
(* not go on to the metaclass.                                             *)
(***************************************************************************)
Called == pc = "walking" /\ stack = <<>> /\ walk # <<>>

CallbackKnown ==
  /\ Called /\ IsMember(known, Head(walk))
  /\ \/ walk' = Tail(walk)
     \/ Head(walk)[2] = "infra" /\ walk' = <<>>
  /\ UNCHANGED <<runtime, options, known, cls, pairs, stack, out, pc>>

CallbackNew(p) ==
  /\ Called /\ p = Head(walk) /\ ~ IsMember(known, p)
  /\ known' = Append(known, p)
  /\ walk' = Tail(walk)
  /\ UNCHANGED <<runtime, options, cls, pairs, pc>>

Draw(items)   == out' = out \o items /\ UNCHANGED stack
DrawInFull(c) == stack' = Append(stack, Frame(c)) /\ UNCHANGED out
DrawNothing   == UNCHANGED <<stack, out>>

VisitUniverse ==
  \E p \in {Universe} :
    /\ CallbackNew(p)
    /\ IF "UNIVERSE" \notin options THEN DrawNothing
       ELSE IF "UNIVERSE_HYPERLINK" \in options THEN Draw(Node(p, "hyper"))
       ELSE Draw(UniverseItems)

VisitPair == \E p \in Pair : CallbackNew(p) /\ DrawNothing

\* faulty variants: no hyperlink for a class; no metaclass
VisitInfraInFullOnly ==
  \E p \in Infras \X {"infra"} :
    /\ CallbackNew(p)
    /\ IF "INFRACLASS" \in options /\ "CLASS_HYPERLINK" \notin options
         THEN DrawInFull(p)
         ELSE DrawNothing
VisitMetaNever == \E p \in Infras \X {"meta"} : CallbackNew(p) /\ DrawNothing

VisitInfra ==
  \E p \in Infras \X {"infra"} :
    /\ CallbackNew(p)
    /\ IF "INFRACLASS" \notin options THEN DrawNothing
       ELSE IF "CLASS_HYPERLINK" \in options THEN Draw(HyperInfraItems(p))
       ELSE DrawInFull(p)

VisitMeta ==
  \E p \in Infras \X {"meta"} :
    /\ CallbackNew(p)
    /\ IF "METACLASS" \in options /\ "CLASS_HYPERLINK" \notin options
         THEN DrawInFull(p)
         ELSE DrawNothing

(***************************************************************************)
(* The activation of _mulle_buffer_dot_infraclass or dot_metaclass on top. *)
(***************************************************************************)
ShowsMixins(c) == "MIXINS" \in options /\ c[1] \notin closed

DrawHead ==
  /\ At("head")
  /\ out' = out \o HeadItems(Top.cls)
  /\ stack' = [stack EXCEPT ![Len(stack)].at = IF ShowsMixins(Top.cls) THEN "mixins" ELSE "tail"]
  /\ UNCHANGED <<runtime, options, known, cls, pairs, walk, pc>>

\* faulty variant: the mixin drawn is not added to the set
DrawMixinUnadded ==
  /\ At("mixins") /\ Top.next \in DOMAIN mixins[Top.cls[1]]
  /\ LET p      == Infra(mixins[Top.cls[1]][Top.next])
         frames == [stack EXCEPT ![Len(stack)].next = Top.next + 1]
     IN  /\ out' = out \o Edge(Top.cls, p, "mixin")
         /\ stack' = frames \o When(~ IsMember(known, p), <<Frame(p)>>)
  /\ UNCHANGED <<runtime, options, known, cls, pairs, walk, pc>>

(***************************************************************************)
(* One turn of the loop of _mulle_buffer_dot_mixins.  The metaclass of the *)
(* mixin is drawn after its infraclass, and is not added to the set.       *)
(***************************************************************************)
DrawMixin ==
  /\ At("mixins") /\ Top.next \in DOMAIN mixins[Top.cls[1]]
  /\ LET m      == mixins[Top.cls[1]][Top.next]
         p      == Infra(m)
         edge   == Edge(Top.cls, p, "mixin")
         frames == [stack EXCEPT ![Len(stack)].next = Top.next + 1]
     IN  IF IsMember(known, p)
           THEN stack' = frames /\ out' = out \o edge /\ UNCHANGED known
           ELSE /\ known' = Append(known, p)
                /\ IF "MIXIN_HYPERLINK" \in options
                     THEN stack' = frames /\ out' = out \o edge \o HyperInfraItems(p)
                     ELSE /\ out' = out \o edge
                          /\ stack' = frames \o When("METACLASS" \in options, <<Frame(Meta(m))>>)
                                             \o <<Frame(p)>>
  /\ UNCHANGED <<runtime, options, cls, pairs, walk, pc>>

DrawTail ==
  /\ \/ At("tail")
     \/ At("mixins") /\ Top.next \notin DOMAIN mixins[Top.cls[1]]
  /\ out' = out \o TailItems(Top.cls)
  /\ stack' = Rest
  /\ UNCHANGED <<runtime, options, known, cls, pairs, walk, pc>>

Next == \/ WalkPair \/ WalkClass \/ DumpUniverse \/ Finish
        \/ CallbackKnown \/ VisitUniverse \/ VisitPair \/ VisitInfra \/ VisitMeta
        \/ DrawHead \/ DrawMixin \/ DrawTail

Spec == Init /\ [][Next]_vars

\* one thread runs the dump to its end
FairSpec == Spec /\ WF_vars(Next)

-------------------------------------------------------------------------------
Pointer == Class \union Pair \union {Universe}

TypeOK == /\ options \in SUBSET (SHOW_ALL \union HYPERLINK)
          /\ known \in Seq(Pointer)
          /\ cls \in Class \union {None}
          /\ pairs \in SUBSET Infras
          /\ walk \in Seq(Pointer)
          /\ \A i \in DOMAIN stack :
               stack[i] \in [cls : Class, at : {"head", "mixins", "tail"}, next : 1 .. MaxMixins + 1]
          /\ \A i \in DOMAIN out : out[i].kind \in {"node", "edge"}
          /\ pc \in {"walking", "done"}

NodesOf(x)  == {i \in DOMAIN out : out[i].kind = "node" /\ out[i].of = x}
Declared(x) == NodesOf(x) # {}
InFull(x)   == \E i \in NodesOf(x) : out[i].style = "full"

(***************************************************************************)
(* The set keeps a class or the universe from being declared twice, whether*)
(* the walker or the mixin recursion meets it first, over shared and cyclic*)
(* mixins.  The exception is the metaclass of a mixin: it is drawn beside  *)
(* its infraclass without being added to the set (lines 531-532), and the  *)
(* walker draws it again if the mixin is also a superclass.                *)
(***************************************************************************)
MayRepeat(x) == /\ x \in MixinClasses \X {"meta"}
                /\ "MIXIN_HYPERLINK" \notin options

DeclaredOnce ==
  \A x \in Class \union {Universe} : MayRepeat(x) \/ Cardinality(NodesOf(x)) <= 1

(***************************************************************************)
(* A finished graph has no edge to a node it does not declare (Graphviz    *)
(* would draw it as a bare address): what one callback points at, a later  *)
(* callback must output.  Two nodes may be missing from a class dump: the  *)
(* universe, if it is asked for, since the walk of the class never meets   *)
(* it; and the infraclass of a mixin, if metaclasses and mixins are asked  *)
(* for but not infraclasses: once the walk has passed over it, it is in the*)
(* set and not drawn as a mixin later.                                     *)
(***************************************************************************)
MayBeMissing(x) ==
  /\ job.dump = "class"
  /\ \/ x = Universe /\ "UNIVERSE" \in options
     \/ /\ x \in MixinClasses \X {"infra"}
        /\ {"METACLASS", "MIXINS"} \subseteq options /\ "INFRACLASS" \notin options

EdgesLand ==
  pc = "done" =>
    \A i \in DOMAIN out :
      out[i].kind = "edge" => Declared(out[i].to) \/ MayBeMissing(out[i].to)

(***************************************************************************)
(* "turn on hyperlink class on demand" (line 952): with CLASS_HYPERLINK    *)
(* the class asked for is drawn in full and its superclasses are links to  *)
(* their own files, the root class a metaclass dump wraps around to        *)
(* included; mixins are drawn in full only without MIXIN_HYPERLINK.        *)
(***************************************************************************)
OnlyRequestedInFull ==
  job.dump = "class" /\ "CLASS_HYPERLINK" \in job.argument =>
    \A x \in Class :
      InFull(x) => \/ x[1] = job.start[1]
                   \/ x[1] \in MixinClasses /\ "MIXIN_HYPERLINK" \notin options

(***************************************************************************)
(* A dump that shows classes shows all it is about: the overview every     *)
(* class of the universe, a class dump the class and its superclasses.     *)
(***************************************************************************)
AllShown ==
  pc = "done" /\ job.dump # "universe" /\ "INFRACLASS" \in options =>
    IF job.dump = "overview"
      THEN \A i \in Infras : Declared(Infra(i))
      ELSE /\ Declared(Infra(job.start[1]))
           /\ \A i \in Infras :
                Declared(Infra(i)) /\ super[i] # None => Declared(Infra(super[i]))

(***************************************************************************)
(* What a dump has left to do, at most.  Drawing a class in full takes a   *)
(* step for its head, one for each mixin and one for what follows them; an *)
(* infraclass that enters the set can be a mixin, and then draws its       *)
(* metaclass as well.  A pair takes a step of the walker, three callbacks  *)
(* and what they draw; the class dump has the superclasses ahead of it, and*)
(* from a metaclass the root infraclass at the end.                        *)
(***************************************************************************)
PerClass  == MaxMixins + 2
PerVisit  == PerClass + 1
PerPair   == 3 * PerVisit + 1

StepOf(frame) == CASE frame.at = "head"   -> 0
                   [] frame.at = "mixins" -> frame.next
                   [] frame.at = "tail"   -> MaxMixins + 1
BeingDrawn == {w \in (DOMAIN stack) \X (0 .. MaxMixins + 1) : StepOf(stack[w[1]]) <= w[2]}
Undrawn    == {i \in Infras : \A k \in DOMAIN known : known[k] # Infra(i)}

Upwards(i) == {j \in Infras : \A C \in SUBSET Infras :
                 i \in C /\ (\A k \in C : super[k] # None => super[k] \in C) => j \in C}
ClassesLeft ==
  IF cls = None THEN 0
  ELSE Cardinality(Upwards(cls[1])) + (IF IsMeta(cls) THEN 1 ELSE 0)

(***************************************************************************)
(* Every step brings the end closer: the two activations a mixin adds are  *)
(* paid for by its entering the set, whatever mixins adopt each other.     *)
(***************************************************************************)
StepsLeft ==
  Cardinality(BeingDrawn) + 2 * PerClass * Cardinality(Undrawn)
  + PerVisit * Len(walk) + PerPair * (Cardinality(pairs) + ClassesLeft)
  + (IF pc = "walking" THEN 1 ELSE 0)
WorkShrinks == [][StepsLeft' \in 0 .. StepsLeft - 1]_vars

(***************************************************************************)
(* The dump ends: the drawing of mixins that adopt each other does not     *)
(* recur for ever, although the metaclasses it draws are not in the set.   *)
(***************************************************************************)
Terminates == <>(pc = "done")
===============================================================================
