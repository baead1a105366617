---------------------------- MODULE DotDump_proofs ----------------------------
(***************************************************************************)
(* Proofs about the Graphviz dumps, for every runtime, every set of classes*)
(* and all options.  info->set is taken for the set it is meant to be;     *)
(* CSet_proofs says for which heaps c_set is one.                          *)
(***************************************************************************)
EXTENDS DotDump, FiniteSetTheorems, SequenceTheorems, TLAPS

Elements(s) == {s[i] : i \in DOMAIN s}

MemberExact == \A added \in Seq(Pointer), p \in Pointer :
                 IsMember(added, p) <=> p \in Elements(added)

(***************************************************************************)
(* What can be output.                                                     *)
(***************************************************************************)
TableNode == {Append(x, label) : x \in Pointer, label \in Tables}
Thing     == Pointer \union TableNode
Label     == {"universe", "super", "isa/meta", "infra", "mixin"} \union Tables
Item      == [kind : {"node"}, of : Thing, style : {"full", "hyper", "table"}]
             \union [kind : {"edge"}, from : Thing, to : Thing, label : Label]

Activation == [cls : Class, at : {"head", "mixins", "tail"}, next : 1 .. MaxMixins + 1]

-------------------------------------------------------------------------------
(***************************************************************************)
(* The inductive invariant.                                                *)
(***************************************************************************)
Types == /\ TypeOK
         /\ super \in [Infras -> Infras \union {None}]
         /\ \A m \in MixinClasses : super[m] = None
         /\ mixins \in [Infras -> MixinLists]
         /\ job \in Jobs
         /\ stack \in Seq(Activation)
         /\ out \in Seq(Item)

\* the options stay what they were, but for the hyperlinks for classes
OptionsRight ==
  \/ options = InitialOptions(job)
  \/ /\ job.dump = "class" /\ "CLASS_HYPERLINK" \in job.argument
     /\ options = InitialOptions(job) \union {"CLASS_HYPERLINK"}

\* the walker is in the middle of a pair, or before the universe
Walking ==
  \/ walk = <<>>
  \/ walk = <<Universe>> /\ job.dump = "overview"
  \/ \E i \in Infras : \/ walk = PairWalk(i)
                       \/ walk = <<Infra(i), Meta(i)>>
                       \/ walk = <<Meta(i)>> /\ Infra(i) \in Elements(known)

\* which of the dumps walks what
Ways ==
  /\ job.dump # "overview" => pairs = {}
  /\ job.dump # "class" => cls = None
  /\ job.dump = "universe" => /\ walk = <<>> /\ known = <<>> /\ stack = <<>>
                              /\ out = IF pc = "done" THEN UniverseItems ELSE <<>>
  /\ job.dump # "universe" /\ pc = "done" =>
       walk = <<>> /\ stack = <<>> /\ pairs = {} /\ cls = None

\* x has been declared or is on the stack
Coming(x) == Declared(x) \/ \E k \in DOMAIN stack : stack[k].cls = x

Single(x) ==
  /\ \A i, j \in NodesOf(x) : i = j
  /\ x \notin Elements(known) => ~ Coming(x)
  /\ \A i, j \in DOMAIN stack : stack[i].cls = x /\ stack[j].cls = x => i = j
  /\ \A i \in DOMAIN stack : stack[i].cls = x /\ stack[i].at = "head" => ~ Declared(x)

Once == job.dump # "universe" => \A x \in Class \union {Universe} : MayRepeat(x) \/ Single(x)

\* what may be drawn in full when superclasses are hyperlinks
Requested(x) == \/ x[1] = job.start[1]
                \/ x[1] \in MixinClasses /\ "MIXIN_HYPERLINK" \notin options

Sparing ==
  job.dump = "class" /\ "CLASS_HYPERLINK" \in job.argument =>
    /\ \A x \in Class : InFull(x) => Requested(x)
    /\ \A k \in DOMAIN stack : Requested(stack[k].cls)
    /\ "CLASS_HYPERLINK" \in options \/ \A k \in DOMAIN walk : walk[k][1] = job.start[1]

\* the walker has yet to come to the infraclass of i
Ahead(i) == \/ i \in pairs
            \/ cls # None /\ cls[1] = i
            \/ Infra(i) \in Elements(walk)
OnWay(i) == Infra(i) \in Elements(known) \/ Ahead(i)

Progress ==
  /\ job.dump = "overview" => /\ \A i \in Infras : OnWay(i)
                              /\ Universe \in Elements(known) \union Elements(walk)
  /\ job.dump = "class" => OnWay(job.start[1])
  /\ \A i \in Infras : /\ super[i] # None
                       /\ Infra(i) \in Elements(known) \union Elements(walk)
                       => OnWay(super[i])

\* a pointer in the set was output when it entered, if the options show it
KnownDrawn ==
  /\ \A i \in Infras :
       /\ "INFRACLASS" \in options /\ Infra(i) \in Elements(known) => Coming(Infra(i))
       /\ /\ "METACLASS" \in options /\ "CLASS_HYPERLINK" \notin options
          /\ Meta(i) \in Elements(known)
          => Coming(Meta(i))
  /\ "UNIVERSE" \in options /\ Universe \in Elements(known) => Declared(Universe)

\* the metaclass of i is what the walker comes to next, and will be drawn
MetaNext(i) == /\ walk = <<Meta(i)>>
               /\ "METACLASS" \in options /\ "CLASS_HYPERLINK" \notin options

InfraFrame(c) ==
  /\ c \in Elements(known)
  /\ \/ "INFRACLASS" \in options
     \/ c[1] \in MixinClasses /\ {"METACLASS", "MIXINS"} \subseteq options
  /\ "METACLASS" \in options => Coming(Meta(c[1])) \/ MetaNext(c[1])
MetaFrame(c) ==
  /\ "METACLASS" \in options
  /\ "INFRACLASS" \in options => Coming(Infra(c[1]))

FramesRight ==
  \A k \in DOMAIN stack :
    /\ stack[k].at # "head" => Declared(stack[k].cls)
    /\ stack[k].at = "mixins" => "MIXINS" \in options
    /\ IF IsMeta(stack[k].cls) THEN MetaFrame(stack[k].cls) ELSE InfraFrame(stack[k].cls)

\* a node that will be there when the dump is done
Promised(x) ==
  \/ Coming(x)
  \/ x = Universe /\ "UNIVERSE" \in options /\ Universe \in Elements(walk)
  \/ \E i \in Infras : \/ x = Infra(i) /\ "INFRACLASS" \in options /\ Ahead(i)
                       \/ x = Meta(i) /\ MetaNext(i)

Lands(x) == Promised(x) \/ MayBeMissing(x)

EdgesPromised == \A k \in DOMAIN out : out[k].kind = "edge" => Lands(out[k].to)

Inv == /\ Types /\ OptionsRight /\ Walking /\ Ways
       /\ Once /\ Sparing
       /\ Progress /\ KnownDrawn /\ FramesRight /\ EdgesPromised

-------------------------------------------------------------------------------
(***************************************************************************)
(* Sequences of nodes and edges.                                           *)
(***************************************************************************)
LEMMA ElementsOfAppend ==
  ASSUME NEW S, NEW s \in Seq(S), NEW e \in S
  PROVE  /\ Append(s, e) \in Seq(S)
         /\ Elements(Append(s, e)) = Elements(s) \union {e}
<1>1. /\ Append(s, e) \in Seq(S)
      /\ DOMAIN Append(s, e) = 1 .. Len(s) + 1
      /\ DOMAIN s = 1 .. Len(s) /\ Len(s) \in Nat
      /\ Append(s, e)[Len(s) + 1] = e
      /\ \A i \in 1 .. Len(s) : Append(s, e)[i] = s[i]
  OBVIOUS
<1>2. /\ \A i \in 1 .. Len(s) + 1 : i \in 1 .. Len(s) \/ i = Len(s) + 1
      /\ \A i \in 1 .. Len(s) : i \in 1 .. Len(s) + 1
      /\ Len(s) + 1 \in 1 .. Len(s) + 1
  BY <1>1
<1> QED
  BY <1>1, <1>2, Zenon DEF Elements

\* u is s and then t
Joined(s, t, u) ==
  /\ \A i \in DOMAIN s : i \in DOMAIN u /\ u[i] = s[i]
  /\ \A j \in DOMAIN t : Len(s) + j \in DOMAIN u \ DOMAIN s /\ u[Len(s) + j] = t[j]
  /\ \A k \in DOMAIN u : k \in DOMAIN s \/ \E j \in DOMAIN t : k = Len(s) + j
  /\ Elements(u) = Elements(s) \union Elements(t)

LEMMA Concat ==
  ASSUME NEW S, NEW s \in Seq(S), NEW t \in Seq(S)
  PROVE  s \o t \in Seq(S) /\ Joined(s, t, s \o t)
<1>1. /\ s \o t \in Seq(S)
      /\ DOMAIN s = 1 .. Len(s) /\ DOMAIN t = 1 .. Len(t)
      /\ DOMAIN (s \o t) = 1 .. Len(s) + Len(t)
      /\ Len(s) \in Nat /\ Len(t) \in Nat
  OBVIOUS
<1>2. \A i \in DOMAIN s : i \in DOMAIN (s \o t) /\ (s \o t)[i] = s[i]
  BY <1>1
<1>3. \A j \in DOMAIN t : /\ Len(s) + j \in DOMAIN (s \o t) \ DOMAIN s
                          /\ (s \o t)[Len(s) + j] = t[j]
  BY <1>1
<1>4. ASSUME NEW k \in DOMAIN (s \o t), k \notin DOMAIN s
      PROVE  \E j \in DOMAIN t : k = Len(s) + j
  <2>1. k - Len(s) \in DOMAIN t /\ k = Len(s) + (k - Len(s))
    BY <1>1, <1>4
  <2> QED BY <2>1
<1>5. Elements(s \o t) = Elements(s) \union Elements(t)
  BY <1>2, <1>3, <1>4, Zenon DEF Elements
<1> QED BY <1>1, <1>2, <1>3, <1>4, <1>5 DEF Joined

\* A table is not a class, nor the universe: its pointer has a label appended.
LEMMA TablesApart == TableNode \intersect (Class \union {Universe}) = {}
<1>1. ASSUME NEW x \in Pointer, NEW label \in Tables
      PROVE  Append(x, label) \notin Class \union {Universe}
  <2>1. PICK a, b : x = <<a, b>>
    BY DEF Pointer, Class, Pair, Universe
  <2>2. <<a, b>> \in Seq({a, b, label}) /\ Len(<<a, b>>) = 2
    OBVIOUS
  <2>3. Len(Append(<<a, b>>, label)) = 3
    BY <2>2
  <2>4. \A c, d : Len(<<c, d>>) = 2
    OBVIOUS
  <2>5. \A c, d : Append(x, label) # <<c, d>>
    BY <2>1, <2>3, <2>4
  <2>6. \A y \in Class \union {Universe} : \E c, d : y = <<c, d>>
    BY DEF Class, Universe
  <2> QED BY <2>5, <2>6
<1>2. ASSUME NEW y \in TableNode PROVE y \notin Class \union {Universe}
  <2>1. PICK x \in Pointer, label \in Tables : y = Append(x, label)
    BY DEF TableNode
  <2> QED BY <1>1, <2>1
<1> QED BY <1>2

NodeIn(s, x) == \E e \in Elements(s) : e.kind = "node" /\ e.of = x

\* s has no nodes but tables, and its edges go to T or to what it declares itself
Extra(s, T) ==
  /\ s \in Seq(Item)
  /\ \A i \in DOMAIN s : s[i].kind = "node" => s[i].of \in TableNode /\ s[i].style = "table"
  /\ \A e \in Elements(s) : e.kind = "edge" => e.to \in T \/ NodeIn(s, e.to)

\* but for tables, s has one node, that of x
One(s, x, style, T) ==
  /\ s \in Seq(Item)
  /\ \E i \in DOMAIN s :
       /\ s[i].kind = "node" /\ s[i].of = x /\ s[i].style = style
       /\ \A j \in DOMAIN s : s[j].kind = "node" /\ j # i =>
                                s[j].of \in TableNode /\ s[j].style = "table"
  /\ \A e \in Elements(s) : e.kind = "edge" => e.to \in T \/ NodeIn(s, e.to)

LEMMA JoinedEdges ==
  ASSUME NEW s, NEW t, NEW u, NEW T, Joined(s, t, u),
         \A e \in Elements(s) : e.kind = "edge" => e.to \in T \/ NodeIn(s, e.to),
         \A e \in Elements(t) : e.kind = "edge" => e.to \in T \/ NodeIn(t, e.to)
  PROVE  \A e \in Elements(u) : e.kind = "edge" => e.to \in T \/ NodeIn(u, e.to)
BY Zenon DEF NodeIn, Joined

LEMMA ExtraExtra ==
  ASSUME NEW T, NEW s, NEW t, Extra(s, T), Extra(t, T)
  PROVE  Extra(s \o t, T)
<1> DEFINE u == s \o t
<1>1. u \in Seq(Item) /\ Joined(s, t, u)
  BY Concat DEF Extra
<1> HIDE DEF u
<1>2. \A e \in Elements(u) : e.kind = "edge" => e.to \in T \/ NodeIn(u, e.to)
  BY <1>1, JoinedEdges DEF Extra
<1>3. ASSUME NEW k \in DOMAIN u, u[k].kind = "node"
      PROVE  u[k].of \in TableNode /\ u[k].style = "table"
  <2>1. CASE k \in DOMAIN s
    BY <1>1, <1>3, <2>1 DEF Extra, Joined
  <2>2. CASE k \notin DOMAIN s
    BY <1>1, <1>3, <2>2 DEF Extra, Joined
  <2> QED BY <2>1, <2>2
<1> QED BY <1>1, <1>2, <1>3 DEF Extra, u

LEMMA OneExtra ==
  ASSUME NEW T, NEW x, NEW style, NEW s, NEW t, One(s, x, style, T), Extra(t, T)
  PROVE  One(s \o t, x, style, T)
<1> DEFINE u == s \o t
<1>1. u \in Seq(Item) /\ Joined(s, t, u)
  BY Concat DEF Extra, One
<1> HIDE DEF u
<1>2. \A e \in Elements(u) : e.kind = "edge" => e.to \in T \/ NodeIn(u, e.to)
  BY <1>1, JoinedEdges DEF Extra, One
<1>3. PICK i \in DOMAIN s :
        /\ s[i].kind = "node" /\ s[i].of = x /\ s[i].style = style
        /\ \A j \in DOMAIN s : s[j].kind = "node" /\ j # i =>
                                 s[j].of \in TableNode /\ s[j].style = "table"
  BY DEF One
<1>4. i \in DOMAIN u /\ u[i] = s[i]
  BY <1>1, Zenon DEF Joined
<1>5. ASSUME NEW k \in DOMAIN u, u[k].kind = "node", k # i
      PROVE  u[k].of \in TableNode /\ u[k].style = "table"
  <2>1. CASE k \in DOMAIN s
    BY <1>1, <1>3, <1>5, <2>1 DEF Joined
  <2>2. CASE k \notin DOMAIN s
    BY <1>1, <1>5, <2>2 DEF Extra, Joined
  <2> QED BY <2>1, <2>2
<1> QED BY <1>1, <1>2, <1>3, <1>4, <1>5, Zenon DEF One, u

LEMMA ExtraOne ==
  ASSUME NEW T, NEW x, NEW style, NEW s, NEW t, Extra(s, T), One(t, x, style, T)
  PROVE  One(s \o t, x, style, T)
<1> DEFINE u == s \o t
<1>1. u \in Seq(Item) /\ Joined(s, t, u)
  BY Concat DEF Extra, One
<1> HIDE DEF u
<1>2. \A e \in Elements(u) : e.kind = "edge" => e.to \in T \/ NodeIn(u, e.to)
  BY <1>1, JoinedEdges DEF Extra, One
<1>3. PICK i \in DOMAIN t :
        /\ t[i].kind = "node" /\ t[i].of = x /\ t[i].style = style
        /\ \A j \in DOMAIN t : t[j].kind = "node" /\ j # i =>
                                 t[j].of \in TableNode /\ t[j].style = "table"
  BY DEF One
<1>4. Len(s) + i \in DOMAIN u /\ u[Len(s) + i] = t[i]
  BY <1>1, Zenon DEF Joined
<1>5. ASSUME NEW k \in DOMAIN u, u[k].kind = "node", k # Len(s) + i
      PROVE  u[k].of \in TableNode /\ u[k].style = "table"
  <2>1. CASE k \in DOMAIN s
    BY <1>1, <1>5, <2>1 DEF Extra, Joined
  <2>2. CASE k \notin DOMAIN s
    BY <1>1, <1>3, <1>5, <2>2 DEF Joined
  <2> QED BY <2>1, <2>2
<1> QED BY <1>1, <1>2, <1>3, <1>4, <1>5, Zenon DEF One, u

LEMMA WhenExtra ==
  ASSUME NEW T, NEW P \in BOOLEAN, NEW s, P => Extra(s, T)
  PROVE  Extra(When(P, s), T)
<1>1. Extra(<<>>, T)
  BY DEF Extra, Elements
<1> QED BY <1>1 DEF When

LEMMA WhenOption ==
  ASSUME NEW T, NEW option, NEW s, option \in options => Extra(s, T)
  PROVE  Extra(When(option \in options, s), T)
<1> DEFINE P == option \in options
<1>1. P \in BOOLEAN /\ (P => Extra(s, T))
  OBVIOUS
<1> HIDE DEF P
<1>2. Extra(When(P, s), T)
  BY <1>1, WhenExtra
<1> QED BY <1>2 DEF P

LEMMA EdgeExtra ==
  ASSUME NEW T, NEW a \in Thing, NEW b \in Thing, b \in T, NEW label \in Label
  PROVE  Extra(Edge(a, b, label), T)
<1> DEFINE e == [kind |-> "edge", from |-> a, to |-> b, label |-> label]
<1>1. e \in Item /\ e.kind = "edge" /\ e.to = b
  BY DEF Item
<1> HIDE DEF e
<1>2. <<e>> \in Seq(Item) /\ DOMAIN <<e>> = {1} /\ <<e>>[1] = e
  BY <1>1
<1>3. Extra(<<e>>, T)
  BY <1>1, <1>2 DEF Extra, Elements
<1> QED BY <1>3 DEF Edge, e

LEMMA NodeOne ==
  ASSUME NEW T, NEW x \in Thing, NEW style \in {"full", "hyper", "table"}
  PROVE  One(Node(x, style), x, style, T)
<1> DEFINE e == [kind |-> "node", of |-> x, style |-> style]
<1>1. e \in Item /\ e.kind = "node" /\ e.of = x /\ e.style = style
  BY DEF Item
<1> HIDE DEF e
<1>2. <<e>> \in Seq(Item) /\ DOMAIN <<e>> = {1} /\ <<e>>[1] = e
  BY <1>1
<1>3. One(<<e>>, x, style, T)
  BY <1>1, <1>2 DEF One, Elements
<1> QED BY <1>3 DEF Node, e

LEMMA TableExtra ==
  ASSUME NEW T, NEW shown \in BOOLEAN, NEW node \in Pointer, NEW x \in Pointer, NEW label
  PROVE  Extra(Table(shown, node, x, label), T)
<1> DEFINE y == Append(x, label)
           s == Edge(node, y, label) \o Node(y, "table")
<1> SUFFICES ASSUME label \in Tables PROVE Extra(s, T)
  BY WhenExtra DEF Table
<1>1. y \in TableNode /\ y \in Thing /\ node \in Thing /\ label \in Label
  BY DEF TableNode, Thing, Label
<1> HIDE DEF y
<1>2. Extra(Edge(node, y, label), {y}) /\ One(Node(y, "table"), y, "table", {y})
  BY <1>1, EdgeExtra, NodeOne
<1>3. One(s, y, "table", {y})
  BY <1>2, ExtraOne
<1> HIDE DEF s
<1>4. NodeIn(s, y)
  BY <1>3 DEF One, NodeIn, Elements
<1> QED BY <1>1, <1>3, <1>4 DEF One, Extra

LEMMA TableOption ==
  ASSUME NEW T, NEW option, NEW node \in Pointer, NEW x \in Pointer, NEW label
  PROVE  Extra(Table(option \in options, node, x, label), T)
<1> DEFINE P == option \in options
<1>1. P \in BOOLEAN
  OBVIOUS
<1> HIDE DEF P
<1>2. Extra(Table(P, node, x, label), T)
  BY <1>1, TableExtra
<1> QED BY <1>2 DEF P

-------------------------------------------------------------------------------
(***************************************************************************)
(* What the parts of a drawing declare, and where their edges go.          *)
(***************************************************************************)
LEMMA JobType ==
  ASSUME DotDumpAssumption, Types
  PROVE  /\ job.dump \in {"overview", "universe", "class"}
         /\ job.dump = "class" => job.start \in Class
         /\ job.argument \in SUBSET (SHOW_ALL \union HYPERLINK)
<1>1. job \in Jobs
  BY DEF Types
<1>2. CASE job = Overview
  BY <1>2 DEF Overview
<1>3. CASE job \in [dump : {"universe"}, start : {None}, argument : SUBSET {"STRINGS", "SELECTORS"}]
  BY <1>3 DEF SHOW_ALL, UniverseTables
<1>4. CASE job \in [dump : {"class"}, start : Class, argument : OptionArguments]
  BY <1>4 DEF DotDumpAssumption
<1> QED BY <1>1, <1>2, <1>3, <1>4 DEF Jobs

LEMMA SuperclassType ==
  ASSUME Types, NEW c \in Class
  PROVE  /\ Superclass(c) \in Class \union {None}
         /\ ~ IsMeta(c) => Superclass(c) = IF super[c[1]] # None THEN Infra(super[c[1]]) ELSE None
BY DEF Types, Superclass, Class, Infra, IsMeta

LEMMA Kinds ==
  /\ \A i \in Infras : Infra(i) \in Class /\ Meta(i) \in Class
  /\ \A i \in Infras : ~ IsMeta(Infra(i)) /\ IsMeta(Meta(i)) /\ Infra(i)[1] = i /\ Meta(i)[1] = i
  /\ \A c \in Class : c[1] \in Infras /\ c = IF IsMeta(c) THEN Meta(c[1]) ELSE Infra(c[1])
  /\ \A i, j : /\ Infra(i) # Meta(j) /\ Infra(i) # Universe /\ Meta(i) # Universe
               /\ Infra(i) = Infra(j) => i = j
               /\ Meta(i) = Meta(j) => i = j
  /\ Class \subseteq Pointer /\ Universe \in Pointer /\ Pair \subseteq Pointer
  /\ Pointer \subseteq Thing /\ Universe \notin Class
BY DEF Class, Infra, Meta, IsMeta, Universe, Pointer, Thing

HeadTargets(c) ==
  {x \in Pointer :
     \/ x = Universe /\ "UNIVERSE" \in options
     \/ ~ IsMeta(c) /\ super[c[1]] # None /\ x = Infra(super[c[1]])
     \/ ~ IsMeta(c) /\ "METACLASS" \in options /\ x = Meta(c[1])
     \/ IsMeta(c) /\ {"METACLASS", "INFRACLASS"} \subseteq options /\ x = Infra(c[1])}

HyperTargets(c) ==
  {x \in Pointer : \/ x = Universe /\ "UNIVERSE" \in options
                   \/ super[c[1]] # None /\ x = Infra(super[c[1]])}

LEMMA HeadOne ==
  ASSUME Types, NEW c \in Class
  PROVE  One(HeadItems(c), c, "full", HeadTargets(c))
<1> DEFINE T == HeadTargets(c)
           i == c[1]
           a == When("UNIVERSE" \in options, Edge(c, Universe, "universe"))
           b == When("SUPERCLASS" \in options /\ ~ IsMeta(c) /\ Superclass(c) # None,
                     Edge(c, Superclass(c), "super"))
           d == When("METACLASS" \in options /\ ~ IsMeta(c), Edge(c, Meta(i), "isa/meta"))
           f == When({"METACLASS", "INFRACLASS"} \subseteq options /\ IsMeta(c),
                     Edge(c, Infra(i), "infra"))
<1>1. c \in Thing /\ i \in Infras /\ {"universe", "super", "isa/meta", "infra"} \subseteq Label
  BY Kinds DEF Label
<1>2. Extra(a, T)
  <2>1. "UNIVERSE" \in options => Universe \in T /\ Universe \in Thing
    BY Kinds DEF HeadTargets
  <2> HIDE DEF T
  <2>2. "UNIVERSE" \in options => Extra(Edge(c, Universe, "universe"), T)
    BY <1>1, <2>1, EdgeExtra
  <2> QED BY <2>2, WhenOption
<1>3. Extra(b, T)
  <2>1. ~ IsMeta(c) /\ Superclass(c) # None => Superclass(c) \in T /\ Superclass(c) \in Thing
    BY SuperclassType, Kinds DEF HeadTargets
  <2> HIDE DEF T
  <2> QED BY <1>1, <2>1, EdgeExtra, WhenExtra
<1>4. Extra(d, T)
  <2>1. "METACLASS" \in options /\ ~ IsMeta(c) => Meta(i) \in T /\ Meta(i) \in Thing
    BY <1>1, Kinds DEF HeadTargets
  <2> HIDE DEF T, i
  <2> QED BY <1>1, <2>1, EdgeExtra, WhenExtra
<1>5. Extra(f, T)
  <2>1. {"METACLASS", "INFRACLASS"} \subseteq options /\ IsMeta(c) => Infra(i) \in T /\ Infra(i) \in Thing
    BY <1>1, Kinds DEF HeadTargets
  <2> HIDE DEF T, i
  <2> QED BY <1>1, <2>1, EdgeExtra, WhenExtra
<1>6. One(Node(c, "full"), c, "full", T)
  BY <1>1, NodeOne
<1> HIDE DEF a, b, d, f, T
<1>7. One(a \o b \o Node(c, "full"), c, "full", T)
  BY <1>2, <1>3, <1>6, ExtraExtra, ExtraOne
<1>8. One(a \o b \o Node(c, "full") \o d \o f, c, "full", T)
  BY <1>4, <1>5, <1>7, OneExtra
<1> QED BY <1>8 DEF HeadItems, T, a, b, d, f

LEMMA HyperOne ==
  ASSUME Types, NEW c \in Class, ~ IsMeta(c)
  PROVE  One(HyperInfraItems(c), c, "hyper", HyperTargets(c))
<1> DEFINE T == HyperTargets(c)
           a == When("UNIVERSE" \in options, Edge(c, Universe, "universe"))
           b == When("SUPERCLASS" \in options /\ Superclass(c) # None,
                     Edge(c, Superclass(c), "super"))
<1>1. c \in Thing /\ {"universe", "super"} \subseteq Label
  BY Kinds DEF Label
<1>2. Extra(a, T)
  <2>1. "UNIVERSE" \in options => Universe \in T /\ Universe \in Thing
    BY Kinds DEF HyperTargets
  <2> HIDE DEF T
  <2>2. "UNIVERSE" \in options => Extra(Edge(c, Universe, "universe"), T)
    BY <1>1, <2>1, EdgeExtra
  <2> QED BY <2>2, WhenOption
<1>3. Extra(b, T)
  <2>1. Superclass(c) # None => Superclass(c) \in T /\ Superclass(c) \in Thing
    BY SuperclassType, Kinds DEF HyperTargets
  <2> HIDE DEF T
  <2> QED BY <1>1, <2>1, EdgeExtra, WhenExtra
<1>4. One(Node(c, "hyper"), c, "hyper", T)
  BY <1>1, NodeOne
<1> HIDE DEF a, b, T
<1>5. One(Node(c, "hyper") \o a \o b, c, "hyper", T)
  BY <1>2, <1>3, <1>4, OneExtra
<1> QED BY <1>5 DEF HyperInfraItems, T, a, b

LEMMA TailExtra ==
  ASSUME NEW c \in Class
  PROVE  Extra(TailItems(c), {})
<1>1. c \in Pointer /\ <<c[1], "pair">> \in Pointer
  BY Kinds DEF Pair, Class
<1> DEFINE pair == <<c[1], "pair">>
           a == Table("METHODLISTS" \in options, c, c, "methodlist")
           b == Table("CACHE" \in options, c, c, "cache")
           d == Table("IVARLIST" \in options /\ ~ IsMeta(c), c, c, "ivarlist")
           e == Table("PROPERTYLIST" \in options /\ ~ IsMeta(c), c, c, "propertylist")
           f == Table("CLASSPAIR" \in options, c, pair, "protocolids")
           g == Table("CLASSPAIR" \in options, c, pair, "categoryids")
<1> HIDE DEF pair
<1>2. Extra(a, {}) /\ Extra(b, {})
  BY <1>1, TableOption
<1>3. Extra(d, {}) /\ Extra(e, {})
  BY <1>1, TableExtra DEF IsMeta
<1>4. Extra(f, {}) /\ Extra(g, {})
  BY <1>1, TableOption DEF pair
<1> HIDE DEF a, b, d, e, f, g
<1>5. Extra(f \o g, {}) /\ Extra(a \o b \o d \o e, {})
  BY <1>2, <1>3, <1>4, ExtraExtra
<1>6. Extra(a \o b \o d \o e \o (f \o g), {})
  BY <1>5, ExtraExtra
<1> QED BY <1>6 DEF TailItems, ClassPairItems, a, b, d, e, f, g, pair

LEMMA UniverseOne == One(UniverseItems, Universe, "full", {})
<1>1. ASSUME NEW option, NEW table PROVE Extra(UniverseTable(option, table), {})
  BY Kinds, TableOption DEF UniverseTable
<1> DEFINE strings == When("STRINGS" \in options /\ "staticinstances" \in Tables,
                           Node(Append(Universe, "staticinstances"), "table"))
<1>2. Extra(strings, {})
  <2> DEFINE y == Append(Universe, "staticinstances")
  <2> SUFFICES ASSUME "staticinstances" \in Tables PROVE Extra(Node(y, "table"), {})
    BY WhenExtra
  <2>1. y \in TableNode /\ y \in Thing
    BY Kinds DEF TableNode, Thing
  <2> HIDE DEF y
  <2>2. One(Node(y, "table"), y, "table", {})
    BY <2>1, NodeOne
  <2> QED BY <2>1, <2>2 DEF One, Extra
<1>3. One(Node(Universe, "full"), Universe, "full", {})
  BY Kinds, NodeOne
<1> HIDE DEF strings
<1>4. One(Node(Universe, "full")
          \o UniverseTable("SELECTORS", "descriptortable")
          \o UniverseTable("PROTOCOLS", "protocoltable")
          \o UniverseTable("CATEGORIES", "categorytable")
          \o UniverseTable("SUPERS", "supertable"), Universe, "full", {})
  BY <1>1, <1>3, OneExtra
<1>5. One(Node(Universe, "full")
          \o UniverseTable("SELECTORS", "descriptortable")
          \o UniverseTable("PROTOCOLS", "protocoltable")
          \o UniverseTable("CATEGORIES", "categorytable")
          \o UniverseTable("SUPERS", "supertable")
          \o strings
          \o UniverseTable("FASTCLASSES", "fastclasses")
          \o UniverseTable("CLASSES", "classes")
          \o UniverseTable("CLASSESTOLOAD", "classestoload")
          \o UniverseTable("CLASSESTOLOAD", "categoriestoload"), Universe, "full", {})
  BY <1>1, <1>2, <1>4, OneExtra
<1> QED BY <1>5 DEF UniverseItems, strings
-------------------------------------------------------------------------------
(***************************************************************************)
(* What a step does to the nodes and edges output.                         *)
(***************************************************************************)
\* nothing is taken back, and the new edges go to T or to what is declared
Grows(T) ==
  /\ out' \in Seq(Item)
  /\ \A x : Declared(x) => Declared(x)'
  /\ \A x : \A k \in DOMAIN out' : out'[k].kind = "edge" /\ out'[k].to = x =>
       \/ k \in DOMAIN out /\ out'[k] = out[k]
       \/ x \in T
       \/ Declared(x)'

Same(x) == NodesOf(x)' = NodesOf(x) /\ (InFull(x)' <=> InFull(x))

OneMore(x, style) == /\ \E k : NodesOf(x)' = NodesOf(x) \union {k}
                     /\ Declared(x)'
                     /\ InFull(x)' => InFull(x) \/ style = "full"

Drawable == Class \union {Universe}

LEMMA OutSame ==
  ASSUME out \in Seq(Item), UNCHANGED out
  PROVE  Grows({}) /\ \A x : Same(x) /\ (Declared(x)' <=> Declared(x))
BY DEF Grows, Same, NodesOf, Declared, InFull

LEMMA OutGrows ==
  ASSUME NEW T, NEW s \in Seq(Item), out \in Seq(Item), out' = out \o s,
         \A e \in Elements(s) : e.kind = "edge" => e.to \in T \/ NodeIn(s, e.to)
  PROVE  Grows(T)
<1>1. out' \in Seq(Item) /\ Joined(out, s, out')
  BY Concat
<1>2. ASSUME NEW x, Declared(x) PROVE Declared(x)'
  BY <1>1, <1>2, Zenon DEF Declared, NodesOf, Joined
<1>3. ASSUME NEW x, NodeIn(s, x) PROVE Declared(x)'
  <2>1. PICK j \in DOMAIN s : s[j].kind = "node" /\ s[j].of = x
    BY <1>3 DEF NodeIn, Elements
  <2>2. Len(out) + j \in DOMAIN out' /\ out'[Len(out) + j] = s[j]
    BY <1>1, Zenon DEF Joined
  <2> QED BY <2>1, <2>2, Zenon DEF Declared, NodesOf
<1>4. ASSUME NEW k \in DOMAIN out', NEW x, out'[k].kind = "edge", out'[k].to = x,
             ~ (k \in DOMAIN out /\ out'[k] = out[k])
      PROVE  x \in T \/ Declared(x)'
  <2>1. PICK j \in DOMAIN s : out'[k] = s[j]
    BY <1>1, <1>4, Zenon DEF Joined
  <2>2. x \in T \/ NodeIn(s, x)
    BY <1>4, <2>1 DEF Elements
  <2> QED BY <1>3, <2>2
<1> QED BY <1>1, <1>2, <1>4 DEF Grows

LEMMA OutExtra ==
  ASSUME NEW T, NEW s, Extra(s, T), out \in Seq(Item), out' = out \o s
  PROVE  Grows(T) /\ \A x \in Drawable : Same(x)
<1>1. s \in Seq(Item) /\ out' \in Seq(Item) /\ Joined(out, s, out')
  BY Concat DEF Extra
<1>2. Grows(T)
  BY OutGrows, <1>1 DEF Extra
<1>3. ASSUME NEW x \in Drawable PROVE Same(x)
  <2>1. ASSUME NEW k \in NodesOf(x)' PROVE k \in NodesOf(x) /\ out'[k] = out[k]
    <3>1. k \in DOMAIN out' /\ out'[k].kind = "node" /\ out'[k].of = x
      BY <2>1 DEF NodesOf
    <3>2. CASE k \in DOMAIN out
      BY <1>1, <3>1, <3>2 DEF Joined, NodesOf
    <3>3. CASE k \notin DOMAIN out
      <4>1. PICK j \in DOMAIN s : out'[k] = s[j]
        BY <1>1, <3>1, <3>3, Zenon DEF Joined
      <4>2. x \in TableNode
        BY <3>1, <4>1 DEF Extra
      <4> QED BY <4>2, TablesApart DEF Drawable
    <3> QED BY <3>2, <3>3
  <2>2. ASSUME NEW k \in NodesOf(x) PROVE k \in NodesOf(x)' /\ out'[k] = out[k]
    BY <1>1, <2>2 DEF Joined, NodesOf
  <2>3. NodesOf(x)' = NodesOf(x)
    BY <2>1, <2>2, Zenon
  <2> QED BY <2>1, <2>3 DEF Same, InFull
<1> QED BY <1>2, <1>3

LEMMA OutOne ==
  ASSUME NEW T, NEW s, NEW x \in Drawable, NEW style, One(s, x, style, T),
         out \in Seq(Item), out' = out \o s
  PROVE  /\ Grows(T) /\ OneMore(x, style)
         /\ \A y \in Drawable : y # x => Same(y)
<1>1. s \in Seq(Item) /\ out' \in Seq(Item) /\ Joined(out, s, out')
  BY Concat DEF One
<1>2. Grows(T)
  BY OutGrows, <1>1 DEF One
<1>3. PICK i \in DOMAIN s :
        /\ s[i].kind = "node" /\ s[i].of = x /\ s[i].style = style
        /\ \A j \in DOMAIN s : s[j].kind = "node" /\ j # i =>
                                 s[j].of \in TableNode /\ s[j].style = "table"
  BY DEF One
<1> DEFINE n == Len(out) + i
<1>4. n \in DOMAIN out' /\ n \notin DOMAIN out /\ out'[n] = s[i]
  BY <1>1, Zenon DEF Joined
<1>5. ASSUME NEW y \in Drawable, NEW k \in NodesOf(y)', k # n
      PROVE  k \in NodesOf(y) /\ out'[k] = out[k]
  <2>1. k \in DOMAIN out' /\ out'[k].kind = "node" /\ out'[k].of = y
    BY <1>5 DEF NodesOf
  <2>2. CASE k \in DOMAIN out
    BY <1>1, <2>1, <2>2 DEF Joined, NodesOf
  <2>3. CASE k \notin DOMAIN out
    <3>1. PICK j \in DOMAIN s : k = Len(out) + j /\ out'[k] = s[j]
      BY <1>1, <2>1, <2>3, Zenon DEF Joined
    <3>2. y \in TableNode
      BY <1>3, <1>5, <2>1, <3>1
    <3> QED BY <3>2, TablesApart DEF Drawable
  <2> QED BY <2>2, <2>3
<1>6. ASSUME NEW y, NEW k \in NodesOf(y) PROVE k \in NodesOf(y)' /\ out'[k] = out[k]
  BY <1>1, <1>6 DEF Joined, NodesOf
<1> HIDE DEF n
<1>7. n \in NodesOf(x)'
  BY <1>3, <1>4 DEF NodesOf
<1>8. NodesOf(x)' = NodesOf(x) \union {n}
  BY <1>5, <1>6, <1>7, Zenon
<1>9. InFull(x)' => InFull(x) \/ style = "full"
  BY <1>3, <1>4, <1>5, <1>8, Zenon DEF InFull
<1>10. ASSUME NEW y \in Drawable, y # x PROVE Same(y)
  <2>1. n \notin NodesOf(y)'
    BY <1>3, <1>4, <1>10 DEF NodesOf
  <2>2. NodesOf(y)' = NodesOf(y)
    BY <1>5, <1>6, <2>1, Zenon
  <2>3. \A k \in NodesOf(y) : out'[k] = out[k]
    BY <1>6
  <2> QED BY <2>2, <2>3 DEF Same, InFull
<1> QED BY <1>2, <1>7, <1>8, <1>9, <1>10 DEF OneMore, Declared
-------------------------------------------------------------------------------
(***************************************************************************)
(* The walker's next pointers.                                             *)
(***************************************************************************)
LEMMA ShortElements ==
  /\ Elements(<<>>) = {}
  /\ \A a : Elements(<<a>>) = {a}
  /\ \A a, b : Elements(<<a, b>>) = {a, b}
  /\ \A a, b, d : Elements(<<a, b, d>>) = {a, b, d}
<1>1. Elements(<<>>) = {}
  BY DEF Elements
<1>2. ASSUME NEW a PROVE Elements(<<a>>) = {a}
  <2>1. DOMAIN <<a>> = {1} /\ <<a>>[1] = a
    OBVIOUS
  <2> QED BY <2>1 DEF Elements
<1>3. ASSUME NEW a, NEW b PROVE Elements(<<a, b>>) = {a, b}
  <2>1. DOMAIN <<a, b>> = {1, 2} /\ <<a, b>>[1] = a /\ <<a, b>>[2] = b
    OBVIOUS
  <2> QED BY <2>1, Zenon DEF Elements
<1>4. ASSUME NEW a, NEW b, NEW d PROVE Elements(<<a, b, d>>) = {a, b, d}
  <2>1. /\ DOMAIN <<a, b, d>> = {1, 2, 3}
        /\ <<a, b, d>>[1] = a /\ <<a, b, d>>[2] = b /\ <<a, b, d>>[3] = d
    OBVIOUS
  <2> QED BY <2>1, Zenon DEF Elements
<1> QED BY <1>1, <1>2, <1>3, <1>4

LEMMA ShortTails ==
  /\ \A a : <<a>> # <<>> /\ Head(<<a>>) = a /\ Tail(<<a>>) = <<>>
  /\ \A a, b : <<a, b>> # <<>> /\ Head(<<a, b>>) = a /\ Tail(<<a, b>>) = <<b>>
  /\ \A a, b, d : <<a, b, d>> # <<>> /\ Head(<<a, b, d>>) = a /\ Tail(<<a, b, d>>) = <<b, d>>
OBVIOUS

WalkIs(p, t) ==
  /\ p \in Pointer /\ t \in Seq(Pointer)
  /\ Elements(walk) = {p} \union Elements(t)
  /\ \/ p = Universe /\ t = <<>> /\ job.dump = "overview"
     \/ \E i \in Infras :
          \/ p = <<i, "pair">> /\ t = <<Infra(i), Meta(i)>>
          \/ p = Infra(i) /\ t = <<Meta(i)>>
          \/ p = Meta(i) /\ t = <<>> /\ Infra(i) \in Elements(known)

LEMMA WalkCases ==
  ASSUME Walking, walk # <<>>
  PROVE  WalkIs(Head(walk), Tail(walk))
<1>1. CASE walk = <<Universe>> /\ job.dump = "overview"
  <2>1. Head(walk) = Universe /\ Tail(walk) = <<>> /\ Elements(walk) = {Universe}
    BY <1>1, ShortTails, ShortElements
  <2>2. <<>> \in Seq(Pointer)
    OBVIOUS
  <2> QED BY <1>1, <2>1, <2>2, Kinds, ShortElements DEF WalkIs
<1>2. ASSUME NEW i \in Infras, walk = PairWalk(i)
      PROVE  WalkIs(Head(walk), Tail(walk))
  <2> DEFINE pair == <<i, "pair">>
  <2>1. /\ Head(walk) = pair /\ Tail(walk) = <<Infra(i), Meta(i)>>
        /\ Elements(walk) = {pair, Infra(i), Meta(i)}
    BY <1>2, ShortTails, ShortElements DEF PairWalk
  <2>2. pair \in Pointer /\ Infra(i) \in Pointer /\ Meta(i) \in Pointer
    BY Kinds DEF Pointer, Pair
  <2> HIDE DEF pair
  <2>3. <<Infra(i), Meta(i)>> \in Seq(Pointer) /\ Elements(<<Infra(i), Meta(i)>>) = {Infra(i), Meta(i)}
    BY <2>2, ShortElements
  <2> QED BY <2>1, <2>2, <2>3 DEF WalkIs, pair
<1>3. ASSUME NEW i \in Infras, walk = <<Infra(i), Meta(i)>>
      PROVE  WalkIs(Head(walk), Tail(walk))
  <2>1. /\ Head(walk) = Infra(i) /\ Tail(walk) = <<Meta(i)>>
        /\ Elements(walk) = {Infra(i), Meta(i)} /\ Elements(<<Meta(i)>>) = {Meta(i)}
    BY <1>3, ShortTails, ShortElements
  <2>2. Infra(i) \in Pointer /\ Meta(i) \in Pointer
    BY Kinds
  <2>3. <<Meta(i)>> \in Seq(Pointer)
    BY <2>2
  <2> QED BY <2>1, <2>2, <2>3 DEF WalkIs
<1>4. ASSUME NEW i \in Infras, walk = <<Meta(i)>>, Infra(i) \in Elements(known)
      PROVE  WalkIs(Head(walk), Tail(walk))
  <2>1. Head(walk) = Meta(i) /\ Tail(walk) = <<>> /\ Elements(walk) = {Meta(i)}
    BY <1>4, ShortTails, ShortElements
  <2>2. Meta(i) \in Pointer /\ <<>> \in Seq(Pointer)
    BY Kinds
  <2> QED BY <1>4, <2>1, <2>2, ShortElements DEF WalkIs
<1> QED BY <1>1, <1>2, <1>3, <1>4 DEF Walking

LEMMA WalkRest ==
  ASSUME NEW p, NEW t, WalkIs(p, t)
  PROVE  Universe \notin Elements(t)
<1>1. CASE t = <<>>
  BY <1>1, ShortElements
<1>2. ASSUME NEW i \in Infras, t = <<Infra(i), Meta(i)>> \/ t = <<Meta(i)>>
      PROVE  Universe \notin Elements(t)
  <2>1. /\ Elements(<<Infra(i), Meta(i)>>) = {Infra(i), Meta(i)}
        /\ Elements(<<Meta(i)>>) = {Meta(i)}
    BY ShortElements
  <2> QED BY <1>2, <2>1, Kinds
<1> QED BY <1>1, <1>2 DEF WalkIs

LEMMA PairWalkIs ==
  ASSUME NEW i \in Infras
  PROVE  /\ PairWalk(i) \in Seq(Pointer)
         /\ Elements(PairWalk(i)) = {<<i, "pair">>, Infra(i), Meta(i)}
         /\ DOMAIN PairWalk(i) = 1 .. 3
         /\ \A k \in DOMAIN PairWalk(i) : PairWalk(i)[k][1] = i
<1>1. <<i, "pair">> \in Pointer /\ Infra(i) \in Pointer /\ Meta(i) \in Pointer
  BY Kinds DEF Pointer, Pair
<1>2. Elements(PairWalk(i)) = {<<i, "pair">>, Infra(i), Meta(i)}
  BY ShortElements DEF PairWalk
<1>3. /\ PairWalk(i) \in Seq(Pointer)
      /\ DOMAIN PairWalk(i) = 1 .. 3
  BY <1>1 DEF PairWalk
<1>4. /\ PairWalk(i)[1][1] = i /\ PairWalk(i)[2][1] = i /\ PairWalk(i)[3][1] = i
  BY DEF PairWalk, Infra, Meta
<1>5. \A k \in 1 .. 3 : k = 1 \/ k = 2 \/ k = 3
  OBVIOUS
<1> QED BY <1>2, <1>3, <1>4, <1>5, Zenon

-------------------------------------------------------------------------------
(***************************************************************************)
(* The conjuncts that several actions keep for the same reason.            *)
(***************************************************************************)
\* the walker passes over the universe or an infraclass only when it is in the set
WalkShrinks ==
  /\ Elements(known) \subseteq Elements(known')
  /\ Universe \in Elements(walk) => Universe \in Elements(walk') \union Elements(known')
  /\ \A i \in Infras : Infra(i) \in Elements(walk) =>
       Infra(i) \in Elements(walk') \union Elements(known')
  /\ \A i \in Infras : Infra(i) \in Elements(known') \union Elements(walk') =>
       Infra(i) \in Elements(known) \union Elements(walk) \/ super[i] = None

LEMMA ProgressKept ==
  ASSUME DotDumpAssumption, Types, Progress, WalkShrinks, UNCHANGED <<job, super, pairs, cls>>
  PROVE  Progress'
<1>1. ASSUME NEW i \in Infras, OnWay(i) PROVE OnWay(i)'
  BY <1>1 DEF OnWay, Ahead, WalkShrinks
<1>2. \A i \in Infras : super[i] # None => super[i] \in Infras
  BY DEF Types
<1>3. job.dump = "class" => job.start[1] \in Infras
  BY JobType, Kinds
<1> QED BY <1>1, <1>2, <1>3, Zenon DEF Progress, WalkShrinks

LEMMA PromisedKept ==
  ASSUME WalkShrinks, KnownDrawn', UNCHANGED <<options, pairs, cls>>,
         \A x : Coming(x) => Coming(x)',
         \A i \in Infras : walk = <<Meta(i)>> => \/ walk' = <<Meta(i)>>
                                                 \/ Meta(i) \in Elements(known'),
         NEW x, Promised(x)
  PROVE  Promised(x)'
<1>1. CASE Coming(x)
  BY <1>1 DEF Promised
<1>2. CASE x = Universe /\ "UNIVERSE" \in options /\ Universe \in Elements(walk)
  BY <1>2 DEF Promised, WalkShrinks, KnownDrawn, Coming
<1>3. ASSUME NEW i \in Infras, x = Infra(i), "INFRACLASS" \in options, Ahead(i) PROVE Promised(x)'
  <2>1. Ahead(i)' \/ Infra(i) \in Elements(known')
    BY <1>3 DEF Ahead, WalkShrinks
  <2> QED BY <1>3, <2>1 DEF Promised, KnownDrawn
<1>4. ASSUME NEW i \in Infras, x = Meta(i), MetaNext(i) PROVE Promised(x)'
  <2>1. MetaNext(i)' \/ Coming(x)'
    BY <1>4 DEF MetaNext, KnownDrawn
  <2> QED BY <1>4, <2>1 DEF Promised
<1> QED BY <1>1, <1>2, <1>3, <1>4 DEF Promised

\* the options by which a node may be missing stay what they are
LEMMA MissingKept ==
  ASSUME job' = job,
         \A o \in {"UNIVERSE", "INFRACLASS", "METACLASS", "MIXINS"} :
           o \in options' <=> o \in options
  PROVE  \A x : MayBeMissing(x)' <=> MayBeMissing(x)
BY DEF MayBeMissing

LEMMA EdgesKept ==
  ASSUME EdgesPromised, NEW T, Grows(T),
         \A x : MayBeMissing(x)' <=> MayBeMissing(x),
         \A x : Promised(x) => Promised(x)',
         \A x \in T : Lands(x)'
  PROVE  EdgesPromised'
<1> SUFFICES ASSUME NEW k \in DOMAIN out', NEW x,
                    out'[k].kind = "edge", out'[k].to = x
             PROVE  Lands(x)'
  BY DEF EdgesPromised
<1>1. CASE k \in DOMAIN out /\ out'[k] = out[k]
  BY <1>1 DEF EdgesPromised, Lands
<1>2. CASE x \in T
  BY <1>2
<1>3. CASE Declared(x)'
  BY <1>3 DEF Lands, Promised, Coming
<1> QED BY <1>1, <1>2, <1>3 DEF Grows

LEMMA UniverseLands ==
  ASSUME Progress, KnownDrawn, job \in Jobs, job.dump # "universe",
         "UNIVERSE" \in options
  PROVE  Lands(Universe)
<1>1. CASE job.dump = "overview"
  BY <1>1 DEF Progress, KnownDrawn, Lands, Promised, Coming
<1>2. CASE job.dump = "class"
  BY <1>2 DEF Lands, MayBeMissing
<1>3. job.dump \in {"overview", "class"}
  BY DEF Jobs, Overview
<1> QED BY <1>1, <1>2, <1>3

\* the overview shows infraclasses
LEMMA MixinLands ==
  ASSUME DotDumpAssumption, Types, OptionsRight, job.dump # "universe", NEW m \in MixinClasses,
         "INFRACLASS" \in options \/ {"METACLASS", "MIXINS"} \subseteq options
  PROVE  "INFRACLASS" \in options \/ MayBeMissing(Infra(m))
<1>1. CASE job.dump = "class"
  BY <1>1 DEF MayBeMissing, Infra
<1>2. CASE job.dump = "overview"
  BY <1>2 DEF OptionsRight, InitialOptions, SHOW_DEFAULT, SHOW_ALL
<1> QED BY <1>1, <1>2, JobType

LEMMA InfraPromised ==
  ASSUME KnownDrawn, "INFRACLASS" \in options, NEW i \in Infras, OnWay(i)
  PROVE  Promised(Infra(i))
BY DEF KnownDrawn, Promised, OnWay
\* nothing is drawn, nor added to the set
Quiet == UNCHANGED <<runtime, known, out, stack>>

LEMMA QuietKeeps ==
  ASSUME Types, Quiet
  PROVE  /\ Grows({})
         /\ \A x : /\ NodesOf(x)' = NodesOf(x)
                   /\ Declared(x)' <=> Declared(x)
                   /\ InFull(x)' <=> InFull(x)
                   /\ Coming(x)' <=> Coming(x)
<1>1. out \in Seq(Item) /\ UNCHANGED out /\ UNCHANGED stack
  BY DEF Types, Quiet
<1>2. Grows({}) /\ \A x : Same(x) /\ (Declared(x)' <=> Declared(x))
  BY <1>1, OutSame
<1> QED BY <1>1, <1>2, Zenon DEF Same, Coming

LEMMA QuietOnce ==
  ASSUME Types, Once, Quiet,
         "MIXIN_HYPERLINK" \in options' <=> "MIXIN_HYPERLINK" \in options
  PROVE  Once'
<1>1. ASSUME NEW x, MayRepeat(x) \/ Single(x) PROVE (MayRepeat(x) \/ Single(x))'
  <2>1. MayRepeat(x) => MayRepeat(x)'
    BY DEF MayRepeat
  <2>2. ASSUME Single(x) PROVE Single(x)'
    <3>1. known' = known /\ stack' = stack
      BY DEF Quiet
    <3> QED BY <2>2, <3>1, QuietKeeps, Zenon DEF Single
  <2> QED BY <1>1, <2>1, <2>2
<1>2. job' = job
  BY DEF Quiet, runtime
<1> QED BY <1>1, <1>2, Zenon DEF Once

-------------------------------------------------------------------------------
(***************************************************************************)
(* The walker's steps.                                                     *)
(***************************************************************************)
LEMMA WalkPairStep ==
  ASSUME DotDumpAssumption, Inv, WalkPair
  PROVE  Inv'
<1>1. PICK i \in pairs : walk' = PairWalk(i) /\ pairs' = pairs \ {i}
  BY DEF WalkPair
<1>2. /\ pc = "walking" /\ stack = <<>> /\ walk = <<>>
      /\ UNCHANGED <<runtime, options, known, cls, stack, out, pc>>
  BY DEF WalkPair
<1>3. i \in Infras /\ job.dump = "overview"
  BY <1>1 DEF Inv, Types, TypeOK, Ways
<1>4. Elements(walk) = {} /\ Infra(i) \in Elements(walk')
  BY <1>1, <1>2, <1>3, ShortElements, PairWalkIs
<1>5. Quiet
  BY <1>2 DEF Quiet
<1>6. Types'
  BY <1>1, <1>2, <1>3, PairWalkIs DEF Inv, Types, TypeOK, runtime
<1>7. OptionsRight'
  BY <1>2 DEF Inv, OptionsRight, InitialOptions, runtime
<1>8. Walking'
  BY <1>1, <1>3 DEF Walking, PairWalk
<1>9. Ways'
  BY <1>2, <1>3 DEF Inv, Ways, runtime
<1>10. Once'
  BY <1>2, <1>5, QuietOnce DEF Inv
<1>11. Sparing'
  BY <1>2, <1>3 DEF Sparing, runtime
<1>12. \A j \in Infras : OnWay(j) /\ OnWay(j)'
  <2>1. \A j \in Infras : OnWay(j)
    BY <1>3 DEF Inv, Progress
  <2> QED BY <1>1, <1>2, <1>4, <2>1 DEF OnWay, Ahead
<1>13. Progress'
  <2>1. job' = job /\ super' = super /\ super \in [Infras -> Infras \union {None}]
    BY <1>2 DEF Inv, Types, runtime
  <2>2. \A j \in Infras : super[j] # None => super[j] \in Infras
    BY <2>1
  <2>3. Universe \in Elements(known') \union Elements(walk')
    BY <1>2, <1>3, <1>4 DEF Inv, Progress
  <2> QED BY <1>3, <1>12, <2>1, <2>2, <2>3, Zenon DEF Progress
<1>14. KnownDrawn'
  <2>1. \A x : (Coming(x)' <=> Coming(x)) /\ (Declared(x)' <=> Declared(x))
    BY <1>5, QuietKeeps DEF Inv
  <2>2. options' = options /\ known' = known /\ KnownDrawn
    BY <1>2 DEF Inv
  <2> QED BY <2>1, <2>2, Zenon DEF KnownDrawn
<1>15. FramesRight'
  BY <1>2 DEF FramesRight
<1>16. EdgesPromised'
  <2>1. \A x : Promised(x) => Promised(x)'
    <3>1. \A x : Coming(x)' <=> Coming(x)
      BY <1>5, QuietKeeps DEF Inv
    <3>2. \A j : walk # <<Meta(j)>>
      BY <1>2, ShortTails
    <3>3. \A j \in Infras : Ahead(j) => Ahead(j)'
      BY <1>1, <1>2, <1>4 DEF Ahead
    <3> QED BY <1>2, <1>4, <3>1, <3>2, <3>3 DEF Promised, MetaNext
  <2>2. Grows({}) /\ EdgesPromised
    BY <1>5, QuietKeeps DEF Inv
  <2>3. \A x : MayBeMissing(x)' <=> MayBeMissing(x)
    BY <1>2, MissingKept DEF runtime
  <2> QED BY <2>1, <2>2, <2>3, EdgesKept
<1> QED BY <1>6, <1>7, <1>8, <1>9, <1>10, <1>11, <1>13, <1>14, <1>15, <1>16 DEF Inv

LEMMA WalkClassStep ==
  ASSUME DotDumpAssumption, Inv, WalkClass
  PROVE  Inv'
<1> DEFINE i == cls[1]
           added == job.argument \intersect {"CLASS_HYPERLINK"}
<1>1. /\ pc = "walking" /\ stack = <<>> /\ walk = <<>> /\ cls # None
      /\ walk' = PairWalk(i) /\ cls' = Superclass(cls)
      /\ options' = IF cls = job.start THEN options ELSE options \union added
      /\ UNCHANGED <<runtime, known, pairs, stack, out, pc>>
  BY DEF WalkClass, WalkOne
<1>2. cls \in Class /\ i \in Infras /\ job.dump = "class" /\ job.start \in Class /\ pairs = {}
  BY <1>1, JobType, Kinds DEF Inv, Types, TypeOK, Ways
<1>3. job' = job /\ super' = super /\ known' = known
  BY <1>1 DEF runtime
<1>4. Quiet
  BY <1>1 DEF Quiet
<1>5. /\ options \subseteq options' /\ options' \subseteq options \union {"CLASS_HYPERLINK"}
      /\ "MIXIN_HYPERLINK" \in options' <=> "MIXIN_HYPERLINK" \in options
  BY <1>1
<1>6. Elements(walk) = {} /\ Elements(walk') = {<<i, "pair">>, Infra(i), Meta(i)}
  BY <1>1, <1>2, ShortElements, PairWalkIs
<1> HIDE DEF i
<1>7. Types'
  <2>1. cls' \in Class \union {None}
    BY <1>1, <1>2, SuperclassType DEF Inv
  <2>2. options' \in SUBSET (SHOW_ALL \union HYPERLINK)
    BY <1>1, JobType DEF Inv, Types, TypeOK
  <2> HIDE DEF added
  <2> QED BY <1>1, <1>2, <2>1, <2>2, PairWalkIs DEF Inv, Types, TypeOK, runtime
<1>8. OptionsRight'
  <2>1. OptionsRight /\ InitialOptions(job)' = InitialOptions(job)
    BY <1>3 DEF Inv, InitialOptions
  <2>2. CASE options' = options
    BY <1>3, <2>1, <2>2 DEF OptionsRight
  <2>3. CASE options' # options
    <3>1. "CLASS_HYPERLINK" \in job.argument /\ options' = options \union {"CLASS_HYPERLINK"}
      BY <1>1, <2>3
    <3>2. options' = InitialOptions(job) \union {"CLASS_HYPERLINK"}
      BY <2>1, <3>1 DEF OptionsRight
    <3> QED BY <1>2, <1>3, <2>1, <3>1, <3>2, Zenon DEF OptionsRight
  <2> QED BY <2>2, <2>3
<1>9. Walking'
  BY <1>1, <1>2 DEF Walking
<1>10. Ways'
  BY <1>1, <1>2, <1>3 DEF Ways
<1>11. Once'
  BY <1>4, <1>5, QuietOnce DEF Inv
<1>12. Sparing'
  <2> SUFFICES ASSUME "CLASS_HYPERLINK" \in job.argument
               PROVE  /\ \A x \in Class : InFull(x)' => Requested(x)'
                      /\ "CLASS_HYPERLINK" \in options' \/ \A k \in DOMAIN walk' : walk'[k][1] = job.start[1]
    <3>1. \A k \in DOMAIN stack' : FALSE
      BY <1>1
    <3> QED BY <1>3, <3>1, Zenon DEF Sparing
  <2>1. \A x \in Class : InFull(x)' => Requested(x)'
    <3>1. \A x \in Class : InFull(x) => Requested(x)
      BY <1>2 DEF Inv, Sparing
    <3>2. \A x : InFull(x)' <=> InFull(x)
      BY <1>4, QuietKeeps DEF Inv
    <3>3. \A x \in Class : Requested(x) => Requested(x)'
      BY <1>3, <1>5 DEF Requested
    <3> QED BY <3>1, <3>2, <3>3, Zenon
  <2>2. CASE cls = job.start
    <3>1. \A k \in DOMAIN PairWalk(i) : PairWalk(i)[k][1] = i
      BY <1>2, PairWalkIs
    <3>2. i = job.start[1]
      BY <2>2 DEF i
    <3> QED BY <1>1, <2>1, <3>1, <3>2, Zenon
  <2>3. CASE cls # job.start
    <3>1. "CLASS_HYPERLINK" \in options'
      BY <1>1, <2>3
    <3> QED BY <2>1, <3>1, Zenon
  <2> QED BY <2>1, <2>2, <2>3
<1>13. ASSUME NEW j, Ahead(j) PROVE Ahead(j)'
  <2>1. j = i
    BY <1>1, <1>2, <1>6, <1>13 DEF Ahead, i
  <2> QED BY <1>6, <2>1 DEF Ahead
<1>14. Progress'
  <2>1. \A j : OnWay(j) => OnWay(j)'
    BY <1>3, <1>13 DEF OnWay
  <2>2. ASSUME NEW j \in Infras, super[j] # None, Infra(j) \in Elements(known') \union Elements(walk')
        PROVE  OnWay(super[j])'
    <3>1. CASE Infra(j) \in Elements(known)
      <4>1. OnWay(super[j])
        BY <2>2, <3>1 DEF Inv, Progress
      <4> QED BY <1>3, <2>1, <4>1, Zenon
    <3>2. CASE Infra(j) \notin Elements(known)
      <4>1. j = i
        BY <1>3, <1>6, <2>2, <3>2, Kinds DEF Infra, Meta
      <4>2. cls' = <<super[j], cls[2]>> /\ cls' # None
        BY <1>1, <1>2, <2>2, <4>1 DEF Superclass, i, DotDumpAssumption, Class, Inv, Types
      <4>3. Ahead(super[j])'
        BY <1>3, <4>2 DEF Ahead
      <4> QED BY <4>3 DEF OnWay
    <3> QED BY <3>1, <3>2
  <2>3. OnWay(job.start[1])'
    <3>1. OnWay(job.start[1])
      BY <1>2 DEF Inv, Progress
    <3> QED BY <1>3, <2>1, <3>1, Zenon
  <2> QED BY <1>2, <1>3, <2>2, <2>3, Zenon DEF Progress
<1>15. KnownDrawn'
  <2>1. \A x : (Coming(x)' <=> Coming(x)) /\ (Declared(x)' <=> Declared(x))
    BY <1>4, QuietKeeps DEF Inv
  <2>2. /\ "INFRACLASS" \in options' => "INFRACLASS" \in options
        /\ "METACLASS" \in options' => "METACLASS" \in options
        /\ "UNIVERSE" \in options' => "UNIVERSE" \in options
        /\ "CLASS_HYPERLINK" \notin options' => "CLASS_HYPERLINK" \notin options
    BY <1>5
  <2>3. KnownDrawn
    BY DEF Inv
  <2> QED BY <1>3, <2>1, <2>2, <2>3, Zenon DEF KnownDrawn
<1>16. FramesRight'
  BY <1>1 DEF FramesRight
<1>17. EdgesPromised'
  <2>1. \A x : Promised(x) => Promised(x)'
    <3>1. \A x : Coming(x)' <=> Coming(x)
      BY <1>4, QuietKeeps DEF Inv
    <3>2. \A j : walk # <<Meta(j)>>
      BY <1>1, ShortTails
    <3> QED BY <1>5, <1>6, <1>13, <3>1, <3>2 DEF Promised, MetaNext
  <2>2. Grows({}) /\ EdgesPromised
    BY <1>4, QuietKeeps DEF Inv
  <2>3. \A x : MayBeMissing(x)' <=> MayBeMissing(x)
    BY <1>3, <1>5, MissingKept
  <2> QED BY <2>1, <2>2, <2>3, EdgesKept
<1> QED BY <1>7, <1>8, <1>9, <1>10, <1>11, <1>12, <1>14, <1>15, <1>16, <1>17 DEF Inv
LEMMA DumpUniverseStep ==
  ASSUME DotDumpAssumption, Inv, DumpUniverse
  PROVE  Inv'
<1>1. /\ pc = "walking" /\ job.dump = "universe" /\ out' = UniverseItems /\ pc' = "done"
      /\ UNCHANGED <<runtime, options, known, cls, pairs, walk, stack>>
  BY DEF DumpUniverse
<1>2. /\ walk = <<>> /\ known = <<>> /\ stack = <<>> /\ Elements(known) = {} /\ Elements(walk) = {}
  BY <1>1, ShortElements DEF Inv, Ways
<1>3. job' = job /\ UniverseItems' = UniverseItems
  BY <1>1 DEF runtime, UniverseItems, UniverseTable
<1>4. /\ out' \in Seq(Item)
      /\ \A e \in Elements(out') : e.kind = "edge" => NodeIn(out', e.to)
  BY <1>1, UniverseOne DEF One
<1>5. Types'
  <2>1. \A k \in DOMAIN out' : out'[k].kind \in {"node", "edge"}
    BY <1>4 DEF Item
  <2> QED BY <1>1, <1>4, <2>1 DEF Inv, Types, TypeOK, runtime
<1>6. OptionsRight'
  BY <1>1 DEF Inv, OptionsRight, InitialOptions, runtime
<1>7. Walking'
  BY <1>1, <1>2 DEF Walking
<1>8. Ways'
  BY <1>1, <1>2, <1>3 DEF Inv, Ways
<1>9. Once' /\ Sparing'
  BY <1>1, <1>3 DEF Once, Sparing
<1>10. Progress'
  BY <1>1, <1>2, <1>3 DEF Progress
<1>11. KnownDrawn'
  BY <1>1, <1>2 DEF KnownDrawn
<1>12. FramesRight'
  BY <1>1, <1>2 DEF FramesRight
<1>13. EdgesPromised'
  <2> SUFFICES ASSUME NEW k \in DOMAIN out', NEW x, out'[k].kind = "edge", out'[k].to = x
               PROVE  Declared(x)'
    BY Zenon DEF EdgesPromised, Lands, Promised, Coming
  <2>1. NodeIn(out', x)
    BY <1>4 DEF Elements
  <2> QED BY <2>1, Zenon DEF NodeIn, Elements, Declared, NodesOf
<1> QED BY <1>5, <1>6, <1>7, <1>8, <1>9, <1>10, <1>11, <1>12, <1>13 DEF Inv

LEMMA FinishStep ==
  ASSUME Inv, Finish
  PROVE  Inv'
<1>1. /\ job.dump # "universe" /\ stack = <<>> /\ walk = <<>> /\ pairs = {} /\ cls = None
      /\ pc' = "done"
      /\ UNCHANGED <<runtime, options, known, cls, pairs, walk, stack, out>>
  BY DEF Finish
<1>2. UNCHANGED <<super, mixins, closed, job>>
  BY <1>1 DEF runtime
<1>3. Types' /\ Ways'
  BY <1>1, <1>2 DEF Inv, Types, TypeOK, Ways
<1>4. \A x : /\ NodesOf(x)' = NodesOf(x) /\ (Declared(x)' <=> Declared(x))
             /\ (InFull(x)' <=> InFull(x)) /\ (Coming(x)' <=> Coming(x))
  BY <1>1, QuietKeeps DEF Quiet, Inv
<1>5. /\ OptionsRight' <=> OptionsRight
      /\ Walking' <=> Walking
  BY <1>1, <1>2 DEF OptionsRight, InitialOptions, Walking
<1>6. Once'
  BY <1>1, QuietOnce DEF Inv, Quiet
<1>7. Progress'
  <2>1. \A x : OnWay(x)' <=> OnWay(x)
    BY <1>1 DEF OnWay, Ahead
  <2>2. Progress
    BY DEF Inv
  <2> QED BY <1>1, <1>2, <2>1, <2>2, Zenon DEF Progress
<1>8. KnownDrawn'
  <2>1. KnownDrawn
    BY DEF Inv
  <2> QED BY <1>1, <1>4, <2>1, Zenon DEF KnownDrawn
<1>9. Sparing'
  <2>1. \A x : Requested(x)' <=> Requested(x)
    BY <1>1, <1>2 DEF Requested
  <2>2. Sparing
    BY DEF Inv
  <2> QED BY <1>1, <1>2, <1>4, <2>1, <2>2, Zenon DEF Sparing
<1>10. FramesRight'
  BY <1>1 DEF FramesRight
<1>11. EdgesPromised'
  <2>1. \A x : Promised(x) => Promised(x)'
    BY <1>1, <1>4 DEF Promised, Ahead, MetaNext
  <2>2. Grows({}) /\ EdgesPromised
    BY <1>1, <1>2, QuietKeeps DEF Inv, Quiet
  <2>3. \A x : MayBeMissing(x)' <=> MayBeMissing(x)
    BY <1>1, <1>2, MissingKept
  <2> QED BY <2>1, <2>2, <2>3, EdgesKept
<1> QED BY <1>3, <1>5, <1>6, <1>7, <1>8, <1>9, <1>10, <1>11 DEF Inv

-------------------------------------------------------------------------------
(***************************************************************************)
(* The callback.                                                           *)
(***************************************************************************)
LEMMA CallbackKnownStep ==
  ASSUME DotDumpAssumption, MemberExact, Inv, CallbackKnown
  PROVE  Inv'
<1> DEFINE p == Head(walk)
<1>1. /\ pc = "walking" /\ stack = <<>> /\ walk # <<>> /\ IsMember(known, p)
      /\ walk' = Tail(walk) \/ (p[2] = "infra" /\ walk' = <<>>)
      /\ UNCHANGED <<runtime, options, known, cls, pairs, stack, out, pc>>
  BY DEF CallbackKnown, Called
<1>2. UNCHANGED <<super, mixins, closed, job>> /\ Quiet
  BY <1>1 DEF runtime, Quiet
<1>3. WalkIs(p, Tail(walk))
  BY <1>1, WalkCases DEF Inv
<1> HIDE DEF p
<1>4. p \in Elements(known)
  BY <1>1, <1>3 DEF MemberExact, WalkIs, Inv, Types, TypeOK
<1>5. walk' \in Seq(Pointer) /\ Elements(walk') \subseteq Elements(walk)
  <2>1. Tail(walk) \in Seq(Pointer) /\ Elements(Tail(walk)) \subseteq Elements(walk)
    BY <1>3 DEF WalkIs
  <2>2. <<>> \in Seq(Pointer) /\ Elements(<<>>) = {}
    BY ShortElements
  <2> QED BY <1>1, <2>1, <2>2
<1>6. \A i \in Infras : Infra(i) \in Elements(walk) => Infra(i) \in Elements(walk') \/ Infra(i) = p
  <2>1. CASE walk' = Tail(walk)
    BY <1>3, <2>1 DEF WalkIs
  <2>2. CASE p[2] = "infra" /\ walk' = <<>>
    <3>1. PICK i \in Infras : p = Infra(i) /\ Tail(walk) = <<Meta(i)>>
      BY <1>3, <2>2 DEF WalkIs, Universe, Meta
    <3>2. Elements(<<Meta(i)>>) = {Meta(i)}
      BY ShortElements
    <3>3. Elements(walk) = {Infra(i), Meta(i)}
      BY <1>3, <3>1, <3>2 DEF WalkIs
    <3> QED BY <3>1, <3>3, Kinds
  <2> QED BY <1>1, <2>1, <2>2
<1>7. Types'
  BY <1>1, <1>2, <1>5 DEF Inv, Types, TypeOK
<1>8. OptionsRight'
  BY <1>1, <1>2 DEF Inv, OptionsRight, InitialOptions
<1>9. Walking'
  BY <1>1, <1>3, <1>4 DEF Walking, WalkIs
<1>10. Ways'
  BY <1>1, <1>2 DEF Inv, Ways
<1>11. Once'
  BY <1>1, <1>2, QuietOnce DEF Inv
<1>12. \A x : /\ NodesOf(x)' = NodesOf(x) /\ (Declared(x)' <=> Declared(x))
              /\ (InFull(x)' <=> InFull(x)) /\ (Coming(x)' <=> Coming(x))
  BY <1>2, QuietKeeps DEF Inv
<1>13. Sparing'
  <2>1. \A x : Requested(x)' <=> Requested(x)
    BY <1>1, <1>2 DEF Requested
  <2>2. ASSUME \A k \in DOMAIN walk : walk[k][1] = job.start[1], NEW k \in DOMAIN walk'
        PROVE  walk'[k][1] = job.start[1]
    <3>1. walk'[k] \in Elements(walk)
      BY <1>5 DEF Elements
    <3>2. PICK j \in DOMAIN walk : walk'[k] = walk[j]
      BY <3>1, Zenon DEF Elements
    <3> QED BY <2>2, <3>2
  <2>3. Sparing
    BY DEF Inv
  <2> QED BY <1>1, <1>2, <1>12, <2>1, <2>2, <2>3, Zenon DEF Sparing
<1>14. KnownDrawn'
  <2>1. KnownDrawn
    BY DEF Inv
  <2> QED BY <1>1, <1>12, <2>1, Zenon DEF KnownDrawn
<1>15. WalkShrinks
  <2>1. Universe \in Elements(walk) => Universe \in Elements(known)
    BY <1>3, <1>4, WalkRest DEF WalkIs
  <2> QED BY <1>1, <1>4, <1>5, <1>6, <2>1 DEF WalkShrinks
<1>16. Progress'
  BY <1>1, <1>2, <1>15, ProgressKept DEF Inv
<1>17. FramesRight'
  BY <1>1 DEF FramesRight
<1>18. EdgesPromised'
  <2>1. ASSUME NEW i \in Infras, walk = <<Meta(i)>> PROVE Meta(i) \in Elements(known')
    <3>1. p = Meta(i)
      BY <2>1, ShortTails DEF p
    <3> QED BY <1>1, <1>4, <3>1
  <2>2. \A x : Promised(x) => Promised(x)'
    BY <1>1, <1>12, <1>14, <1>15, <2>1, PromisedKept
  <2>3. Grows({}) /\ EdgesPromised
    BY <1>1, <1>2, QuietKeeps DEF Inv
  <2>4. \A x : MayBeMissing(x)' <=> MayBeMissing(x)
    BY <1>1, <1>2, MissingKept
  <2> QED BY <2>2, <2>3, <2>4, EdgesKept
<1> QED BY <1>7, <1>8, <1>9, <1>10, <1>11, <1>13, <1>14, <1>16, <1>17, <1>18 DEF Inv
\* what a callback for a new pointer may draw
Shown(p) ==
  \/ p \in Infras \X {"infra"} /\ "INFRACLASS" \in options
  \/ p \in Infras \X {"meta"} /\ "METACLASS" \in options /\ "CLASS_HYPERLINK" \notin options
  \/ p = Universe /\ "UNIVERSE" \in options

DrawsNode(p) ==
  \E style, s, T :
    /\ One(s, p, style, T) /\ Draw(s)
    /\ style = "full" => p = Universe
    /\ \A x \in T : Lands(x)

DrawsClass(p) == p \in Class /\ DrawInFull(p) /\ Shown(p) /\ "CLASS_HYPERLINK" \notin options

Outcome(p) == \/ DrawNothing /\ ~ Shown(p)
              \/ p \in Drawable /\ DrawsNode(p)
              \/ DrawsClass(p)

\* what an outcome does to what was and will be drawn
OutcomeIs(p) ==
  /\ out' \in Seq(Item) /\ stack' \in Seq(Activation)
  /\ \A x : Coming(x) => Coming(x)'
  /\ Declared(Universe) => Declared(Universe)'
  /\ \A x \in Drawable : x # p => Same(x) /\ (Coming(x)' <=> Coming(x))
  /\ \E T : Grows(T) /\ \A x \in T : Lands(x)
  /\ Shown(p) => Coming(p)' /\ (p = Universe => Declared(p)')
  /\ p \in Drawable =>
       /\ stack' = <<>> => Same(p) \/ \E k : NodesOf(p)' = NodesOf(p) \union {k}
       /\ stack' # <<>> => Same(p)
       /\ p \in Class => (InFull(p)' => InFull(p))
  /\ \/ stack' = <<>>
     \/ p \in Class /\ Shown(p) /\ "CLASS_HYPERLINK" \notin options /\ stack' = <<Frame(p)>>

LEMMA FrameType ==
  ASSUME DotDumpAssumption, NEW c \in Class
  PROVE  /\ Frame(c) \in Activation /\ <<Frame(c)>> \in Seq(Activation)
         /\ DOMAIN <<Frame(c)>> = {1} /\ <<Frame(c)>>[1].cls = c /\ <<Frame(c)>>[1].at = "head"
<1>1. 1 \in 1 .. MaxMixins + 1
  BY DEF DotDumpAssumption
<1>2. Frame(c) \in Activation /\ Frame(c).cls = c /\ Frame(c).at = "head"
  BY <1>1 DEF Frame, Activation
<1> HIDE DEF Frame
<1> QED BY <1>2

LEMMA OutcomeEffect ==
  ASSUME DotDumpAssumption, Types, stack = <<>>, NEW p, Outcome(p)
  PROVE  OutcomeIs(p)
<1>1. out \in Seq(Item) /\ stack \in Seq(Activation)
  BY DEF Types
<1>2. \A x : Coming(x) => Declared(x)
  BY DEF Coming
<1>3. CASE DrawNothing /\ ~ Shown(p)
  <2>1. UNCHANGED out /\ UNCHANGED stack
    BY <1>3 DEF DrawNothing
  <2>2. Grows({}) /\ \A x : Same(x) /\ (Declared(x)' <=> Declared(x))
    BY <1>1, <2>1, OutSame
  <2>3. \A x : Coming(x)' <=> Coming(x)
    BY <2>1, <2>2 DEF Coming
  <2>4. \A x : InFull(x)' => InFull(x)
    BY <2>2 DEF Same
  <2>5. out' \in Seq(Item) /\ stack' \in Seq(Activation) /\ stack' = <<>>
    BY <1>1, <2>1
  <2>6. \E T : Grows(T) /\ \A x \in T : Lands(x)
    <3>1. \A x \in {} : Lands(x)
      OBVIOUS
    <3> QED BY <2>2, <3>1
  <2> QED BY <1>3, <2>2, <2>3, <2>4, <2>5, <2>6, Zenon DEF OutcomeIs
<1>4. CASE p \in Drawable /\ DrawsNode(p)
  <2>1. PICK style, s, T : /\ One(s, p, style, T) /\ Draw(s)
                           /\ style = "full" => p = Universe
                           /\ \A x \in T : Lands(x)
    BY <1>4, Zenon DEF DrawsNode
  <2>2. out' = out \o s /\ UNCHANGED stack
    BY <2>1 DEF Draw
  <2>3. /\ Grows(T) /\ OneMore(p, style)
        /\ \A y \in Drawable : y # p => Same(y)
    BY <1>1, <1>4, <2>1, <2>2, OutOne
  <2>4. \A x : Declared(x)' <=> Coming(x)'
    BY <2>2 DEF Coming
  <2>5. \A x : Coming(x) => Coming(x)'
    BY <1>2, <2>3, <2>4 DEF Grows
  <2>6. \A x \in Drawable : x # p => (Coming(x)' <=> Coming(x))
    <3>1. \A x \in Drawable : x # p => (Declared(x)' <=> Declared(x))
      BY <2>3, Zenon DEF Same, Declared
    <3>2. \A x : Declared(x) => Coming(x)
      BY DEF Coming
    <3> QED BY <1>2, <2>4, <3>1, <3>2
  <2>7. Coming(p)' /\ Declared(p)' /\ \E k : NodesOf(p)' = NodesOf(p) \union {k}
    BY <2>3, <2>4 DEF OneMore
  <2>8. p \in Class => (InFull(p)' => InFull(p))
    BY <2>1, <2>3, Kinds DEF OneMore
  <2>9. out' \in Seq(Item) /\ stack' \in Seq(Activation) /\ stack' = <<>>
    BY <1>1, <2>2, <2>3 DEF Grows
  <2>10. Declared(Universe) => Declared(Universe)'
    BY <2>3 DEF Grows
  <2> QED BY <2>1, <2>3, <2>5, <2>6, <2>7, <2>8, <2>9, <2>10, Zenon DEF OutcomeIs
<1>5. CASE DrawsClass(p)
  <2>1. UNCHANGED out /\ stack' = <<Frame(p)>> /\ p \in Class
    <3>1. UNCHANGED out /\ stack' = Append(<<>>, Frame(p)) /\ p \in Class
      BY <1>5 DEF DrawsClass, DrawInFull
    <3> HIDE DEF Frame
    <3> QED BY <3>1
  <2>2. Grows({}) /\ \A x : Same(x) /\ (Declared(x)' <=> Declared(x))
    BY <1>1, <2>1, OutSame
  <2>3. \A x : Coming(x)' <=> Declared(x)' \/ x = p
    <3>1. DOMAIN stack' = {1} /\ stack'[1].cls = p
      BY <2>1, FrameType
    <3> QED BY <3>1 DEF Coming
  <2>4. \A x : Coming(x) => Coming(x)'
    BY <1>2, <2>2, <2>3
  <2>5. \A x : Declared(x) => Coming(x)
    BY DEF Coming
  <2>6. \A x \in Drawable : x # p => (Coming(x)' <=> Coming(x))
    BY <1>2, <2>2, <2>3, <2>5
  <2>7. \A x : InFull(x)' => InFull(x)
    BY <2>2 DEF Same
  <2>8. /\ out' \in Seq(Item) /\ stack' \in Seq(Activation) /\ stack' # <<>>
        /\ p # Universe
    BY <1>1, <2>1, FrameType, Kinds
  <2>9. Shown(p) /\ "CLASS_HYPERLINK" \notin options
    BY <1>5 DEF DrawsClass
  <2>10. \E T : Grows(T) /\ \A x \in T : Lands(x)
    <3>1. \A x \in {} : Lands(x)
      OBVIOUS
    <3> QED BY <2>2, <3>1
  <2> QED BY <2>1, <2>2, <2>3, <2>4, <2>6, <2>7, <2>8, <2>9, <2>10, Zenon DEF OutcomeIs
<1> QED BY <1>3, <1>4, <1>5 DEF Outcome
LEMMA NewStep ==
  ASSUME DotDumpAssumption, MemberExact, Inv, NEW p, CallbackNew(p), Outcome(p)
  PROVE  Inv'
<1>1. /\ pc = "walking" /\ stack = <<>> /\ walk # <<>> /\ p = Head(walk)
      /\ ~ IsMember(known, p)
      /\ known' = Append(known, p) /\ walk' = Tail(walk)
      /\ UNCHANGED <<runtime, options, cls, pairs, pc>>
  BY DEF CallbackNew, Called
<1>2. UNCHANGED <<super, mixins, closed, job>>
  BY <1>1 DEF runtime
<1>3. WalkIs(p, walk')
  BY <1>1, WalkCases DEF Inv
<1>4. /\ p \notin Elements(known) /\ known' \in Seq(Pointer)
      /\ Elements(known') = Elements(known) \union {p}
  <2>1. p \in Pointer /\ known \in Seq(Pointer)
    BY <1>3 DEF WalkIs, Inv, Types, TypeOK
  <2> QED BY <1>1, <2>1, ElementsOfAppend DEF MemberExact
<1>5. OutcomeIs(p)
  BY <1>1, OutcomeEffect DEF Inv
<1>6. walk' \in Seq(Pointer) /\ Elements(walk) = {p} \union Elements(walk')
  BY <1>3 DEF WalkIs
<1>7. WalkShrinks
  BY <1>4, <1>6 DEF WalkShrinks
<1>8. job.dump # "universe"
  BY <1>1 DEF Inv, Ways
<1>9. Types'
  <2>1. out' \in Seq(Item) /\ stack' \in Seq(Activation)
    BY <1>5 DEF OutcomeIs
  <2>2. /\ \A k \in DOMAIN out' : out'[k].kind \in {"node", "edge"}
        /\ \A k \in DOMAIN stack' : stack'[k] \in Activation
    BY <2>1 DEF Item
  <2> QED BY <1>1, <1>2, <1>4, <1>6, <2>1, <2>2 DEF Inv, Types, TypeOK, Activation
<1>10. OptionsRight'
  BY <1>1, <1>2 DEF Inv, OptionsRight, InitialOptions
<1>11. Walking'
  BY <1>3, <1>4 DEF Walking, WalkIs
<1>12. Ways'
  BY <1>1, <1>2, <1>8 DEF Inv, Ways
<1>13. Once'
  <2> SUFFICES ASSUME NEW x \in Drawable, MayRepeat(x) \/ Single(x)
               PROVE  (MayRepeat(x) \/ Single(x))'
    BY <1>2, <1>8 DEF Inv, Once, Drawable
  <2>1. CASE MayRepeat(x)
    BY <1>1, <2>1 DEF MayRepeat
  <2>2. CASE Single(x) /\ x # p
    <3>1. NodesOf(x)' = NodesOf(x) /\ (Coming(x)' <=> Coming(x))
      BY <1>5, <2>2 DEF OutcomeIs, Same
    <3>2. \A k \in DOMAIN stack' : stack'[k].cls # x
      BY <1>5, <2>2, FrameType DEF OutcomeIs
    <3> QED BY <1>4, <2>2, <3>1, <3>2 DEF Single
  <2>3. CASE Single(x) /\ x = p
    <3>1. NodesOf(x) = {}
      BY <1>4, <2>3 DEF Single, Coming, Declared
    <3>2. CASE stack' = <<>>
      <4>1. \A i, j \in NodesOf(x)' : i = j
        BY <1>5, <2>3, <3>1, <3>2 DEF OutcomeIs, Same
      <4> QED BY <1>4, <2>3, <3>2, <4>1 DEF Single
    <3>3. CASE stack' # <<>>
      <4>1. NodesOf(x)' = {}
        BY <1>5, <2>3, <3>1, <3>3 DEF OutcomeIs, Same
      <4>2. DOMAIN stack' = {1}
        BY <1>5, <3>3, FrameType DEF OutcomeIs
      <4> QED BY <1>4, <2>3, <4>1, <4>2 DEF Single, Declared
    <3> QED BY <3>2, <3>3
  <2> QED BY <2>1, <2>2, <2>3
<1>14. Sparing'
  <2> SUFFICES ASSUME job.dump = "class" /\ "CLASS_HYPERLINK" \in job.argument
               PROVE  /\ \A x \in Class : InFull(x)' => Requested(x)'
                      /\ \A k \in DOMAIN stack' : Requested(stack[k].cls)'
                      /\ "CLASS_HYPERLINK" \in options' \/ \A k \in DOMAIN walk' : walk'[k][1] = job.start[1]
    BY <1>2, Zenon DEF Sparing
  <2>1. /\ \A x \in Class : InFull(x) => Requested(x)
        /\ "CLASS_HYPERLINK" \in options \/ \A k \in DOMAIN walk : walk[k][1] = job.start[1]
    BY DEF Inv, Sparing
  <2>2. \A x : Requested(x) => Requested(x)'
    BY <1>1, <1>2 DEF Requested
  <2>3. ASSUME NEW x \in Class, InFull(x)' PROVE Requested(x)'
    <3>1. InFull(x)
      BY <1>5, <2>3 DEF OutcomeIs, Same, Drawable
    <3> QED BY <2>1, <2>2, <3>1
  <2>4. ASSUME \A k \in DOMAIN walk : walk[k][1] = job.start[1]
        PROVE  p[1] = job.start[1] /\ \A k \in DOMAIN walk' : walk'[k][1] = job.start[1]
    <3>1. ASSUME NEW q \in Elements(walk) PROVE q[1] = job.start[1]
      <4>1. PICK k \in DOMAIN walk : q = walk[k]
        BY <3>1 DEF Elements
      <4> QED BY <2>4, <4>1
    <3>2. p \in Elements(walk) /\ \A k \in DOMAIN walk' : walk'[k] \in Elements(walk)
      BY <1>6 DEF Elements
    <3> QED BY <3>1, <3>2
  <2>5. ASSUME NEW k \in DOMAIN stack' PROVE Requested(stack[k].cls)'
    <3>1. stack'[k].cls = p /\ "CLASS_HYPERLINK" \notin options
      BY <1>5, <2>5, FrameType DEF OutcomeIs
    <3>2. p[1] = job'.start[1]
      BY <1>2, <2>1, <2>4, <3>1
    <3> QED BY <3>1, <3>2 DEF Requested
  <2> QED BY <1>1, <2>1, <2>3, <2>4, <2>5
<1>15. Progress'
  BY <1>1, <1>2, <1>7, ProgressKept DEF Inv
<1>16. KnownDrawn'
  <2>1. \A x : Coming(x) => Coming(x)'
    BY <1>5 DEF OutcomeIs
  <2>2. KnownDrawn
    BY DEF Inv
  <2>3. ASSUME NEW i \in Infras, "INFRACLASS" \in options, Infra(i) \in Elements(known')
        PROVE  Coming(Infra(i))'
    <3>1. CASE Infra(i) = p
      BY <1>5, <2>3, <3>1 DEF OutcomeIs, Shown, Infra
    <3>2. CASE Infra(i) # p
      BY <1>4, <2>1, <2>2, <2>3, <3>2 DEF KnownDrawn
    <3> QED BY <3>1, <3>2
  <2>4. ASSUME NEW i \in Infras, "METACLASS" \in options, "CLASS_HYPERLINK" \notin options,
               Meta(i) \in Elements(known')
        PROVE  Coming(Meta(i))'
    <3>1. CASE Meta(i) = p
      BY <1>5, <2>4, <3>1 DEF OutcomeIs, Shown, Meta
    <3>2. CASE Meta(i) # p
      BY <1>4, <2>1, <2>2, <2>4, <3>2 DEF KnownDrawn
    <3> QED BY <3>1, <3>2
  <2>5. ASSUME "UNIVERSE" \in options, Universe \in Elements(known')
        PROVE  Declared(Universe)'
    <3>1. CASE Universe = p
      BY <1>5, <2>5, <3>1 DEF OutcomeIs, Shown
    <3>2. CASE Universe # p
      BY <1>4, <1>5, <2>2, <2>5, <3>2 DEF KnownDrawn, OutcomeIs
    <3> QED BY <3>1, <3>2
  <2>6. options' = options
    BY <1>1
  <2> QED BY <2>3, <2>4, <2>5, <2>6, Zenon DEF KnownDrawn
<1>17. FramesRight'
  <2> SUFFICES ASSUME p \in Class, Shown(p), "CLASS_HYPERLINK" \notin options, stack' = <<Frame(p)>>
               PROVE  (IF IsMeta(p) THEN MetaFrame(p) ELSE InfraFrame(p))'
    <3>1. CASE stack' = <<>>
      BY <3>1 DEF FramesRight
    <3>2. CASE stack' # <<>>
      <4>1. /\ p \in Class /\ Shown(p) /\ "CLASS_HYPERLINK" \notin options /\ stack' = <<Frame(p)>>
        BY <1>5, <3>2 DEF OutcomeIs
      <4>2. DOMAIN stack' = {1} /\ stack'[1].cls = p /\ stack'[1].at = "head"
        BY <4>1, FrameType
      <4> QED BY <4>1, <4>2 DEF FramesRight
    <3> QED BY <3>1, <3>2
  <2>0. p # Universe /\ \A i : p # <<i, "pair">>
    BY Kinds DEF Class
  <2>1. CASE IsMeta(p)
    <3>1. PICK i \in Infras : p = Meta(i) /\ Infra(i) \in Elements(known)
      BY <1>3, <2>0, <2>1, Kinds DEF WalkIs
    <3>2. "METACLASS" \in options
      BY <2>1 DEF Shown, IsMeta, Universe
    <3>3. "INFRACLASS" \in options => Coming(Infra(i))'
      BY <1>1, <1>5, <3>1 DEF Inv, KnownDrawn, OutcomeIs
    <3> QED BY <1>1, <2>1, <3>1, <3>2, <3>3, Kinds DEF MetaFrame
  <2>2. CASE ~ IsMeta(p)
    <3>1. PICK i \in Infras : p = Infra(i) /\ walk' = <<Meta(i)>>
      BY <1>3, <2>0, <2>2, Kinds DEF WalkIs
    <3>2. "INFRACLASS" \in options
      BY <2>2, Kinds DEF Shown, IsMeta
    <3>3. "METACLASS" \in options => MetaNext(i)'
      BY <1>1, <3>1 DEF MetaNext
    <3> QED BY <1>1, <1>4, <2>2, <3>1, <3>2, <3>3, Kinds DEF InfraFrame
  <2> QED BY <2>1, <2>2
<1>18. EdgesPromised'
  <2>1. ASSUME NEW i \in Infras, walk = <<Meta(i)>> PROVE Meta(i) \in Elements(known')
    <3>1. p = Meta(i)
      BY <1>1, <2>1, ShortTails
    <3> QED BY <1>4, <3>1
  <2>2. \A x : Promised(x) => Promised(x)'
    BY <1>1, <1>5, <1>7, <1>16, <2>1, PromisedKept DEF OutcomeIs
  <2>3. PICK T : Grows(T) /\ \A x \in T : Lands(x)
    BY <1>5, Zenon DEF OutcomeIs
  <2>4. \A x : MayBeMissing(x)' <=> MayBeMissing(x)
    BY <1>1, <1>2, MissingKept
  <2>5. \A x \in T : Lands(x)'
    BY <2>2, <2>3, <2>4 DEF Lands
  <2>6. EdgesPromised
    BY DEF Inv
  <2> QED BY <2>2, <2>3, <2>4, <2>5, <2>6, EdgesKept
<1> QED BY <1>9, <1>10, <1>11, <1>12, <1>13, <1>14, <1>15, <1>16, <1>17, <1>18 DEF Inv
LEMMA VisitStep ==
  ASSUME DotDumpAssumption, MemberExact, Inv,
         VisitUniverse \/ VisitPair \/ VisitInfra \/ VisitMeta
  PROVE  Inv'
<1>1. CASE VisitUniverse
  <2>1. /\ CallbackNew(Universe)
        /\ IF "UNIVERSE" \notin options THEN DrawNothing
           ELSE IF "UNIVERSE_HYPERLINK" \in options THEN Draw(Node(Universe, "hyper"))
           ELSE Draw(UniverseItems)
    BY <1>1 DEF VisitUniverse
  <2>2. \A style : One(Node(Universe, style), Universe, style, {}) \/ style \notin {"full", "hyper", "table"}
    BY Kinds, NodeOne
  <2>3. One(Node(Universe, "hyper"), Universe, "hyper", {})
    BY <2>2
  <2>4. One(UniverseItems, Universe, "full", {})
    BY UniverseOne
  <2>5. ASSUME NEW s, NEW style, One(s, Universe, style, {}), Draw(s) PROVE Outcome(Universe)
    <3>1. \A x \in {} : Lands(x)
      OBVIOUS
    <3>2. DrawsNode(Universe) /\ Universe \in Drawable
      BY <2>5, <3>1 DEF DrawsNode, Drawable
    <3> QED BY <3>2 DEF Outcome
  <2>6. ASSUME "UNIVERSE" \notin options, DrawNothing PROVE Outcome(Universe)
    <3>1. ~ Shown(Universe)
      BY <2>6 DEF Shown, Universe
    <3> QED BY <2>6, <3>1 DEF Outcome
  <2>7. Outcome(Universe)
    BY <2>1, <2>3, <2>4, <2>5, <2>6, Zenon
  <2> QED BY <2>1, <2>7, NewStep
<1>2. CASE VisitPair
  <2>1. PICK p \in Pair : CallbackNew(p) /\ DrawNothing
    BY <1>2 DEF VisitPair
  <2>2. ~ Shown(p)
    BY DEF Shown, Pair, Universe
  <2>3. Outcome(p)
    BY <2>1, <2>2 DEF Outcome
  <2> QED BY <2>1, <2>3, NewStep
<1>3. CASE VisitInfra
  <2>1. PICK p \in Infras \X {"infra"} :
          /\ CallbackNew(p)
          /\ IF "INFRACLASS" \notin options THEN DrawNothing
             ELSE IF "CLASS_HYPERLINK" \in options THEN Draw(HyperInfraItems(p))
             ELSE DrawInFull(p)
    BY <1>3 DEF VisitInfra
  <2>2. p \in Class /\ p \in Drawable /\ ~ IsMeta(p)
    BY DEF Class, Drawable, IsMeta
  <2>3. CASE "INFRACLASS" \notin options
    <3>1. ~ Shown(p)
      BY <2>2, <2>3, Kinds DEF Shown, IsMeta
    <3>2. Outcome(p)
      BY <2>1, <2>3, <3>1 DEF Outcome
    <3> QED BY <2>1, <3>2, NewStep
  <2>4. CASE "INFRACLASS" \in options /\ "CLASS_HYPERLINK" \notin options
    <3>1. DrawsClass(p)
      BY <2>1, <2>2, <2>4 DEF DrawsClass, Shown
    <3>2. Outcome(p)
      BY <3>1 DEF Outcome
    <3> QED BY <2>1, <3>2, NewStep
  <2>5. CASE "INFRACLASS" \in options /\ "CLASS_HYPERLINK" \in options
    <3>1. walk # <<>> /\ p = Head(walk)
      BY <2>1 DEF CallbackNew, Called
    <3>2. p \in Elements(walk) /\ job.dump # "universe"
      BY <3>1, WalkCases DEF WalkIs, Inv, Ways
    <3>3. ASSUME NEW x \in HyperTargets(p) PROVE Lands(x)
      <4>1. CASE x = Universe /\ "UNIVERSE" \in options
        BY <3>2, <4>1, UniverseLands DEF Inv, Types
      <4>2. CASE super[p[1]] # None /\ x = Infra(super[p[1]])
        <5>1. p[1] \in Infras /\ p = Infra(p[1]) /\ super[p[1]] \in Infras
          BY <2>2, <4>2, Kinds DEF Inv, Types
        <5>2. OnWay(super[p[1]])
          BY <3>2, <4>2, <5>1 DEF Inv, Progress
        <5> QED BY <2>5, <4>2, <5>1, <5>2, InfraPromised DEF Inv, Lands
      <4> QED BY <4>1, <4>2 DEF HyperTargets
    <3>4. One(HyperInfraItems(p), p, "hyper", HyperTargets(p)) /\ Draw(HyperInfraItems(p))
      BY <2>1, <2>2, <2>5, HyperOne DEF Inv
    <3>5. DrawsNode(p)
      BY <3>3, <3>4, Zenon DEF DrawsNode
    <3>6. Outcome(p)
      BY <2>2, <3>5 DEF Outcome
    <3> QED BY <2>1, <3>6, NewStep
  <2> QED BY <2>3, <2>4, <2>5
<1>4. CASE VisitMeta
  <2>1. PICK p \in Infras \X {"meta"} :
          /\ CallbackNew(p)
          /\ IF "METACLASS" \in options /\ "CLASS_HYPERLINK" \notin options
               THEN DrawInFull(p)
               ELSE DrawNothing
    BY <1>4 DEF VisitMeta
  <2>2. p \in Class /\ IsMeta(p)
    BY DEF Class, IsMeta
  <2>3. CASE "METACLASS" \in options /\ "CLASS_HYPERLINK" \notin options
    <3>1. DrawsClass(p)
      BY <2>1, <2>2, <2>3 DEF DrawsClass, Shown
    <3>2. Outcome(p)
      BY <3>1 DEF Outcome
    <3> QED BY <2>1, <3>2, NewStep
  <2>4. CASE ~ ("METACLASS" \in options /\ "CLASS_HYPERLINK" \notin options)
    <3>1. ~ Shown(p)
      BY <2>2, <2>4, Kinds DEF Shown, IsMeta
    <3>2. Outcome(p)
      BY <2>1, <2>4, <3>1 DEF Outcome
    <3> QED BY <2>1, <3>2, NewStep
  <2> QED BY <2>3, <2>4
<1> QED BY <1>1, <1>2, <1>3, <1>4

-------------------------------------------------------------------------------
(***************************************************************************)
(* The activations.                                                        *)
(***************************************************************************)
OnStack(x) == \E k \in DOMAIN stack : stack[k].cls = x

\* what each of the three actions does
Drawing(T) ==
  /\ UNCHANGED <<runtime, options, cls, pairs, walk, pc>>
  /\ out' \in Seq(Item) /\ stack' \in Seq(Activation) /\ known' \in Seq(Pointer)
  /\ Elements(known) \subseteq Elements(known')
  /\ \A q \in Elements(known') \ Elements(known) :
       Coming(q)' /\ \E m \in MixinClasses : q = Infra(m)
  /\ \A x : Coming(x) => Coming(x)'
  /\ \A x \in Class : InFull(x)' => InFull(x) \/ OnStack(x)
  /\ \A k \in DOMAIN stack' :
       \/ OnStack(stack'[k].cls)
       \/ stack'[k].cls[1] \in MixinClasses /\ "MIXIN_HYPERLINK" \notin options
  /\ Grows(T)
  /\ \A x \in T : Lands(x) \/ Coming(x)'

LEMMA DrawStep ==
  ASSUME DotDumpAssumption, Inv, stack # <<>>, NEW T, Drawing(T), Once', FramesRight'
  PROVE  Inv'
<1>1. UNCHANGED <<super, mixins, closed, job>> /\ UNCHANGED <<runtime, options, cls, pairs, walk, pc>>
  BY DEF Drawing, runtime
<1>2. job.dump # "universe" /\ pc # "done"
  BY DEF Inv, Ways
<1>3. /\ Elements(known) \subseteq Elements(known')
      /\ \A q \in Elements(known') \ Elements(known) :
           Coming(q)' /\ \E m \in MixinClasses : q = Infra(m)
  BY DEF Drawing
<1>4. \A x : Coming(x) => Coming(x)'
  BY DEF Drawing
<1>5. Types'
  <2>1. out' \in Seq(Item) /\ stack' \in Seq(Activation) /\ known' \in Seq(Pointer)
    BY DEF Drawing
  <2>2. /\ \A k \in DOMAIN out' : out'[k].kind \in {"node", "edge"}
        /\ \A k \in DOMAIN stack' : stack'[k] \in Activation
    BY <2>1 DEF Item
  <2> QED BY <1>1, <2>1, <2>2 DEF Inv, Types, TypeOK, Activation
<1>6. OptionsRight'
  BY <1>1 DEF Inv, OptionsRight, InitialOptions
<1>7. Walking'
  BY <1>1, <1>3 DEF Inv, Walking
<1>8. Ways'
  BY <1>1, <1>2 DEF Inv, Ways
<1>9. Sparing'
  <2> SUFFICES ASSUME job.dump = "class" /\ "CLASS_HYPERLINK" \in job.argument
               PROVE  /\ \A x \in Class : InFull(x)' => Requested(x)'
                      /\ \A k \in DOMAIN stack' : Requested(stack[k].cls)'
                      /\ "CLASS_HYPERLINK" \in options' \/ \A k \in DOMAIN walk' : walk'[k][1] = job.start[1]
    BY <1>1, Zenon DEF Sparing
  <2>1. /\ \A x \in Class : InFull(x) => Requested(x)
        /\ \A x : OnStack(x) => Requested(x)
        /\ "CLASS_HYPERLINK" \in options \/ \A k \in DOMAIN walk : walk[k][1] = job.start[1]
    BY DEF Inv, Sparing, OnStack
  <2>2. \A x : Requested(x) => Requested(x)'
    BY <1>1 DEF Requested
  <2>3. \A x \in Class : InFull(x)' => Requested(x)'
    BY <2>1, <2>2 DEF Drawing
  <2>4. ASSUME NEW k \in DOMAIN stack', NEW x, x = stack'[k].cls PROVE Requested(x)'
    <3>1. OnStack(x) \/ (x[1] \in MixinClasses /\ "MIXIN_HYPERLINK" \notin options)
      BY <2>4 DEF Drawing
    <3> QED BY <1>1, <2>1, <2>2, <3>1 DEF Requested
  <2>5. \A k \in DOMAIN stack' : Requested(stack[k].cls)'
    BY <2>4
  <2> QED BY <1>1, <2>1, <2>3, <2>5
<1>10. WalkShrinks
  <2>1. ASSUME NEW i \in Infras, Infra(i) \in Elements(known') \ Elements(known) PROVE super[i] = None
    <3>1. PICK m \in MixinClasses : Infra(i) = Infra(m)
      BY <1>3, <2>1
    <3>2. i = m
      BY <3>1, Kinds
    <3> QED BY <3>2 DEF Inv, Types
  <2> QED BY <1>1, <1>3, <2>1 DEF WalkShrinks
<1>11. Progress'
  BY <1>1, <1>10, ProgressKept DEF Inv
<1>12. KnownDrawn'
  <2>1. \A q : q \in Elements(known') /\ (q \in Elements(known) => Coming(q)) => Coming(q)'
    BY <1>3, <1>4
  <2>2. KnownDrawn
    BY DEF Inv
  <2>3. Universe \in Elements(known') => Universe \in Elements(known)
    BY <1>3, Kinds
  <2>4. Declared(Universe) => Declared(Universe)'
    BY DEF Drawing, Grows
  <2> QED BY <1>1, <2>1, <2>2, <2>3, <2>4, Zenon DEF KnownDrawn
<1>13. EdgesPromised'
  <2>1. \A x : Promised(x) => Promised(x)'
    BY <1>1, <1>4, <1>10, <1>12, PromisedKept
  <2>2. \A x : MayBeMissing(x)' <=> MayBeMissing(x)
    BY <1>1, MissingKept
  <2>3. \A x \in T : Lands(x)'
    BY <2>1, <2>2 DEF Drawing, Lands, Promised
  <2>4. Grows(T) /\ EdgesPromised
    BY DEF Drawing, Inv
  <2> QED BY <2>1, <2>2, <2>3, <2>4, EdgesKept
<1> QED BY <1>5, <1>6, <1>7, <1>8, <1>9, <1>11, <1>12, <1>13 DEF Inv
LEMMA ActivationChanged ==
  ASSUME NEW a \in Activation
  PROVE  /\ \A v \in {"mixins", "tail"} : LET f == [a EXCEPT !.at = v]
                                          IN  f \in Activation /\ f.cls = a.cls /\ f.at = v
         /\ \A v \in 1 .. MaxMixins + 1 : LET f == [a EXCEPT !.next = v]
                                          IN  f \in Activation /\ f.cls = a.cls /\ f.at = a.at
BY DEF Activation

LEMMA StackTop ==
  ASSUME Types, stack # <<>>
  PROVE  /\ Len(stack) \in Nat /\ Len(stack) \in DOMAIN stack /\ DOMAIN stack = 1 .. Len(stack)
         /\ Top = stack[Len(stack)] /\ Top \in Activation /\ Top.cls \in Class
         /\ OnStack(Top.cls)
<1>1. stack \in Seq(Activation)
  BY DEF Types
<1>2. Len(stack) \in Nat /\ Len(stack) \in DOMAIN stack /\ DOMAIN stack = 1 .. Len(stack)
  BY <1>1
<1>3. Top = stack[Len(stack)] /\ Top \in Activation
  BY <1>1, <1>2 DEF Top
<1> QED BY <1>2, <1>3 DEF Activation, OnStack

LEMMA FramesKept ==
  ASSUME FramesRight, UNCHANGED <<options, walk>>,
         Elements(known) \subseteq Elements(known'), \A x : Coming(x) => Coming(x)',
         NEW k \in DOMAIN stack, NEW c, c = stack[k].cls
  PROVE  (IF IsMeta(c) THEN MetaFrame(c) ELSE InfraFrame(c))'
<1>1. IF IsMeta(c) THEN MetaFrame(c) ELSE InfraFrame(c)
  BY DEF FramesRight
<1>2. CASE IsMeta(c)
  BY <1>1, <1>2 DEF MetaFrame
<1>3. CASE ~ IsMeta(c)
  BY <1>1, <1>3 DEF InfraFrame, MetaNext
<1> QED BY <1>2, <1>3

LEMMA DrawHeadStep ==
  ASSUME DotDumpAssumption, Inv, DrawHead
  PROVE  Inv'
<1>0. PICK c, n, v : /\ c = Top.cls /\ n = Len(stack)
                     /\ v = IF ShowsMixins(c) THEN "mixins" ELSE "tail"
  OBVIOUS
<1>1. /\ stack # <<>> /\ Top.at = "head"
      /\ out' = out \o HeadItems(c) /\ stack' = [stack EXCEPT ![n].at = v]
      /\ UNCHANGED <<runtime, options, known, cls, pairs, walk, pc>>
  BY <1>0 DEF DrawHead, At
<1>2. /\ n \in Nat /\ n \in DOMAIN stack /\ DOMAIN stack = 1 .. n
      /\ stack[n].cls = c /\ stack[n].at = "head" /\ c \in Class /\ OnStack(c)
  BY <1>0, <1>1, StackTop DEF Inv
<1>3. v \in {"mixins", "tail"} /\ (v = "mixins" => "MIXINS" \in options)
  BY <1>0 DEF ShowsMixins
<1>4. /\ stack' \in Seq(Activation) /\ DOMAIN stack' = DOMAIN stack
      /\ \A k \in DOMAIN stack : /\ stack'[k].cls = stack[k].cls
                                 /\ stack'[k].at = IF k = n THEN v ELSE stack[k].at
  <2>1. stack \in Seq(Activation)
    BY DEF Inv, Types
  <2> DEFINE f == [stack[n] EXCEPT !.at = v]
  <2>2. f \in Activation /\ f.cls = stack[n].cls /\ f.at = v
    <3>1. stack[n] \in Activation
      BY <1>2, <2>1
    <3> QED BY <1>3, <3>1, ActivationChanged
  <2>3. stack' = [stack EXCEPT ![n] = f]
    BY <1>1
  <2> HIDE DEF f
  <2> QED BY <1>2, <2>1, <2>2, <2>3
<1>5. c \in Drawable /\ out \in Seq(Item)
  BY <1>2 DEF Drawable, Inv, Types
<1>6. /\ Grows(HeadTargets(c)) /\ OneMore(c, "full")
      /\ \A y \in Drawable : y # c => Same(y)
  BY <1>1, <1>2, <1>5, HeadOne, OutOne DEF Inv
<1>7. \A x : Coming(x) => Coming(x)'
  BY <1>4, <1>6 DEF Coming, Grows
<1>8. \A y \in Drawable : y # c => (Coming(y)' <=> Coming(y))
  <2>1. \A y \in Drawable : y # c => (Declared(y)' <=> Declared(y))
    BY <1>6, Zenon DEF Same, Declared
  <2> QED BY <1>4, <2>1 DEF Coming
<1>9. job.dump # "universe" /\ UNCHANGED job
  BY <1>1 DEF Inv, Ways, runtime
<1>10. ASSUME NEW x \in HeadTargets(c) PROVE Lands(x)
  <2>1. /\ FramesRight /\ job \in Jobs
        /\ IsMeta(c) => MetaFrame(c)
        /\ ~ IsMeta(c) => InfraFrame(c)
    BY <1>2, Zenon DEF Inv, Types, FramesRight
  <2>2. CASE x = Universe /\ "UNIVERSE" \in options
    BY <1>9, <2>1, <2>2, UniverseLands DEF Inv
  <2>3. CASE ~ IsMeta(c) /\ super[c[1]] # None /\ x = Infra(super[c[1]])
    <3>1. c[1] \in Infras /\ c = Infra(c[1]) /\ super[c[1]] \in Infras
      BY <1>2, <2>3, Kinds DEF Inv, Types
    <3>2. OnWay(super[c[1]])
      BY <2>1, <2>3, <3>1 DEF Inv, Progress, InfraFrame
    <3>3. "INFRACLASS" \in options
      BY <2>1, <2>3 DEF Inv, Types, InfraFrame
    <3> QED BY <2>3, <3>1, <3>2, <3>3, InfraPromised DEF Inv, Lands
  <2>4. CASE ~ IsMeta(c) /\ "METACLASS" \in options /\ x = Meta(c[1])
    <3>1. c[1] \in Infras
      BY <1>2, Kinds
    <3> QED BY <2>1, <2>4, <3>1 DEF InfraFrame, Promised, Lands
  <2>5. CASE IsMeta(c) /\ {"METACLASS", "INFRACLASS"} \subseteq options /\ x = Infra(c[1])
    BY <2>1, <2>5 DEF MetaFrame, Promised, Lands
  <2> QED BY <2>2, <2>3, <2>4, <2>5 DEF HeadTargets
<1>11. Drawing(HeadTargets(c))
  <2>1. \A x \in Class : InFull(x)' => InFull(x) \/ OnStack(x)
    BY <1>2, <1>6 DEF Same, Drawable
  <2>2. \A k \in DOMAIN stack' : OnStack(stack'[k].cls)
    BY <1>4 DEF OnStack
  <2>3. known' \in Seq(Pointer) /\ out' \in Seq(Item)
    BY <1>1, <1>6 DEF Inv, Types, TypeOK, Grows
  <2> QED BY <1>1, <1>4, <1>6, <1>7, <1>10, <2>1, <2>2, <2>3 DEF Drawing
<1>12. Once'
  <2> SUFFICES ASSUME NEW x \in Drawable, MayRepeat(x) \/ Single(x)
               PROVE  (MayRepeat(x) \/ Single(x))'
    BY <1>9 DEF Inv, Once, Drawable
  <2>1. CASE MayRepeat(x)
    BY <1>1, <2>1 DEF MayRepeat
  <2>2. CASE Single(x) /\ x # c
    <3>1. NodesOf(x)' = NodesOf(x) /\ (Coming(x)' <=> Coming(x)) /\ (Declared(x)' <=> Declared(x))
      BY <1>6, <1>8, <2>2 DEF Same, Declared
    <3>2. \A k \in DOMAIN stack : stack[k].cls = x => k # n
      BY <1>2, <2>2
    <3> QED BY <1>1, <1>4, <2>2, <3>1, <3>2 DEF Single
  <2>3. CASE Single(x) /\ x = c
    <3>1. NodesOf(x) = {} /\ x \in Elements(known)
      BY <1>2, <2>3 DEF Single, Coming, Declared
    <3>2. \A i, j \in NodesOf(x)' : i = j
      BY <1>6, <2>3, <3>1 DEF OneMore
    <3>3. \A i, j \in DOMAIN stack' : stack'[i].cls = x /\ stack'[j].cls = x => i = j
      BY <1>4, <2>3 DEF Single
    <3>4. \A i \in DOMAIN stack' : stack'[i].cls = x => stack'[i].at # "head"
      BY <1>2, <1>3, <1>4, <2>3 DEF Single
    <3> QED BY <1>1, <3>1, <3>2, <3>3, <3>4 DEF Single
  <2> QED BY <2>1, <2>2, <2>3
<1>13. FramesRight'
  <2> SUFFICES ASSUME NEW k \in DOMAIN stack, NEW x, x = stack[k].cls
               PROVE  /\ stack'[k].at # "head" => Declared(x)'
                      /\ stack'[k].at = "mixins" => "MIXINS" \in options'
                      /\ (IF IsMeta(x) THEN MetaFrame(x) ELSE InfraFrame(x))'
    BY <1>4 DEF FramesRight
  <2>1. (IF IsMeta(x) THEN MetaFrame(x) ELSE InfraFrame(x))'
    BY <1>1, <1>7, FramesKept DEF Inv
  <2>2. CASE k = n
    BY <1>1, <1>2, <1>3, <1>4, <1>6, <2>1, <2>2 DEF OneMore
  <2>3. CASE k # n
    BY <1>1, <1>4, <1>6, <2>1, <2>3 DEF Inv, FramesRight, Grows
  <2> QED BY <2>2, <2>3
<1> QED BY <1>1, <1>11, <1>12, <1>13, DrawStep

LEMMA DrawTailStep ==
  ASSUME DotDumpAssumption, Inv, DrawTail
  PROVE  Inv'
<1>0. PICK c, n : c = Top.cls /\ n = Len(stack)
  OBVIOUS
<1>1. /\ stack # <<>> /\ Top.at # "head"
      /\ out' = out \o TailItems(c) /\ stack' = SubSeq(stack, 1, n - 1)
      /\ UNCHANGED <<runtime, options, known, cls, pairs, walk, pc>>
  BY <1>0 DEF DrawTail, At, Rest
<1>2. /\ n \in Nat /\ n \in DOMAIN stack /\ DOMAIN stack = 1 .. n
      /\ stack[n].cls = c /\ stack[n].at # "head" /\ c \in Class
  BY <1>0, <1>1, StackTop DEF Inv
<1>3. /\ stack' \in Seq(Activation) /\ DOMAIN stack' = 1 .. n - 1
      /\ \A k \in DOMAIN stack' : k \in DOMAIN stack /\ stack'[k] = stack[k]
      /\ \A k \in DOMAIN stack : k \in DOMAIN stack' \/ k = n
  <2>1. stack \in Seq(Activation) /\ n = Len(stack)
    BY <1>0 DEF Inv, Types
  <2>2. 1 .. n = DOMAIN stack /\ n \in Nat
    BY <1>2
  <2> QED BY <1>1, <2>1, <2>2
<1>4. out \in Seq(Item)
  BY DEF Inv, Types
<1>5. Grows({}) /\ \A y \in Drawable : Same(y)
  BY <1>1, <1>2, <1>4, TailExtra, OutExtra
<1>6. Declared(c)
  BY <1>2 DEF Inv, FramesRight
<1>7. \A x : Coming(x) => Coming(x)'
  <2>1. \A x : Declared(x) => Declared(x)'
    BY <1>5 DEF Grows
  <2>2. \A x : OnStack(x) => (\E k \in DOMAIN stack' : stack'[k].cls = x) \/ x = c
    BY <1>2, <1>3 DEF OnStack
  <2> QED BY <1>6, <2>1, <2>2 DEF Coming, OnStack
<1>8. \A y \in Drawable : /\ NodesOf(y)' = NodesOf(y) /\ (Declared(y)' <=> Declared(y))
                          /\ (InFull(y)' <=> InFull(y))
  BY <1>5, Zenon DEF Same, Declared
<1>9. job.dump # "universe" /\ UNCHANGED job
  BY <1>1 DEF Inv, Ways, runtime
<1>10. Drawing({})
  <2>1. \A x \in Class : InFull(x)' => InFull(x) \/ OnStack(x)
    BY <1>8 DEF Drawable
  <2>2. \A k \in DOMAIN stack' : OnStack(stack'[k].cls)
    BY <1>3 DEF OnStack
  <2>3. known' \in Seq(Pointer) /\ out' \in Seq(Item)
    BY <1>1, <1>5 DEF Inv, Types, TypeOK, Grows
  <2> QED BY <1>1, <1>3, <1>5, <1>7, <2>1, <2>2, <2>3 DEF Drawing
<1>11. Once'
  <2> SUFFICES ASSUME NEW x \in Drawable, MayRepeat(x) \/ Single(x)
               PROVE  (MayRepeat(x) \/ Single(x))'
    BY <1>9 DEF Inv, Once, Drawable
  <2>1. CASE MayRepeat(x)
    BY <1>1, <2>1 DEF MayRepeat
  <2>2. CASE Single(x)
    <3>1. Coming(x)' => Coming(x)
      BY <1>3, <1>8 DEF Coming
    <3> QED BY <1>1, <1>3, <1>8, <2>2, <3>1 DEF Single
  <2> QED BY <2>1, <2>2
<1>12. FramesRight'
  <2> SUFFICES ASSUME NEW k \in DOMAIN stack, NEW x, x = stack[k].cls
               PROVE  /\ stack[k].at # "head" => Declared(x)'
                      /\ stack[k].at = "mixins" => "MIXINS" \in options'
                      /\ (IF IsMeta(x) THEN MetaFrame(x) ELSE InfraFrame(x))'
    BY <1>3 DEF FramesRight
  <2>1. (IF IsMeta(x) THEN MetaFrame(x) ELSE InfraFrame(x))'
    BY <1>1, <1>7, FramesKept DEF Inv
  <2> QED BY <1>1, <1>5, <2>1 DEF Inv, FramesRight, Grows
<1> QED BY <1>1, <1>10, <1>11, <1>12, DrawStep
\* the frames below what a step adds stay what they were, but for next
SameFrames(f) ==
  /\ f \in Seq(Activation) /\ DOMAIN f = DOMAIN stack
  /\ \A k \in DOMAIN stack : f[k].cls = stack[k].cls /\ f[k].at = stack[k].at

LEMMA SameFramesOnce ==
  ASSUME NEW x, Single(x), SameFrames(stack'), NodesOf(x)' = NodesOf(x),
         Elements(known) \subseteq Elements(known')
  PROVE  Single(x)'
<1>1. Coming(x)' => Coming(x)
  BY DEF Coming, Declared, SameFrames
<1> QED BY <1>1 DEF Single, SameFrames, Declared

LEMMA SameFramesRight ==
  ASSUME FramesRight, UNCHANGED <<options, walk>>, SameFrames(stack'),
         Elements(known) \subseteq Elements(known'),
         \A x : Coming(x) => Coming(x)', \A x : Declared(x) => Declared(x)'
  PROVE  FramesRight'
<1> SUFFICES ASSUME NEW k \in DOMAIN stack, NEW x, x = stack[k].cls
             PROVE  /\ stack[k].at # "head" => Declared(x)'
                    /\ stack[k].at = "mixins" => "MIXINS" \in options'
                    /\ (IF IsMeta(x) THEN MetaFrame(x) ELSE InfraFrame(x))'
  BY DEF FramesRight, SameFrames
<1>1. (IF IsMeta(x) THEN MetaFrame(x) ELSE InfraFrame(x))'
  BY FramesKept
<1> QED BY <1>1 DEF FramesRight

\* the edge to the mixin m, and what is known of the activation that draws it
MixinEdge(c, m, f) ==
  /\ stack # <<>> /\ c \in Class /\ m \in MixinClasses /\ OnStack(c)
  /\ SameFrames(f)
  /\ "MIXINS" \in options
  /\ "INFRACLASS" \in options \/ MayBeMissing(Infra(m))
  /\ "INFRACLASS" \in options \/ {"METACLASS", "MIXINS"} \subseteq options
  /\ job.dump # "universe"
  /\ UNCHANGED <<runtime, options, cls, pairs, walk, pc>>

LEMMA MixinKnownStep ==
  ASSUME DotDumpAssumption, Inv, NEW c, NEW m, MixinEdge(c, m, stack'),
         Infra(m) \in Elements(known), UNCHANGED known,
         out' = out \o Edge(c, Infra(m), "mixin")
  PROVE  Inv'
<1>1. /\ stack # <<>> /\ c \in Class /\ m \in MixinClasses
      /\ SameFrames(stack')
      /\ "INFRACLASS" \in options \/ MayBeMissing(Infra(m))
      /\ job.dump # "universe"
      /\ UNCHANGED <<runtime, options, cls, pairs, walk, pc>>
  BY DEF MixinEdge
<1>2. m \in Infras /\ Infra(m) \in Thing /\ c \in Thing
  BY <1>1, Kinds DEF DotDumpAssumption
<1>3. Extra(Edge(c, Infra(m), "mixin"), {Infra(m)})
  BY <1>2, EdgeExtra DEF Label
<1>4. out \in Seq(Item)
  BY DEF Inv, Types
<1>5. Grows({Infra(m)}) /\ \A y \in Drawable : Same(y)
  BY <1>3, <1>4, OutExtra
<1>6. \A x : Coming(x) => Coming(x)'
  BY <1>1, <1>5 DEF Grows, Coming, SameFrames
<1>7. Drawing({Infra(m)})
  <2>1. \A x \in Class : InFull(x)' => InFull(x) \/ OnStack(x)
    BY <1>5 DEF Same, Drawable
  <2>2. \A k \in DOMAIN stack' : OnStack(stack'[k].cls)
    BY <1>1 DEF OnStack, SameFrames
  <2>3. known' \in Seq(Pointer) /\ out' \in Seq(Item)
    BY <1>5 DEF Inv, Types, TypeOK, Grows
  <2>4. Lands(Infra(m))
    BY <1>1, <1>2 DEF Inv, KnownDrawn, Promised, Lands
  <2> QED BY <1>1, <1>5, <1>6, <2>1, <2>2, <2>3, <2>4 DEF Drawing, SameFrames
<1>8. Once'
  <2> SUFFICES ASSUME NEW x \in Drawable, MayRepeat(x) \/ Single(x)
               PROVE  (MayRepeat(x) \/ Single(x))'
    BY <1>1 DEF Inv, Once, Drawable, runtime
  <2>1. CASE MayRepeat(x)
    BY <1>1, <2>1 DEF MayRepeat
  <2>2. CASE Single(x)
    BY <1>1, <1>5, <2>2, SameFramesOnce DEF Same
  <2> QED BY <2>1, <2>2
<1>9. FramesRight'
  <2>1. \A x : Declared(x) => Declared(x)'
    BY <1>5 DEF Grows
  <2> QED BY <1>1, <1>6, <2>1, SameFramesRight DEF Inv
<1> QED BY <1>1, <1>7, <1>8, <1>9, DrawStep

LEMMA MixinLinkStep ==
  ASSUME DotDumpAssumption, Inv, NEW c, NEW m, MixinEdge(c, m, stack'),
         Infra(m) \notin Elements(known), known' = Append(known, Infra(m)),
         out' = out \o Edge(c, Infra(m), "mixin") \o HyperInfraItems(Infra(m))
  PROVE  Inv'
<1> DEFINE p == Infra(m)
           T == {p} \union HyperTargets(p)
           e == Edge(c, p, "mixin")
           h == HyperInfraItems(p)
<1>1. /\ stack # <<>> /\ c \in Class /\ m \in MixinClasses
      /\ SameFrames(stack')
      /\ job.dump # "universe"
      /\ UNCHANGED <<runtime, options, cls, pairs, walk, pc>>
  BY DEF MixinEdge
<1>2. /\ m \in Infras /\ p \in Thing /\ c \in Thing /\ p \in Class /\ ~ IsMeta(p)
      /\ p \in Pointer /\ p \in Drawable /\ super[m] = None /\ p[1] = m
  BY <1>1, Kinds DEF DotDumpAssumption, Drawable, Inv, Types
<1>3. One(h, p, "hyper", HyperTargets(p))
  BY <1>2, HyperOne DEF Inv
<1>4. One(h, p, "hyper", T)
  BY <1>3 DEF One
<1>5. out \in Seq(Item) /\ known \in Seq(Pointer)
  BY DEF Inv, Types, TypeOK
<1>6. known' \in Seq(Pointer) /\ Elements(known') = Elements(known) \union {p}
  BY <1>2, <1>5, ElementsOfAppend
<1>7. \A x \in T : x = p \/ (x = Universe /\ "UNIVERSE" \in options)
  BY <1>2 DEF HyperTargets
<1>8. p \in T
  OBVIOUS
<1> HIDE DEF T, h
<1>9. Extra(e, T)
  BY <1>2, <1>8, EdgeExtra DEF Label
<1> HIDE DEF e
<1>10. One(e \o h, p, "hyper", T)
  BY <1>4, <1>9, ExtraOne
<1>11. out' = out \o (e \o h)
  <2>1. e \in Seq(Item) /\ h \in Seq(Item) /\ out' = (out \o e) \o h
    BY <1>4, <1>9 DEF Extra, One, e, h
  <2>2. (out \o e) \o h = out \o (e \o h)
    BY <1>5, <2>1, ConcatAssociative
  <2> QED BY <2>1, <2>2
<1>12. /\ Grows(T) /\ OneMore(p, "hyper")
       /\ \A y \in Drawable : y # p => Same(y)
  BY <1>2, <1>5, <1>10, <1>11, OutOne
<1> HIDE DEF p
<1>13. \A x : Coming(x) => Coming(x)'
  BY <1>1, <1>12 DEF Grows, Coming, SameFrames
<1>14. Coming(p)'
  BY <1>12 DEF OneMore, Coming
<1>15. Drawing(T)
  <2>1. \A x \in Class : InFull(x)' => InFull(x) \/ OnStack(x)
    BY <1>12 DEF OneMore, Same, Drawable
  <2>2. \A k \in DOMAIN stack' : OnStack(stack'[k].cls)
    BY <1>1 DEF OnStack, SameFrames
  <2>3. \A q \in Elements(known') \ Elements(known) :
          Coming(q)' /\ \E l \in MixinClasses : q = Infra(l)
    BY <1>1, <1>6, <1>14 DEF p
  <2>4. "UNIVERSE" \in options => Lands(Universe)
    BY <1>1, UniverseLands DEF Inv, Types
  <2>5. \A x \in T : Lands(x) \/ Coming(x)'
    BY <1>7, <1>14, <2>4
  <2>6. out' \in Seq(Item) /\ stack' \in Seq(Activation)
    BY <1>1, <1>12 DEF Grows, SameFrames
  <2> QED BY <1>1, <1>6, <1>12, <1>13, <2>1, <2>2, <2>3, <2>5, <2>6 DEF Drawing
<1>16. Once'
  <2> SUFFICES ASSUME NEW x \in Drawable, MayRepeat(x) \/ Single(x)
               PROVE  (MayRepeat(x) \/ Single(x))'
    BY <1>1 DEF Inv, Once, Drawable, runtime
  <2>1. CASE MayRepeat(x)
    BY <1>1, <2>1 DEF MayRepeat
  <2>2. CASE Single(x) /\ x # p
    BY <1>1, <1>6, <1>12, <2>2, SameFramesOnce DEF Same
  <2>3. CASE Single(x) /\ x = p
    <3>1. NodesOf(x) = {} /\ \A k \in DOMAIN stack : stack[k].cls # x
      BY <2>3 DEF Single, Coming, Declared, p
    <3>2. \A i, j \in NodesOf(x)' : i = j
      BY <1>12, <2>3, <3>1 DEF OneMore
    <3>3. \A k \in DOMAIN stack' : stack'[k].cls # x
      BY <1>1, <3>1 DEF SameFrames
    <3> QED BY <1>6, <2>3, <3>2, <3>3 DEF Single
  <2> QED BY <2>1, <2>2, <2>3
<1>17. FramesRight'
  <2>1. \A x : Declared(x) => Declared(x)'
    BY <1>12 DEF Grows
  <2> QED BY <1>1, <1>6, <1>13, <2>1, SameFramesRight DEF Inv
<1> QED BY <1>1, <1>15, <1>16, <1>17, DrawStep
\* the stack is f and the activations of the metaclass, if it is shown, and of
\* the infraclass of m
MixinFrames(f, m) ==
  /\ stack' \in Seq(Activation)
  /\ \A k \in DOMAIN f : k \in DOMAIN stack' /\ stack'[k] = f[k]
  /\ \E n \in DOMAIN stack' \ DOMAIN f :
       /\ stack'[n] = Frame(Infra(m))
       /\ \A k \in DOMAIN stack' : \/ k \in DOMAIN f \/ k = n
                                   \/ "METACLASS" \in options /\ stack'[k] = Frame(Meta(m))
  /\ "METACLASS" \in options => \E k \in DOMAIN stack' : stack'[k] = Frame(Meta(m))

LEMMA MixinFramesAre ==
  ASSUME DotDumpAssumption, NEW m \in Infras, NEW f \in Seq(Activation),
         stack' = f \o When("METACLASS" \in options, <<Frame(Meta(m))>>) \o <<Frame(Infra(m))>>
  PROVE  MixinFrames(f, m)
<1> DEFINE w == When("METACLASS" \in options, <<Frame(Meta(m))>>)
           l == <<Frame(Infra(m))>>
           g == f \o w
<1>1. Meta(m) \in Class /\ Infra(m) \in Class
  BY Kinds
<1>2. /\ l \in Seq(Activation) /\ DOMAIN l = {1} /\ l[1] = Frame(Infra(m))
      /\ <<Frame(Meta(m))>> \in Seq(Activation)
      /\ DOMAIN <<Frame(Meta(m))>> = {1} /\ <<Frame(Meta(m))>>[1] = Frame(Meta(m))
  BY <1>1, FrameType
<1>3. /\ w \in Seq(Activation)
      /\ "METACLASS" \in options => DOMAIN w = {1} /\ w[1] = Frame(Meta(m))
      /\ "METACLASS" \notin options => DOMAIN w = {}
  <2>1. CASE "METACLASS" \in options
    BY <1>2, <2>1, Zenon DEF When
  <2>2. CASE "METACLASS" \notin options
    <3>1. w = <<>>
      BY <2>2, Zenon DEF When
    <3> HIDE DEF w
    <3> QED BY <2>2, <3>1
  <2> QED BY <2>1, <2>2
<1>4. stack' = g \o l
  OBVIOUS
<1> HIDE DEF w, l
<1>5. g \in Seq(Activation) /\ Joined(f, w, g)
  BY <1>3, Concat
<1> HIDE DEF g
<1>6. stack' \in Seq(Activation) /\ Joined(g, l, stack')
  BY <1>2, <1>4, <1>5, Concat
<1> DEFINE n == Len(g) + 1
<1>7. n \in DOMAIN stack' \ DOMAIN g /\ stack'[n] = Frame(Infra(m))
  BY <1>2, <1>6 DEF Joined
<1>8. \A k \in DOMAIN f : k \in DOMAIN g /\ k \in DOMAIN stack' /\ stack'[k] = f[k]
  BY <1>5, <1>6 DEF Joined
<1>9. ASSUME NEW k \in DOMAIN stack', k \notin DOMAIN g PROVE k = n
  BY <1>2, <1>6, <1>9 DEF Joined
<1>10. ASSUME NEW k \in DOMAIN g, k \notin DOMAIN f
       PROVE  "METACLASS" \in options /\ stack'[k] = Frame(Meta(m))
  <2>1. PICK j \in DOMAIN w : k = Len(f) + j
    BY <1>5, <1>10, Zenon DEF Joined
  <2>2. g[k] = w[j] /\ stack'[k] = g[k]
    BY <1>5, <1>6, <2>1 DEF Joined
  <2> QED BY <1>3, <2>1, <2>2
<1>11. ASSUME "METACLASS" \in options PROVE \E k \in DOMAIN stack' : stack'[k] = Frame(Meta(m))
  <2>1. Len(f) + 1 \in DOMAIN g /\ g[Len(f) + 1] = Frame(Meta(m))
    BY <1>3, <1>5, <1>11 DEF Joined
  <2> QED BY <1>6, <2>1 DEF Joined
<1> HIDE DEF n
<1> QED BY <1>6, <1>7, <1>8, <1>9, <1>10, <1>11, Zenon DEF MixinFrames

LEMMA MixinFullStep ==
  ASSUME DotDumpAssumption, Inv, NEW c, NEW m, NEW f, MixinEdge(c, m, f),
         Infra(m) \notin Elements(known), known' = Append(known, Infra(m)),
         "MIXIN_HYPERLINK" \notin options,
         out' = out \o Edge(c, Infra(m), "mixin"), MixinFrames(f, m)
  PROVE  Inv'
<1> DEFINE p == Infra(m)
<1>1. /\ stack # <<>> /\ c \in Class /\ m \in MixinClasses
      /\ SameFrames(f)
      /\ "MIXINS" \in options
      /\ "INFRACLASS" \in options \/ {"METACLASS", "MIXINS"} \subseteq options
      /\ job.dump # "universe"
      /\ UNCHANGED <<runtime, options, cls, pairs, walk, pc>>
  BY DEF MixinEdge
<1>2. /\ m \in Infras /\ p \in Thing /\ c \in Thing /\ p \in Class /\ ~ IsMeta(p)
      /\ p \in Pointer /\ p \in Drawable /\ p[1] = m
      /\ Meta(m) \in Class /\ IsMeta(Meta(m)) /\ Meta(m)[1] = m
  BY <1>1, Kinds DEF DotDumpAssumption, Drawable
<1>3. out \in Seq(Item) /\ known \in Seq(Pointer)
  BY DEF Inv, Types, TypeOK
<1>4. known' \in Seq(Pointer) /\ Elements(known') = Elements(known) \union {p}
  BY <1>2, <1>3, ElementsOfAppend
<1>5. Extra(Edge(c, p, "mixin"), {p})
  BY <1>2, EdgeExtra DEF Label
<1>6. Grows({p}) /\ \A y \in Drawable : Same(y)
  BY <1>3, <1>5, OutExtra
<1>7. /\ Frame(p).cls = p /\ Frame(p).at = "head"
      /\ Frame(Meta(m)).cls = Meta(m) /\ Frame(Meta(m)).at = "head"
  BY DEF Frame
<1> HIDE DEF p
<1>8. PICK n \in DOMAIN stack' \ DOMAIN f :
        /\ stack'[n] = Frame(p)
        /\ \A k \in DOMAIN stack' : \/ k \in DOMAIN f \/ k = n
                                    \/ "METACLASS" \in options /\ stack'[k] = Frame(Meta(m))
  BY DEF MixinFrames, p
<1>9. /\ DOMAIN f = DOMAIN stack
      /\ \A k \in DOMAIN stack : /\ k \in DOMAIN stack'
                                 /\ stack'[k].cls = stack[k].cls /\ stack'[k].at = stack[k].at
      /\ "METACLASS" \in options => \E k \in DOMAIN stack' : stack'[k] = Frame(Meta(m))
      /\ stack' \in Seq(Activation)
  BY <1>1 DEF SameFrames, MixinFrames
<1> HIDE DEF Frame
<1>10. /\ \A x : Declared(x) => Declared(x)'
       /\ \A x : Coming(x) => Coming(x)'
  BY <1>6, <1>9 DEF Grows, Coming
<1>11. /\ Coming(p)'
       /\ "METACLASS" \in options => Coming(Meta(m))'
  BY <1>7, <1>8, <1>9 DEF Coming
<1>12. Drawing({p})
  <2>1. \A x \in Class : InFull(x)' => InFull(x) \/ OnStack(x)
    BY <1>6 DEF Same, Drawable
  <2>2. ASSUME NEW k \in DOMAIN stack'
        PROVE  \/ OnStack(stack'[k].cls)
               \/ stack'[k].cls[1] \in MixinClasses /\ "MIXIN_HYPERLINK" \notin options
    <3>1. CASE k \in DOMAIN f
      BY <1>9, <3>1 DEF OnStack
    <3>2. CASE k \notin DOMAIN f
      <4>1. stack'[k].cls = p \/ stack'[k].cls = Meta(m)
        BY <1>7, <1>8, <2>2, <3>2
      <4> QED BY <1>1, <1>2, <4>1
    <3> QED BY <3>1, <3>2
  <2>3. \A q \in Elements(known') \ Elements(known) :
          Coming(q)' /\ \E l \in MixinClasses : q = Infra(l)
    BY <1>1, <1>4, <1>11 DEF p
  <2>4. out' \in Seq(Item)
    BY <1>6 DEF Grows
  <2> QED BY <1>1, <1>4, <1>6, <1>9, <1>10, <1>11, <2>1, <2>2, <2>3, <2>4 DEF Drawing
<1>13. Once'
  <2> SUFFICES ASSUME NEW x \in Drawable, MayRepeat(x) \/ Single(x)
               PROVE  (MayRepeat(x) \/ Single(x))'
    BY <1>1 DEF Inv, Once, Drawable, runtime
  <2>1. CASE MayRepeat(x)
    BY <1>1, <2>1 DEF MayRepeat
  <2>2. x = Meta(m) => MayRepeat(x)
    BY <1>1 DEF MayRepeat, Meta
  <2>3. NodesOf(x)' = NodesOf(x) /\ (Declared(x)' <=> Declared(x))
    BY <1>6 DEF Same, Declared
  <2>4. CASE Single(x) /\ x # p /\ x # Meta(m)
    <3>1. \A k \in DOMAIN stack' : stack'[k].cls = x => k \in DOMAIN stack
      BY <1>7, <1>8, <1>9, <2>4
    <3>2. Coming(x)' => Coming(x)
      BY <1>9, <2>3, <3>1 DEF Coming
    <3> QED BY <1>4, <1>9, <2>3, <2>4, <3>1, <3>2 DEF Single
  <2>5. CASE Single(x) /\ x = p
    <3>1. ~ Declared(x) /\ \A k \in DOMAIN stack : stack[k].cls # x
      BY <2>5 DEF Single, Coming, p
    <3>2. p # Meta(m)
      BY <1>2
    <3>3. \A k \in DOMAIN stack' : stack'[k].cls = x => k = n
      BY <1>7, <1>8, <1>9, <2>5, <3>1, <3>2
    <3> QED BY <1>4, <2>3, <2>5, <3>1, <3>3 DEF Single
  <2> QED BY <2>1, <2>2, <2>4, <2>5
<1>14. FramesRight'
  <2> SUFFICES ASSUME NEW k \in DOMAIN stack', NEW x, x = stack'[k].cls
               PROVE  /\ stack'[k].at # "head" => Declared(x)'
                      /\ stack'[k].at = "mixins" => "MIXINS" \in options'
                      /\ (IF IsMeta(x) THEN MetaFrame(x) ELSE InfraFrame(x))'
    BY DEF FramesRight
  <2>1. CASE k \in DOMAIN stack
    <3>1. x = stack[k].cls
      BY <1>9, <2>1
    <3>2. (IF IsMeta(x) THEN MetaFrame(x) ELSE InfraFrame(x))'
      BY <1>1, <1>4, <1>10, <2>1, <3>1, FramesKept DEF Inv
    <3> QED BY <1>1, <1>9, <1>10, <2>1, <3>1, <3>2 DEF Inv, FramesRight
  <2>2. CASE k = n
    <3>1. x = p /\ stack'[k].at = "head"
      BY <1>7, <1>8, <2>2
    <3>2. InfraFrame(p)'
      BY <1>1, <1>2, <1>4, <1>11 DEF InfraFrame
    <3> QED BY <1>2, <3>1, <3>2
  <2>3. CASE "METACLASS" \in options /\ stack'[k] = Frame(Meta(m))
    <3>1. x = Meta(m) /\ stack'[k].at = "head"
      BY <1>7, <2>3
    <3>2. MetaFrame(Meta(m))'
      BY <1>1, <1>2, <1>11, <2>3 DEF MetaFrame, p
    <3> QED BY <1>2, <3>1, <3>2
  <2> QED BY <1>8, <1>9, <2>1, <2>2, <2>3
<1> QED BY <1>1, <1>12, <1>13, <1>14, DrawStep

LEMMA DrawMixinStep ==
  ASSUME DotDumpAssumption, MemberExact, Inv, DrawMixin
  PROVE  Inv'
<1>1. stack # <<>> /\ Top.at = "mixins" /\ Top.next \in DOMAIN mixins[Top.cls[1]]
  BY DEF DrawMixin, At
<1>2. PICK c, m, f : /\ c = Top.cls /\ m = mixins[c[1]][Top.next]
                     /\ f = [stack EXCEPT ![Len(stack)].next = Top.next + 1]
  OBVIOUS
<1>3. /\ IF IsMember(known, Infra(m))
           THEN stack' = f /\ out' = out \o Edge(c, Infra(m), "mixin") /\ UNCHANGED known
           ELSE /\ known' = Append(known, Infra(m))
                /\ IF "MIXIN_HYPERLINK" \in options
                     THEN /\ stack' = f
                          /\ out' = out \o Edge(c, Infra(m), "mixin") \o HyperInfraItems(Infra(m))
                     ELSE /\ out' = out \o Edge(c, Infra(m), "mixin")
                          /\ stack' = f \o When("METACLASS" \in options, <<Frame(Meta(m))>>)
                                        \o <<Frame(Infra(m))>>
      /\ UNCHANGED <<runtime, options, cls, pairs, walk, pc>>
  BY <1>2 DEF DrawMixin
<1> DEFINE n == Len(stack)
<1>4. /\ n \in Nat /\ n \in DOMAIN stack /\ DOMAIN stack = 1 .. n /\ stack \in Seq(Activation)
      /\ Top = stack[n] /\ Top \in Activation /\ c \in Class /\ OnStack(c)
  BY <1>1, <1>2, StackTop DEF Inv, Types
<1>5. /\ c[1] \in Infras /\ mixins[c[1]] \in MixinLists
      /\ Top.next \in Nat /\ MaxMixins \in Nat
  BY <1>4, Kinds DEF Inv, Types, Activation, DotDumpAssumption
<1>6. m \in MixinClasses /\ Top.next + 1 \in 1 .. MaxMixins + 1
  <2>1. PICK l \in 0 .. MaxMixins : mixins[c[1]] \in [1 .. l -> MixinClasses]
    BY <1>5 DEF MixinLists
  <2>2. Top.next \in 1 .. l /\ m \in MixinClasses
    BY <1>1, <1>2, <2>1
  <2> QED BY <1>5, <2>2
<1>7. SameFrames(f)
  <2> DEFINE a == [stack[n] EXCEPT !.next = Top.next + 1]
  <2>1. a \in Activation /\ a.cls = stack[n].cls /\ a.at = stack[n].at
    BY <1>4, <1>6, ActivationChanged
  <2>2. f = [stack EXCEPT ![n] = a]
    BY <1>2
  <2> HIDE DEF a
  <2> QED BY <1>4, <2>1, <2>2 DEF SameFrames
<1> HIDE DEF n
<1>8. MixinEdge(c, m, f)
  <2>1. /\ "MIXINS" \in options
        /\ IsMeta(c) => MetaFrame(c)
        /\ ~ IsMeta(c) => InfraFrame(c)
    BY <1>1, <1>2, <1>4 DEF Inv, FramesRight
  <2>2. "INFRACLASS" \in options \/ {"METACLASS", "MIXINS"} \subseteq options
    BY <2>1 DEF MetaFrame, InfraFrame
  <2>3. job.dump # "universe"
    BY <1>1 DEF Inv, Ways
  <2>4. "INFRACLASS" \in options \/ MayBeMissing(Infra(m))
    BY <1>6, <2>2, <2>3, MixinLands DEF Inv
  <2> QED BY <1>1, <1>3, <1>4, <1>6, <1>7, <2>1, <2>2, <2>3, <2>4 DEF MixinEdge
<1>9. m \in Infras /\ (IsMember(known, Infra(m)) <=> Infra(m) \in Elements(known))
  <2>1. m \in Infras /\ Infra(m) \in Pointer /\ known \in Seq(Pointer)
    BY <1>6, Kinds DEF DotDumpAssumption, Inv, Types, TypeOK
  <2> QED BY <2>1 DEF MemberExact
<1>10. CASE IsMember(known, Infra(m))
  BY <1>3, <1>8, <1>9, <1>10, MixinKnownStep
<1>11. CASE ~ IsMember(known, Infra(m)) /\ "MIXIN_HYPERLINK" \in options
  BY <1>3, <1>8, <1>9, <1>11, MixinLinkStep
<1>12. CASE ~ IsMember(known, Infra(m)) /\ "MIXIN_HYPERLINK" \notin options
  <2>1. MixinFrames(f, m)
    BY <1>3, <1>7, <1>9, <1>12, MixinFramesAre DEF SameFrames
  <2> QED BY <1>3, <1>8, <1>9, <1>12, <2>1, MixinFullStep
<1> QED BY <1>10, <1>11, <1>12
-------------------------------------------------------------------------------
LEMMA InitInv ==
  ASSUME DotDumpAssumption, Init
  PROVE  Inv
<1>1. /\ InitRuntime /\ job \in Jobs /\ options = InitialOptions(job)
      /\ known = <<>> /\ stack = <<>> /\ out = <<>> /\ cls = job.start /\ pc = "walking"
      /\ pairs = IF job.dump = "overview" THEN Infras ELSE {}
      /\ walk = IF job.dump = "overview" THEN <<Universe>> ELSE <<>>
  BY DEF Init
<1>2. /\ super \in [Infras -> Infras \union {None}]
      /\ \A m \in MixinClasses : super[m] = None
      /\ mixins \in [Infras -> MixinLists]
  BY <1>1 DEF InitRuntime
<1>3. job.start \in Class \union {None} /\ (job.dump # "class" => job.start = None)
  BY <1>1 DEF Jobs, Overview
<1>4. Types
  <2>1. SHOW_DEFAULT \union HYPERLINK \in SUBSET (SHOW_ALL \union HYPERLINK)
    BY DEF SHOW_DEFAULT
  <2>2. options \in SUBSET (SHOW_ALL \union HYPERLINK)
    <3>1. CASE job = Overview
      BY <1>1, <2>1, <3>1 DEF Overview, InitialOptions
    <3>2. CASE job \in [dump : {"universe"}, start : {None}, argument : SUBSET {"STRINGS", "SELECTORS"}]
      BY <1>1, <3>2 DEF InitialOptions, SHOW_DEFAULT, SHOW_ALL, UniverseTables
    <3>3. CASE job \in [dump : {"class"}, start : Class, argument : OptionArguments]
      <4>1. options = (IF job.argument = {} THEN SHOW_DEFAULT \ {"UNIVERSE"} ELSE job.argument)
                      \ {"CLASS_HYPERLINK"}
        BY <1>1, <3>3 DEF InitialOptions
      <4>2. job.argument \in SUBSET (SHOW_ALL \union HYPERLINK)
        BY <3>3 DEF DotDumpAssumption
      <4> QED BY <2>1, <4>1, <4>2
    <3> QED BY <1>1, <3>1, <3>2, <3>3 DEF Jobs
  <2>3. /\ <<>> \in Seq(Pointer) /\ <<>> \in Seq(Item) /\ <<>> \in Seq(Activation)
        /\ \A S : DOMAIN <<>> = {}
        /\ <<Universe>> \in Seq(Pointer)
    BY Kinds
  <2>4. pairs \in SUBSET Infras /\ walk \in Seq(Pointer)
    BY <1>1, <2>3
  <2> QED BY <1>1, <1>2, <1>3, <2>2, <2>3, <2>4 DEF Types, TypeOK
<1>5. OptionsRight /\ Walking
  BY <1>1 DEF OptionsRight, Walking
<1>6. Ways
  BY <1>1, <1>3 DEF Ways
<1>7. \A x : NodesOf(x) = {} /\ ~ Declared(x) /\ ~ InFull(x) /\ ~ Coming(x)
  BY <1>1 DEF NodesOf, Declared, InFull, Coming
<1>8. Once
  BY <1>1, <1>7 DEF Once, Single
<1>9. Sparing
  BY <1>1, <1>7 DEF Sparing
<1>10. Elements(known) = {} /\ Elements(walk) = IF job.dump = "overview" THEN {Universe} ELSE {}
  BY <1>1, ShortElements
<1>11. Progress
  <2>1. \A i \in Infras : Infra(i) \notin Elements(known) \union Elements(walk)
    BY <1>10, Kinds
  <2>2. job.dump = "class" => job.start \in Class /\ cls # None
    BY <1>1, <1>4, JobType DEF DotDumpAssumption
  <2> QED BY <1>1, <1>10, <2>1, <2>2 DEF Progress, OnWay, Ahead
<1>12. KnownDrawn
  BY <1>10 DEF KnownDrawn
<1>13. FramesRight
  BY <1>1 DEF FramesRight
<1>14. EdgesPromised
  BY <1>1 DEF EdgesPromised
<1> QED BY <1>4, <1>5, <1>6, <1>8, <1>9, <1>11, <1>12, <1>13, <1>14 DEF Inv

LEMMA StutterStep ==
  ASSUME Inv, UNCHANGED vars
  PROVE  Inv'
<1>1. UNCHANGED <<super, mixins, closed, job, options, known, cls, pairs, walk, stack, out, pc>>
  BY DEF vars, runtime
<1>2. Types'
  BY <1>1 DEF Inv, Types, TypeOK
<1>3. OptionsRight' /\ Walking' /\ Ways'
  BY <1>1 DEF Inv, OptionsRight, InitialOptions, Walking, Ways, UniverseItems, UniverseTable
<1>4. /\ Grows({})
      /\ \A x : /\ NodesOf(x)' = NodesOf(x) /\ (Declared(x)' <=> Declared(x))
                /\ (InFull(x)' <=> InFull(x)) /\ (Coming(x)' <=> Coming(x))
  BY <1>1, QuietKeeps DEF Inv, Quiet, runtime
<1>5. \A x : (Requested(x)' <=> Requested(x)) /\ (MayRepeat(x)' <=> MayRepeat(x))
  BY <1>1 DEF Requested, MayRepeat
<1>6. Once'
  BY <1>1, QuietOnce DEF Inv, Quiet, runtime
<1>7. Sparing'
  <2>1. Sparing
    BY DEF Inv
  <2> QED BY <1>1, <1>4, <1>5, <2>1, Zenon DEF Sparing
<1>8. Progress'
  <2>1. \A x : OnWay(x)' <=> OnWay(x)
    BY <1>1 DEF OnWay, Ahead
  <2>2. Progress
    BY DEF Inv
  <2> QED BY <1>1, <2>1, <2>2, Zenon DEF Progress
<1>9. KnownDrawn'
  <2>1. KnownDrawn
    BY DEF Inv
  <2> QED BY <1>1, <1>4, <2>1, Zenon DEF KnownDrawn
<1>10. FramesRight'
  <2> SUFFICES ASSUME NEW k \in DOMAIN stack, NEW x, x = stack[k].cls
               PROVE  /\ stack[k].at # "head" => Declared(x)'
                      /\ stack[k].at = "mixins" => "MIXINS" \in options'
                      /\ (IF IsMeta(x) THEN MetaFrame(x) ELSE InfraFrame(x))'
    BY <1>1 DEF FramesRight
  <2>1. (IF IsMeta(x) THEN MetaFrame(x) ELSE InfraFrame(x))'
    BY <1>1, <1>4, FramesKept DEF Inv
  <2> QED BY <1>1, <1>4, <2>1 DEF Inv, FramesRight
<1>11. EdgesPromised'
  <2>1. \A x : Promised(x) => Promised(x)'
    BY <1>1, <1>4 DEF Promised, Ahead, MetaNext
  <2>2. EdgesPromised
    BY DEF Inv
  <2>3. \A x : MayBeMissing(x)' <=> MayBeMissing(x)
    BY <1>1, MissingKept
  <2> QED BY <1>4, <2>1, <2>2, <2>3, EdgesKept
<1> QED BY <1>2, <1>3, <1>6, <1>7, <1>8, <1>9, <1>10, <1>11 DEF Inv

\* The invariant holds of every state of a dump, if the set answers exactly.
THEOREM DotInductive ==
  ASSUME MemberExact
  PROVE  Spec => []Inv
<1>1. Init => Inv
  BY DotDumpAssumption, InitInv
<1>2. Inv /\ [Next]_vars => Inv'
  <2> SUFFICES ASSUME Inv, [Next]_vars PROVE Inv'
    OBVIOUS
  <2>1. CASE WalkPair
    BY <2>1, DotDumpAssumption, WalkPairStep
  <2>2. CASE WalkClass
    BY <2>2, DotDumpAssumption, WalkClassStep
  <2>3. CASE DumpUniverse
    BY <2>3, DotDumpAssumption, DumpUniverseStep
  <2>4. CASE Finish
    BY <2>4, FinishStep
  <2>5. CASE CallbackKnown
    BY <2>5, DotDumpAssumption, CallbackKnownStep
  <2>6. CASE VisitUniverse \/ VisitPair \/ VisitInfra \/ VisitMeta
    BY <2>6, DotDumpAssumption, VisitStep
  <2>7. CASE DrawHead
    BY <2>7, DotDumpAssumption, DrawHeadStep
  <2>8. CASE DrawMixin
    BY <2>8, DotDumpAssumption, DrawMixinStep
  <2>9. CASE DrawTail
    BY <2>9, DotDumpAssumption, DrawTailStep
  <2>10. CASE UNCHANGED vars
    BY <2>10, StutterStep
  <2> QED BY <2>1, <2>2, <2>3, <2>4, <2>5, <2>6, <2>7, <2>8, <2>9, <2>10 DEF Next
<1> QED BY <1>1, <1>2, PTL DEF Spec

(***************************************************************************)
(* Type correctness: the options stay the enum's, the set holds classes,   *)
(* pairs and the universe, and no activation runs past its mixins.         *)
(***************************************************************************)
THEOREM DotTypes ==
  ASSUME MemberExact
  PROVE  Spec => []TypeOK
<1>1. Inv => TypeOK
  BY DEF Inv, Types
<1> QED BY <1>1, DotInductive, PTL

(***************************************************************************)
(* However the superclasses and the mixins are laid out, info->set keeps a *)
(* class and the universe from being declared twice, but for the metaclass *)
(* of a mixin (lines 531-532).                                             *)
(***************************************************************************)
THEOREM DotDeclaredOnce ==
  ASSUME MemberExact
  PROVE  Spec => []DeclaredOnce
<1>1. ASSUME Inv, NEW x \in Drawable, ~ MayRepeat(x) PROVE Cardinality(NodesOf(x)) <= 1
  <2>1. \A i, j \in NodesOf(x) : i = j
    <3>1. CASE job.dump # "universe"
      BY <1>1, <3>1 DEF Inv, Once, Single, Drawable
    <3>2. CASE job.dump = "universe" /\ out = <<>>
      BY <3>2 DEF NodesOf
    <3>3. CASE job.dump = "universe" /\ out = UniverseItems
      <4>1. One(out, Universe, "full", {})
        BY <3>3, UniverseOne
      <4>2. PICK n \in DOMAIN out :
              \A j \in DOMAIN out : out[j].kind = "node" /\ j # n => out[j].of \in TableNode
        BY <4>1 DEF One
      <4>3. \A i \in NodesOf(x) : i = n
        BY <4>2, TablesApart DEF NodesOf, Drawable
      <4> QED BY <4>3
    <3> QED BY <1>1, <3>1, <3>2, <3>3 DEF Inv, Ways
  <2>2. CASE NodesOf(x) = {}
    BY <2>2, FS_EmptySet
  <2>3. CASE NodesOf(x) # {}
    <3>1. PICK i : NodesOf(x) = {i}
      BY <2>1, <2>3
    <3> QED BY <3>1, FS_Singleton
  <2> QED BY <2>2, <2>3
<1>2. Inv => DeclaredOnce
  BY <1>1 DEF DeclaredOnce, Drawable
<1> QED BY <1>2, DotInductive, PTL

(***************************************************************************)
(* With CLASS_HYPERLINK, only the class asked for and its mixins are drawn *)
(* in full (line 952, "turn on hyperlink class on demand").                *)
(***************************************************************************)
THEOREM DotOnlyRequestedInFull ==
  ASSUME MemberExact
  PROVE  Spec => []OnlyRequestedInFull
<1>1. Inv => OnlyRequestedInFull
  BY DEF Inv, Sparing, Requested, OnlyRequestedInFull
<1> QED BY <1>1, DotInductive, PTL

\* nothing is left to draw when the dump is done
LEMMA DoneMeansDone ==
  ASSUME Inv, pc = "done"
  PROVE  /\ \A x : Coming(x) <=> Declared(x)
         /\ \A i : ~ Ahead(i) /\ ~ MetaNext(i)
         /\ Elements(walk) = {}
<1>1. walk = <<>> /\ stack = <<>> /\ pairs = {} /\ cls = None
  BY DEF Inv, Ways
<1>2. Elements(walk) = {}
  BY <1>1, ShortElements
<1> QED BY <1>1, <1>2, ShortTails DEF Coming, Ahead, MetaNext

(***************************************************************************)
(* A finished graph declares every node its edges go to: what is pointed at*)
(* when it is not there yet is drawn by a later callback, whatever the     *)
(* options, the classes and the mixins are.  MayBeMissing names the nodes a*)
(* class dump may leave out: the universe it was asked for, and the infra- *)
(* classes of mixins if it was asked for mixins and metaclasses only.      *)
(***************************************************************************)
THEOREM DotEdgesLand ==
  ASSUME MemberExact
  PROVE  Spec => []EdgesLand
<1>1. ASSUME Inv, pc = "done", NEW x, Promised(x) PROVE Declared(x)
  BY <1>1, DoneMeansDone DEF Promised
<1>2. Inv => EdgesLand
  BY <1>1 DEF Inv, EdgesPromised, EdgesLand, Lands
<1> QED BY <1>2, DotInductive, PTL

(***************************************************************************)
(* A finished dump that shows infraclasses shows all it is about: the      *)
(* overview every class of the universe, a class dump the class and the    *)
(* superclasses of all it shows, mixins included.                          *)
(***************************************************************************)
THEOREM DotAllShown ==
  ASSUME MemberExact
  PROVE  Spec => []AllShown
<1>1. ASSUME Inv, pc = "done", "INFRACLASS" \in options, NEW i \in Infras, OnWay(i)
      PROVE  Declared(Infra(i))
  BY <1>1, DoneMeansDone DEF OnWay, Inv, KnownDrawn
<1>2. ASSUME Inv, pc = "done", "INFRACLASS" \in options, job.dump = "overview",
             NEW i \in Infras
      PROVE  Declared(Infra(i))
  BY <1>1, <1>2 DEF Inv, Progress
<1>3. ASSUME Inv, pc = "done", "INFRACLASS" \in options, job.dump = "class"
      PROVE  Declared(Infra(job.start[1]))
  <2>1. job.start[1] \in Infras
    BY <1>3, DotDumpAssumption, JobType, Kinds DEF Inv
  <2> QED BY <1>1, <1>3, <2>1 DEF Inv, Progress
<1>4. ASSUME Inv, pc = "done", "INFRACLASS" \in options, job.dump = "class",
             NEW i \in Infras, Declared(Infra(i)), super[i] # None
      PROVE  Declared(Infra(super[i]))
  <2>1. Infra(i) \in Class /\ ~ MayRepeat(Infra(i))
    BY DEF MayRepeat, Infra, Class
  <2>2. Infra(i) \in Elements(known)
    BY <1>4, <2>1 DEF Inv, Once, Single, Coming
  <2>3. super[i] \in Infras /\ OnWay(super[i])
    BY <1>4, <2>2 DEF Inv, Types, Progress
  <2> QED BY <1>1, <1>4, <2>3
<1>5. Inv => AllShown
  BY <1>2, <1>3, <1>4, DotDumpAssumption, JobType DEF AllShown, Inv
<1> QED BY <1>5, DotInductive, PTL

-------------------------------------------------------------------------------
(***************************************************************************)
(* The dumps end: there is less left to do after every step.               *)
(*                                                                         *)
(* The loop over the superclasses never comes to a class it has been at: a *)
(* class is not among those above its superclass.                          *)
(***************************************************************************)
LEMMA SuperclassUpwards ==
  ASSUME super \in [Infras -> Infras \union {None}], Loadable(super),
         NEW i \in Infras, super[i] # None
  PROVE  /\ Upwards(super[i]) \subseteq Upwards(i)
         /\ i \in Upwards(i) /\ i \notin Upwards(super[i])
<1> DEFINE Closed(C) == \A k \in C : super[k] # None => super[k] \in C
           Below == {d \in Infras : i \in Upwards(d)}
<1>1. \A d, j \in Infras : j \in Upwards(d)
        <=> \A C \in SUBSET Infras : d \in C /\ Closed(C) => j \in C
  BY DEF Upwards
<1> HIDE DEF Closed
<1>2. i \in Upwards(i)
  BY <1>1
<1>3. PICK s \in Infras : s = super[i]
  OBVIOUS
<1>4. Upwards(s) \subseteq Upwards(i)
  <2>1. \A C \in SUBSET Infras : i \in C /\ Closed(C) => s \in C
    BY <1>3 DEF Closed
  <2>2. \A j \in Upwards(s) : j \in Infras
    BY DEF Upwards
  <2> QED
    BY <1>1, <2>1, <2>2
<1>5. ASSUME i \in Upwards(s) PROVE FALSE
  <2>1. ASSUME NEW d \in Below PROVE super[d] \in Below
    <3>1. d \in Infras /\ i \in Upwards(d)
      OBVIOUS
    <3>2. CASE d = i
      BY <1>3, <1>5, <3>2
    <3>3. CASE d # i
      <4>1. super[d] # None
        <5> SUFFICES ASSUME super[d] = None PROVE FALSE
          OBVIOUS
        <5>1. {d} \in SUBSET Infras /\ Closed({d})
          BY <3>1 DEF Closed
        <5> QED
          BY <1>1, <3>1, <3>3, <5>1
      <4>2. PICK e \in Infras : e = super[d]
        BY <3>1, <4>1
      <4>3. ASSUME NEW C \in SUBSET Infras, e \in C, Closed(C) PROVE i \in C
        <5>1. C \union {d} \in SUBSET Infras /\ Closed(C \union {d})
          BY <3>1, <4>2, <4>3 DEF Closed
        <5>2. i \in C \union {d}
          BY <1>1, <3>1, <5>1
        <5> QED
          BY <3>3, <5>2
      <4> QED
        BY <1>1, <4>2, <4>3
    <3> QED
      BY <3>2, <3>3
  <2>2. Below \in SUBSET Infras /\ Below # {}
    BY <1>2
  <2> HIDE DEF Below
  <2> QED
    BY <2>1, <2>2 DEF Loadable
<1> QED
  BY <1>2, <1>3, <1>4, <1>5

\* the classes the loop has before it when it is at c
LoopAhead(c) ==
  IF c = None THEN 0 ELSE Cardinality(Upwards(c[1])) + (IF IsMeta(c) THEN 1 ELSE 0)

LEMMA LoopAheadType ==
  ASSUME IsFiniteSet(Infras), NEW c \in Class \union {None}
  PROVE  LoopAhead(c) \in Nat
<1>1. ASSUME NEW i PROVE Cardinality(Upwards(i)) \in Nat
  <2>1. Upwards(i) \subseteq Infras
    BY DEF Upwards
  <2> QED
    BY <2>1, FS_Subset, FS_CardinalityType
<1> QED
  BY <1>1 DEF LoopAhead

LEMMA SuperclassAhead ==
  ASSUME IsFiniteSet(Infras), super \in [Infras -> Infras \union {None}], Loadable(super),
         NEW c \in Class, NEW d, d = Superclass(c)
  PROVE  d \in Class \union {None} /\ LoopAhead(d) < LoopAhead(c)
<1>1. c # None /\ c[1] \in Infras /\ c[2] \in {"infra", "meta"}
  BY DotDumpAssumption DEF Class
<1>2. PICK i \in Infras : i = c[1]
  BY <1>1
<1>3. LoopAhead(c) = Cardinality(Upwards(i)) + (IF c[2] = "meta" THEN 1 ELSE 0)
  BY <1>1, <1>2 DEF LoopAhead, IsMeta
<1>4. Upwards(i) \subseteq Infras /\ IsFiniteSet(Upwards(i)) /\ Cardinality(Upwards(i)) \in Nat
  <2>1. Upwards(i) \subseteq Infras
    BY DEF Upwards
  <2> QED
    BY <2>1, FS_Subset, FS_CardinalityType
<1>5. CASE super[i] # None
  <2>1. d = <<super[i], c[2]>> /\ d \in Class /\ d # None
    BY <1>1, <1>2, <1>5, DotDumpAssumption DEF Superclass, Class
  <2>2. PICK s \in Infras : s = super[i]
    BY <1>5
  <2>3. Upwards(s) \subseteq Upwards(i) /\ Upwards(s) # Upwards(i)
    BY <1>5, <2>2, SuperclassUpwards
  <2>4. /\ Cardinality(Upwards(s)) <= Cardinality(Upwards(i))
        /\ Cardinality(Upwards(s)) # Cardinality(Upwards(i))
        /\ IsFiniteSet(Upwards(s))
    BY <1>4, <2>3, FS_Subset
  <2>5. Cardinality(Upwards(s)) \in Nat
    BY <2>4, FS_CardinalityType
  <2>6. LoopAhead(d) = Cardinality(Upwards(s)) + (IF c[2] = "meta" THEN 1 ELSE 0)
    BY <2>1, <2>2 DEF LoopAhead, IsMeta
  <2> QED
    BY <1>3, <1>4, <2>1, <2>4, <2>5, <2>6
<1>6. CASE super[i] = None /\ c[2] = "meta"
  <2>1. d = <<i, "infra">> /\ d \in Class /\ d # None
    BY <1>2, <1>6, DotDumpAssumption DEF Superclass, Class, Infra, IsMeta
  <2>2. LoopAhead(d) = Cardinality(Upwards(i))
    BY <1>4, <2>1 DEF LoopAhead, IsMeta
  <2> QED
    BY <1>3, <1>4, <1>6, <2>1, <2>2
<1>7. CASE super[i] = None /\ c[2] # "meta"
  <2>1. d = None /\ LoopAhead(d) = 0
    BY <1>2, <1>7 DEF Superclass, IsMeta, LoopAhead
  <2>2. i \in Upwards(i)
    BY DEF Upwards
  <2>3. Cardinality(Upwards(i)) # 0
    BY <1>4, <2>2, FS_EmptySet
  <2> QED
    BY <1>3, <1>4, <2>1, <2>3
<1> QED
  BY <1>5, <1>6, <1>7

(***************************************************************************)
(* The work of the activations on a stack.                                 *)
(***************************************************************************)
Work(frames) == {w \in (DOMAIN frames) \X (0 .. MaxMixins + 1) : StepOf(frames[w[1]]) <= w[2]}

LEMMA StepInRange ==
  ASSUME NEW a \in Activation
  PROVE  StepOf(a) \in 0 .. MaxMixins + 1
BY DotDumpAssumption DEF Activation, StepOf

LEMMA WorkType ==
  ASSUME NEW frames \in Seq(Activation)
  PROVE  IsFiniteSet(Work(frames)) /\ Cardinality(Work(frames)) \in Nat
<1>1. IsFiniteSet(1 .. Len(frames)) /\ IsFiniteSet(0 .. MaxMixins + 1)
  BY DotDumpAssumption, FS_Interval
<1>2. IsFiniteSet((1 .. Len(frames)) \X (0 .. MaxMixins + 1))
  BY <1>1, FS_Product
<1>3. Work(frames) \subseteq (1 .. Len(frames)) \X (0 .. MaxMixins + 1)
  BY DEF Work
<1>4. IsFiniteSet(Work(frames))
  BY <1>2, <1>3, FS_Subset
<1> QED
  BY <1>4, FS_CardinalityType

\* an activation that moves on or returns leaves less
LEMMA WorkShrinksAt ==
  ASSUME NEW f \in Seq(Activation), NEW g \in Seq(Activation), NEW n \in DOMAIN f,
         DOMAIN g \subseteq DOMAIN f,
         \A k \in DOMAIN g : StepOf(f[k]) <= StepOf(g[k]),
         n \in DOMAIN g => StepOf(f[n]) < StepOf(g[n])
  PROVE  Cardinality(Work(g)) < Cardinality(Work(f))
<1>1. \A k \in DOMAIN f : StepOf(f[k]) \in 0 .. MaxMixins + 1
  BY StepInRange
<1>2. \A k \in DOMAIN g : StepOf(g[k]) \in 0 .. MaxMixins + 1
  BY StepInRange
<1>3. Work(g) \subseteq Work(f)
  <2> SUFFICES ASSUME NEW w \in Work(g) PROVE w \in Work(f)
    OBVIOUS
  <2>1. /\ w \in (DOMAIN g) \X (0 .. MaxMixins + 1) /\ w[1] \in DOMAIN g
        /\ w[2] \in 0 .. MaxMixins + 1 /\ StepOf(g[w[1]]) <= w[2]
    BY DEF Work
  <2>2. w \in (DOMAIN f) \X (0 .. MaxMixins + 1) /\ StepOf(f[w[1]]) <= w[2]
    BY <1>1, <1>2, <2>1, DotDumpAssumption
  <2> QED
    BY <2>2 DEF Work
<1>4. PICK k \in 0 .. MaxMixins + 1 : k = StepOf(f[n])
  BY <1>1
<1>5. <<n, k>> \in Work(f)
  BY <1>4, DotDumpAssumption DEF Work
<1>6. <<n, k>> \notin Work(g)
  <2> SUFFICES ASSUME n \in DOMAIN g, StepOf(g[n]) <= k PROVE FALSE
    BY DEF Work
  <2> QED
    BY <1>2, <1>4, DotDumpAssumption
<1>7. Work(g) # Work(f)
  BY <1>5, <1>6
<1>8. /\ Cardinality(Work(g)) <= Cardinality(Work(f))
      /\ Cardinality(Work(g)) # Cardinality(Work(f))
  BY <1>3, <1>7, WorkType, FS_Subset
<1> QED
  BY <1>8, WorkType

\* a new activation adds what one class takes
LEMMA WorkOfNew ==
  ASSUME NEW f \in Seq(Activation), NEW a \in Activation
  PROVE  /\ Append(f, a) \in Seq(Activation)
         /\ Cardinality(Work(Append(f, a))) <= Cardinality(Work(f)) + PerClass
<1> DEFINE g == Append(f, a)
           N == {Len(f) + 1} \X (0 .. MaxMixins + 1)
<1>1. /\ g \in Seq(Activation) /\ Len(f) \in Nat
      /\ \A k \in DOMAIN g : (k \in DOMAIN f /\ g[k] = f[k]) \/ k = Len(f) + 1
  OBVIOUS
<1>2. IsFiniteSet(N) /\ Cardinality(N) = PerClass
  <2>1. IsFiniteSet({Len(f) + 1}) /\ Cardinality({Len(f) + 1}) = 1
    BY FS_Singleton
  <2>2. IsFiniteSet(0 .. MaxMixins + 1) /\ Cardinality(0 .. MaxMixins + 1) = MaxMixins + 2
    <3>1. PICK h \in Nat : h = MaxMixins + 1
      BY DotDumpAssumption
    <3>2. IsFiniteSet(0 .. h) /\ Cardinality(0 .. h) = h + 1
      BY FS_Interval
    <3>3. h + 1 = MaxMixins + 2
      BY <3>1, DotDumpAssumption
    <3>4. 0 .. MaxMixins + 1 = 0 .. h
      BY <3>1
    <3> QED
      BY <3>2, <3>3, <3>4, Zenon
  <2>3. IsFiniteSet(N) /\ Cardinality(N) = 1 * (MaxMixins + 2)
    <3>1. PICK S, T : S = {Len(f) + 1} /\ T = 0 .. MaxMixins + 1
      OBVIOUS
    <3>2. IsFiniteSet(S) /\ IsFiniteSet(T) /\ Cardinality(S) = 1 /\ Cardinality(T) = MaxMixins + 2
      BY <2>1, <2>2, <3>1, Zenon
    <3>3. IsFiniteSet(S \X T) /\ Cardinality(S \X T) = Cardinality(S) * Cardinality(T)
      BY <3>2, FS_Product
    <3> QED
      BY <3>1, <3>2, <3>3, Zenon
  <2> QED
    BY <2>3, DotDumpAssumption DEF PerClass
<1> HIDE DEF g
<1>3. Work(g) \subseteq Work(f) \union N
  BY <1>1 DEF Work
<1> HIDE DEF N
<1>4. /\ IsFiniteSet(Work(f) \union N)
      /\ Cardinality(Work(f) \union N)
           = Cardinality(Work(f)) + Cardinality(N) - Cardinality(Work(f) \intersect N)
  BY <1>2, WorkType, FS_Union
<1>5. Cardinality(Work(f) \intersect N) \in Nat
  BY <1>2, FS_Intersection, FS_CardinalityType, WorkType
<1>6. Cardinality(Work(g)) <= Cardinality(Work(f) \union N)
  BY <1>3, <1>4, FS_Subset
<1>7. Cardinality(Work(f)) \in Nat /\ Cardinality(Work(g)) \in Nat /\ PerClass \in Nat
  BY <1>1, WorkType, DotDumpAssumption DEF PerClass
<1> QED
  BY <1>1, <1>2, <1>4, <1>5, <1>6, <1>7 DEF g

(***************************************************************************)
(* The infraclasses that are not in the set.                               *)
(***************************************************************************)
Outside(added) == {i \in Infras : Infra(i) \notin Elements(added)}

LEMMA OutsideType ==
  ASSUME IsFiniteSet(Infras), NEW added
  PROVE  IsFiniteSet(Outside(added)) /\ Cardinality(Outside(added)) \in Nat
<1>1. Outside(added) \subseteq Infras
  BY DEF Outside
<1> QED
  BY <1>1, FS_Subset, FS_CardinalityType

LEMMA OutsideShrinks ==
  ASSUME IsFiniteSet(Infras), NEW added \in Seq(Pointer), NEW p \in Pointer
  PROVE  /\ Cardinality(Outside(Append(added, p))) <= Cardinality(Outside(added))
         /\ \A m \in Infras : p = Infra(m) /\ p \notin Elements(added) =>
              Cardinality(Outside(Append(added, p))) = Cardinality(Outside(added)) - 1
<1>1. Elements(Append(added, p)) = Elements(added) \union {p}
  BY ElementsOfAppend
<1>2. Outside(Append(added, p)) \subseteq Outside(added)
  BY <1>1 DEF Outside
<1>3. ASSUME NEW m \in Infras, p = Infra(m), p \notin Elements(added)
      PROVE  Cardinality(Outside(Append(added, p))) = Cardinality(Outside(added)) - 1
  <2>1. m \in Outside(added) /\ Outside(Append(added, p)) = Outside(added) \ {m}
    BY <1>1, <1>3 DEF Outside, Infra
  <2> QED
    BY <2>1, OutsideType, FS_RemoveElement
<1> QED
  BY <1>2, <1>3, OutsideType, FS_Subset


(***************************************************************************)
(* The numbers: what is left before and after, and the kinds of steps that *)
(* make it less.                                                           *)
(***************************************************************************)
Total(b, u, w, p, q) == b + 2 * PerClass * u + PerVisit * w + PerPair * p + q

LEMMA MoreTimes ==
  ASSUME NEW k \in Nat, NEW a \in Nat, NEW b \in Nat
  PROVE  /\ a <= b => k * a <= k * b
         /\ a + 1 <= b => k * a + k <= k * b
         /\ a <= b + 3 => k * a <= k * b + 3 * k
         /\ k * a \in Nat /\ k * b \in Nat
<1>1. \A c \in Nat : k * c \in Nat
  OBVIOUS
<1>2. ASSUME a <= b PROVE k * a <= k * b
  <2>1. PICK d \in Nat : b = a + d
    <3>1. b - a \in Nat /\ b = a + (b - a)
      BY <1>2
    <3> QED
      BY <3>1
  <2>2. k * b = k * a + k * d
    BY <2>1
  <2> QED
    BY <1>1, <2>2
<1>3. ASSUME a + 1 <= b PROVE k * a + k <= k * b
  <2>1. PICK d \in Nat : b = a + 1 + d
    <3>1. b - a - 1 \in Nat /\ b = a + 1 + (b - a - 1)
      BY <1>3
    <3> QED
      BY <3>1
  <2>2. k * b = k * a + k + k * d
    BY <2>1
  <2> QED
    BY <1>1, <2>2
<1>4. ASSUME a <= b + 3 PROVE k * a <= k * b + 3 * k
  <2>1. PICK d \in Nat : b + 3 = a + d
    <3>1. b + 3 - a \in Nat /\ b + 3 = a + (b + 3 - a)
      BY <1>4
    <3> QED
      BY <3>1
  <2>2. k * (b + 3) = k * a + k * d
    BY <2>1
  <2>3. k * (b + 3) = k * b + 3 * k
    OBVIOUS
  <2> QED
    BY <1>1, <2>2, <2>3
<1> QED
  BY <1>1, <1>2, <1>3, <1>4

LEMMA TotalShrinks ==
  ASSUME NEW b \in Nat, NEW u \in Nat, NEW w \in Nat, NEW p \in Nat, NEW q \in Nat,
         NEW c \in Nat, NEW v \in Nat, NEW x \in Nat, NEW r \in Nat, NEW t \in Nat,
         \/ c + t < b + q /\ v <= u /\ x = w /\ r = p
         \/ c <= b + PerClass /\ v <= u /\ x + 1 <= w /\ r = p /\ t = q
         \/ c = b /\ v = u /\ x <= w + 3 /\ r + 1 <= p /\ t = q
         \/ c < b + 2 * PerClass /\ v + 1 = u /\ x = w /\ r = p /\ t = q
  PROVE  Total(c, v, x, r, t) \in 0 .. Total(b, u, w, p, q) - 1
<1>1. PICK k \in Nat : k = PerClass
  BY DotDumpAssumption DEF PerClass
<1>2. PerVisit = k + 1 /\ PerPair = 3 * (k + 1) + 1
  BY <1>1 DEF PerVisit, PerPair
<1>3. PICK i \in Nat, j \in Nat, l \in Nat : i = 2 * k /\ j = k + 1 /\ l = 3 * (k + 1) + 1
  OBVIOUS
<1>4. /\ Total(c, v, x, r, t) = c + i * v + j * x + l * r + t
      /\ Total(b, u, w, p, q) = b + i * u + j * w + l * p + q
  BY <1>1, <1>2, <1>3 DEF Total
<1>5. PICK iv \in Nat, iu \in Nat, jx \in Nat, jw \in Nat, lr \in Nat, lp \in Nat :
        iv = i * v /\ iu = i * u /\ jx = j * x /\ jw = j * w /\ lr = l * r /\ lp = l * p
  OBVIOUS
<1>6. /\ v <= u => iv <= iu
      /\ v + 1 <= u => iv + i <= iu
  BY <1>5, MoreTimes
<1>7. /\ x <= w => jx <= jw
      /\ x + 1 <= w => jx + j <= jw
      /\ x <= w + 3 => jx <= jw + 3 * j
  BY <1>5, MoreTimes
<1>8. /\ r <= p => lr <= lp
      /\ r + 1 <= p => lr + l <= lp
  BY <1>5, MoreTimes
<1>9. c + iv + jx + lr + t < b + iu + jw + lp + q
  <2>1. CASE c + t < b + q /\ v <= u /\ x = w /\ r = p
    BY <1>6, <1>7, <1>8, <2>1
  <2>2. CASE c <= b + PerClass /\ v <= u /\ x + 1 <= w /\ r = p /\ t = q
    BY <1>1, <1>3, <1>6, <1>7, <1>8, <2>2
  <2>3. CASE c = b /\ v = u /\ x <= w + 3 /\ r + 1 <= p /\ t = q
    BY <1>3, <1>6, <1>7, <1>8, <2>3
  <2>4. CASE c < b + 2 * PerClass /\ v + 1 = u /\ x = w /\ r = p /\ t = q
    BY <1>1, <1>3, <1>6, <1>7, <1>8, <2>4
  <2> QED
    BY <2>1, <2>2, <2>3, <2>4
<1> QED
  BY <1>4, <1>5, <1>9


\* a step of an activation, or the last step of the walker
LEMMA TotalShrinksInPlace ==
  ASSUME NEW b \in Nat, NEW u \in Nat, NEW w \in Nat, NEW p \in Nat, NEW q \in Nat,
         NEW c \in Nat, NEW v \in Nat, NEW t \in Nat, c + t < b + q, v <= u
  PROVE  Total(c, v, w, p, t) \in 0 .. Total(b, u, w, p, q) - 1
<1>1. PICK x \in Nat, r \in Nat : x = w /\ r = p
  OBVIOUS
<1>2. Total(c, v, x, r, t) \in 0 .. Total(b, u, w, p, q) - 1
  BY <1>1, TotalShrinks
<1> QED
  BY <1>1, <1>2

\* a mixin that enters the set
LEMMA TotalShrinksByMixin ==
  ASSUME NEW b \in Nat, NEW u \in Nat, NEW w \in Nat, NEW p \in Nat, NEW q \in Nat,
         NEW c \in Nat, NEW v \in Nat, c < b + 2 * PerClass, v + 1 = u
  PROVE  Total(c, v, w, p, q) \in 0 .. Total(b, u, w, p, q) - 1
<1>1. PICK x \in Nat, r \in Nat, t \in Nat : x = w /\ r = p /\ t = q
  OBVIOUS
<1>2. Total(c, v, x, r, t) \in 0 .. Total(b, u, w, p, q) - 1
  BY <1>1, TotalShrinks
<1> QED
  BY <1>1, <1>2

(***************************************************************************)
(* What is left, from the parts a step changes.                            *)
(***************************************************************************)
Remaining(frames, added, w, n, c, phase) ==
  Total(Cardinality(Work(frames)), Cardinality(Outside(added)), Len(w), n + LoopAhead(c),
        IF phase = "walking" THEN 1 ELSE 0)

LEMMA RemainingIs ==
  StepsLeft = Remaining(stack, known, walk, Cardinality(pairs), cls, pc)
BY DEF StepsLeft, Remaining, Total, BeingDrawn, Work, Undrawn, Outside, Elements,
       ClassesLeft, LoopAhead

LEMMA RemainingPrimed ==
  ASSUME super' = super
  PROVE  StepsLeft' = Remaining(stack', known', walk', Cardinality(pairs'), cls', pc')
BY DEF StepsLeft, Remaining, Total, BeingDrawn, Work, Undrawn, Outside, Elements,
       ClassesLeft, LoopAhead, Upwards

(***************************************************************************)
(* A callback pays for the class it may draw with its place in the walk.   *)
(***************************************************************************)
LEMMA CallbackShrinks ==
  ASSUME IsFiniteSet(Infras), Inv,
         CallbackKnown \/ VisitUniverse \/ VisitPair \/ VisitInfra \/ VisitMeta
  PROVE  StepsLeft' \in 0 .. StepsLeft - 1
<1>1. /\ stack \in Seq(Activation) /\ known \in Seq(Pointer) /\ walk \in Seq(Pointer)
      /\ pairs \in SUBSET Infras /\ cls \in Class \union {None}
  BY DEF Inv, Types, TypeOK
<1>2. /\ stack = <<>> /\ walk # <<>> /\ pc' = pc /\ pairs' = pairs /\ cls' = cls
      /\ super' = super /\ walk' \in {Tail(walk), <<>>}
  BY DEF CallbackKnown, VisitUniverse, VisitPair, VisitInfra, VisitMeta, CallbackNew, Called, runtime
<1>3. Len(walk) \in Nat /\ Len(walk') \in Nat /\ Len(walk') + 1 <= Len(walk)
  BY <1>1, <1>2
<1>4. \/ known' = known
      \/ \E p \in Pointer : known' = Append(known, p)
  BY DEF CallbackKnown, VisitUniverse, VisitPair, VisitInfra, VisitMeta, CallbackNew, Pointer, Class
<1>5. stack' = stack \/ \E c \in Class : stack' = Append(stack, Frame(c))
  BY DEF CallbackKnown, VisitUniverse, VisitPair, VisitInfra, VisitMeta, Draw, DrawNothing,
         DrawInFull, Class
<1>6. /\ Cardinality(Outside(known')) <= Cardinality(Outside(known))
      /\ Cardinality(Outside(known)) \in Nat /\ Cardinality(Outside(known')) \in Nat
  <2>1. Cardinality(Outside(known)) \in Nat /\ Cardinality(Outside(known')) \in Nat
    BY OutsideType
  <2>2. CASE known' = known
    BY <2>1, <2>2
  <2>3. CASE \E p \in Pointer : known' = Append(known, p)
    <3>1. PICK p \in Pointer : known' = Append(known, p)
      BY <2>3
    <3>2. Cardinality(Outside(Append(known, p))) <= Cardinality(Outside(known))
      BY <1>1, OutsideShrinks
    <3> QED
      BY <2>1, <3>1, <3>2
  <2> QED
    BY <1>4, <2>1, <2>2, <2>3
<1>7. PerClass \in Nat
  BY DotDumpAssumption DEF PerClass
<1>8. /\ Cardinality(Work(stack)) \in Nat /\ Cardinality(Work(stack')) \in Nat
      /\ Cardinality(Work(stack')) <= Cardinality(Work(stack)) + PerClass
  <2>1. CASE stack' = stack
    BY <1>1, <1>7, <2>1, WorkType
  <2>2. CASE \E c \in Class : stack' = Append(stack, Frame(c))
    <3>1. PICK c \in Class : stack' = Append(stack, Frame(c))
      BY <2>2
    <3>2. Frame(c) \in Activation
      BY DotDumpAssumption, FrameType
    <3>3. stack' \in Seq(Activation)
      BY <1>1, <3>1, <3>2, WorkOfNew
    <3> QED
      BY <1>1, <3>1, <3>2, <3>3, WorkOfNew, WorkType
  <2> QED
    BY <1>5, <2>1, <2>2
<1>9. Cardinality(pairs) + LoopAhead(cls) \in Nat
  BY <1>1, FS_Subset, FS_CardinalityType, LoopAheadType
<1>10. PICK b \in Nat, c \in Nat, u \in Nat, v \in Nat, w \in Nat, x \in Nat, r \in Nat, q \in Nat :
         /\ b = Cardinality(Work(stack)) /\ c = Cardinality(Work(stack'))
         /\ u = Cardinality(Outside(known)) /\ v = Cardinality(Outside(known'))
         /\ w = Len(walk) /\ x = Len(walk')
         /\ r = Cardinality(pairs) + LoopAhead(cls)
         /\ q = IF pc = "walking" THEN 1 ELSE 0
  BY <1>3, <1>6, <1>8, <1>9
<1>11. Total(c, v, x, r, q) \in 0 .. Total(b, u, w, r, q) - 1
  BY <1>3, <1>6, <1>8, <1>10, TotalShrinks
<1>12. /\ StepsLeft = Total(b, u, w, r, q)
       /\ StepsLeft' = Total(c, v, x, r, q)
  BY <1>2, <1>10, RemainingIs, RemainingPrimed DEF Remaining
<1> QED
  BY <1>11, <1>12

(***************************************************************************)
(* A step of the walker pays for its callbacks with a pair or a class of   *)
(* the loop; the last step is its own.                                     *)
(***************************************************************************)
LEMMA WalkerShrinks ==
  ASSUME IsFiniteSet(Infras), Inv, Loadable(super),
         WalkPair \/ WalkClass \/ DumpUniverse \/ Finish
  PROVE  StepsLeft' \in 0 .. StepsLeft - 1
<1>1. /\ stack \in Seq(Activation) /\ walk \in Seq(Pointer)
      /\ pairs \in SUBSET Infras /\ cls \in Class \union {None}
      /\ super \in [Infras -> Infras \union {None}]
  BY DEF Inv, Types, TypeOK
<1>2. stack' = stack /\ known' = known /\ super' = super
  BY DEF WalkPair, WalkClass, WalkOne, DumpUniverse, Finish, runtime
<1>3. /\ Cardinality(Work(stack)) \in Nat /\ Cardinality(Outside(known)) \in Nat
      /\ IsFiniteSet(pairs) /\ Cardinality(pairs) \in Nat /\ LoopAhead(cls) \in Nat
      /\ Len(walk) \in Nat
  BY <1>1, WorkType, OutsideType, FS_Subset, FS_CardinalityType, LoopAheadType
<1>4. \/ /\ Len(walk') = 3 /\ pc = pc'
         /\ Cardinality(pairs') + LoopAhead(cls') + 1 <= Cardinality(pairs) + LoopAhead(cls)
         /\ Cardinality(pairs') + LoopAhead(cls') \in Nat
      \/ /\ walk' = walk /\ pairs' = pairs /\ cls' = cls /\ pc = "walking" /\ pc' = "done"
  <2>1. CASE WalkPair
    <3>1. PICK i \in pairs : walk' = PairWalk(i) /\ pairs' = pairs \ {i}
      BY <2>1 DEF WalkPair
    <3>2. Cardinality(pairs') = Cardinality(pairs) - 1 /\ Cardinality(pairs') \in Nat
      BY <1>3, <3>1, FS_RemoveElement, FS_CardinalityType
    <3>3. Len(walk') = 3 /\ cls' = cls /\ pc' = pc
      BY <2>1, <3>1 DEF WalkPair, PairWalk
    <3>4. LoopAhead(cls') = LoopAhead(cls)
      BY <3>3
    <3> QED
      BY <1>3, <3>2, <3>3, <3>4
  <2>2. CASE WalkClass
    <3>1. /\ walk' = PairWalk(cls[1]) /\ pairs' = pairs /\ cls' = Superclass(cls)
          /\ cls \in Class /\ pc' = pc
      BY <1>1, <2>2 DEF WalkClass, WalkOne
    <3>2. PICK c \in Class, d \in Class \union {None} : c = cls /\ d = cls' /\ d = Superclass(c)
      BY <1>1, <3>1, SuperclassType DEF Inv
    <3>3. LoopAhead(d) < LoopAhead(c) /\ LoopAhead(d) \in Nat
      BY <1>1, <3>2, SuperclassAhead, LoopAheadType
    <3>4. Len(walk') = 3
      BY <3>1 DEF PairWalk
    <3> QED
      BY <1>3, <3>1, <3>2, <3>3, <3>4
  <2>3. CASE DumpUniverse \/ Finish
    BY <2>3 DEF DumpUniverse, Finish
  <2> QED
    BY <2>1, <2>2, <2>3
<1>5. PICK b \in Nat, u \in Nat, w \in Nat, p \in Nat :
        /\ b = Cardinality(Work(stack)) /\ u = Cardinality(Outside(known))
        /\ w = Len(walk) /\ p = Cardinality(pairs) + LoopAhead(cls)
  BY <1>3
<1>6. StepsLeft = Total(b, u, w, p, IF pc = "walking" THEN 1 ELSE 0)
  BY <1>5, RemainingIs DEF Remaining
<1>7. CASE /\ Len(walk') = 3 /\ pc = pc'
           /\ Cardinality(pairs') + LoopAhead(cls') + 1 <= Cardinality(pairs) + LoopAhead(cls)
           /\ Cardinality(pairs') + LoopAhead(cls') \in Nat
  <2>1. PICK r \in Nat, x \in Nat, q \in Nat :
          /\ r = Cardinality(pairs') + LoopAhead(cls') /\ x = 3
          /\ q = IF pc = "walking" THEN 1 ELSE 0
    BY <1>7
  <2>2. StepsLeft' = Total(b, u, x, r, q)
    BY <1>2, <1>5, <1>7, <2>1, RemainingPrimed DEF Remaining
  <2>3. Total(b, u, x, r, q) \in 0 .. Total(b, u, w, p, q) - 1
    <3>1. x <= w + 3 /\ r + 1 <= p
      BY <1>5, <1>7, <2>1
    <3> QED
      BY <3>1, TotalShrinks
  <2> QED
    BY <1>6, <2>1, <2>2, <2>3
<1>8. CASE walk' = walk /\ pairs' = pairs /\ cls' = cls /\ pc = "walking" /\ pc' = "done"
  <2>1. StepsLeft' = Total(b, u, w, p, 0) /\ StepsLeft = Total(b, u, w, p, 1)
    BY <1>2, <1>5, <1>6, <1>8, RemainingPrimed DEF Remaining
  <2>2. Total(b, u, w, p, 0) \in 0 .. Total(b, u, w, p, 1) - 1
    <3>1. PICK none \in Nat, one \in Nat : none = 0 /\ one = 1
      OBVIOUS
    <3>2. b + none < b + one
      BY <3>1
    <3>3. Total(b, u, w, p, none) \in 0 .. Total(b, u, w, p, one) - 1
      <4>1. u <= u
        OBVIOUS
      <4> QED
        BY <3>2, <4>1, TotalShrinksInPlace
    <3> QED
      BY <3>1, <3>3
  <2> QED
    BY <2>1, <2>2
<1> QED
  BY <1>4, <1>7, <1>8


(***************************************************************************)
(* A step of an activation takes its own share; a mixin that is drawn in   *)
(* full was not in the set, and pays for two activations by entering it.   *)
(***************************************************************************)
LEMMA TopMoves ==
  ASSUME NEW f \in Seq(Activation), NEW n \in DOMAIN f, NEW a \in Activation,
         StepOf(f[n]) < StepOf(a)
  PROVE  /\ [f EXCEPT ![n] = a] \in Seq(Activation)
         /\ Cardinality(Work([f EXCEPT ![n] = a])) < Cardinality(Work(f))
<1> DEFINE g == [f EXCEPT ![n] = a]
<1>1. /\ g \in Seq(Activation) /\ DOMAIN g = DOMAIN f /\ g[n] = a
      /\ \A k \in DOMAIN f : k # n => g[k] = f[k]
  OBVIOUS
<1> HIDE DEF g
<1>2. \A k \in DOMAIN g : StepOf(f[k]) <= StepOf(g[k])
  <2> SUFFICES ASSUME NEW k \in DOMAIN f PROVE StepOf(f[k]) <= StepOf(g[k])
    BY <1>1
  <2>1. StepOf(f[k]) \in Int /\ StepOf(a) \in Int
    <3>1. \A b \in Activation : StepOf(b) \in Int
      BY StepInRange, DotDumpAssumption
    <3>2. f[k] \in Activation
      OBVIOUS
    <3> QED
      BY <3>1, <3>2
  <2> QED
    BY <1>1, <2>1
<1>3. Cardinality(Work(g)) < Cardinality(Work(f))
  BY <1>1, <1>2, WorkShrinksAt
<1> QED
  BY <1>1, <1>3 DEF g

LEMMA DrawShrinks ==
  ASSUME MemberExact, IsFiniteSet(Infras), Inv, DrawHead \/ DrawMixin \/ DrawTail
  PROVE  StepsLeft' \in 0 .. StepsLeft - 1
<1>1. /\ stack \in Seq(Activation) /\ known \in Seq(Pointer) /\ walk \in Seq(Pointer)
      /\ pairs \in SUBSET Infras /\ cls \in Class \union {None}
  BY DEF Inv, Types, TypeOK
<1>2. /\ stack # <<>> /\ pc' = pc /\ pairs' = pairs /\ cls' = cls /\ walk' = walk
      /\ super' = super
  BY DEF DrawHead, DrawMixin, DrawTail, At, runtime
<1>3. PICK f \in Seq(Activation), n \in Nat, top \in Activation :
        /\ f = stack /\ n = Len(f) /\ n \in DOMAIN f /\ top = f[n] /\ top = Top
        /\ DOMAIN f = 1 .. n
  BY <1>1, <1>2, StackTop DEF Inv
<1>4. PerClass \in Nat
  BY DotDumpAssumption DEF PerClass
<1>5. \/ known' = known /\ stack' \in Seq(Activation) /\ Cardinality(Work(stack')) < Cardinality(Work(f))
      \/ /\ \E m \in Infras : Infra(m) \notin Elements(known) /\ known' = Append(known, Infra(m))
         /\ stack' \in Seq(Activation)
         /\ Cardinality(Work(stack')) < Cardinality(Work(f)) + 2 * PerClass
  <2>1. CASE DrawHead
    <3>1. PICK v \in {"mixins", "tail"} : v = IF ShowsMixins(Top.cls) THEN "mixins" ELSE "tail"
      OBVIOUS
    <3>2. PICK a : a = [top EXCEPT !.at = v]
      OBVIOUS
    <3>3. stack' = [f EXCEPT ![n] = a] /\ known' = known /\ top.at = "head"
      BY <1>3, <2>1, <3>1, <3>2 DEF DrawHead, At
    <3>4. a \in Activation /\ StepOf(f[n]) < StepOf(a)
      <4>1. a \in Activation /\ a.at = v /\ a.next = top.next /\ top.next \in 1 .. MaxMixins + 1
        BY <3>2 DEF Activation
      <4>2. StepOf(top) = 0
        BY <3>3 DEF StepOf
      <4>3. StepOf(a) \in {top.next, MaxMixins + 1}
        BY <4>1 DEF StepOf
      <4> QED
        BY <1>3, <4>1, <4>2, <4>3, DotDumpAssumption
    <3> QED
      BY <1>3, <3>3, <3>4, TopMoves
  <2>2. CASE DrawTail
    <3>1. stack' = SubSeq(f, 1, n - 1) /\ known' = known
      BY <1>3, <2>2 DEF DrawTail, Rest
    <3>2. /\ stack' \in Seq(Activation) /\ DOMAIN stack' = 1 .. n - 1
          /\ \A k \in 1 .. n - 1 : stack'[k] = f[k] /\ k \in DOMAIN f
      BY <1>3, <3>1
    <3>3. n \notin DOMAIN stack' /\ DOMAIN stack' \subseteq DOMAIN f
      BY <1>3, <3>2
    <3>4. PICK g \in Seq(Activation) : g = stack'
      BY <3>2
    <3>5. \A k \in DOMAIN g : StepOf(f[k]) <= StepOf(g[k])
      <4> SUFFICES ASSUME NEW k \in DOMAIN g PROVE StepOf(f[k]) <= StepOf(g[k])
        OBVIOUS
      <4>1. g[k] = f[k] /\ g[k] \in Activation
        BY <3>2, <3>4
      <4>2. StepOf(g[k]) \in Int
        BY <4>1, StepInRange, DotDumpAssumption
      <4> QED
        BY <4>1, <4>2
    <3>6. Cardinality(Work(g)) < Cardinality(Work(f))
      BY <1>3, <3>3, <3>4, <3>5, WorkShrinksAt
    <3> QED
      BY <3>1, <3>4, <3>6
  <2>3. CASE DrawMixin
    <3>0. PICK c \in Class : c = top.cls
      BY DEF Activation
    <3>1. PICK m, g : /\ m = mixins[c[1]][top.next]
                      /\ g = [f EXCEPT ![n].next = top.next + 1]
      OBVIOUS
    <3>2. top.at = "mixins" /\ top.next \in DOMAIN mixins[c[1]]
      BY <1>3, <2>3, <3>0 DEF DrawMixin, At
    <3>3. m \in Infras /\ top.next \in Nat /\ top.next + 1 \in 1 .. MaxMixins + 1
      <4>1. mixins[c[1]] \in MixinLists
        BY DEF Inv, Types, Class
      <4>2. PICK l \in 0 .. MaxMixins : mixins[c[1]] \in [1 .. l -> MixinClasses]
        BY <4>1 DEF MixinLists
      <4>3. top.next \in 1 .. l /\ m \in MixinClasses /\ MaxMixins \in Nat
        BY <3>1, <3>2, <4>2, DotDumpAssumption
      <4> QED
        BY <4>3, DotDumpAssumption
    <3>4. g \in Seq(Activation) /\ Cardinality(Work(g)) < Cardinality(Work(f))
      <4>1. PICK a : a = [top EXCEPT !.next = top.next + 1]
        OBVIOUS
      <4>2. g = [f EXCEPT ![n] = a]
        BY <1>3, <3>1, <4>1
      <4>3. a \in Activation /\ a.at = "mixins" /\ a.next = top.next + 1
        BY <3>2, <3>3, <4>1 DEF Activation
      <4>4. StepOf(top) = top.next /\ StepOf(a) = top.next + 1
        BY <3>2, <4>3 DEF StepOf
      <4>5. StepOf(f[n]) < StepOf(a)
        BY <1>3, <3>3, <4>4
      <4> QED
        BY <1>3, <4>2, <4>3, <4>5, TopMoves
    <3>5. IF IsMember(known, Infra(m))
            THEN stack' = g /\ known' = known
            ELSE /\ known' = Append(known, Infra(m))
                 /\ \/ stack' = g
                    \/ stack' = g \o When("METACLASS" \in options, <<Frame(Meta(m))>>)
                                  \o <<Frame(Infra(m))>>
      BY <1>3, <2>3, <3>0, <3>1 DEF DrawMixin
    <3>6. IsMember(known, Infra(m)) <=> Infra(m) \in Elements(known)
      BY <1>1, <3>3, Kinds DEF MemberExact
    <3>7. CASE IsMember(known, Infra(m))
      BY <3>4, <3>5, <3>7
    <3>8. CASE ~ IsMember(known, Infra(m)) /\ stack' = g
      <4>1. Cardinality(Work(stack')) < Cardinality(Work(f)) + 2 * PerClass
        BY <1>4, <3>4, <3>8, WorkType
      <4> QED
        BY <3>3, <3>4, <3>5, <3>6, <3>8, <4>1
    <3>9. CASE /\ ~ IsMember(known, Infra(m))
               /\ stack' = g \o When("METACLASS" \in options, <<Frame(Meta(m))>>)
                             \o <<Frame(Infra(m))>>
      <4>1. Frame(Meta(m)) \in Activation /\ Frame(Infra(m)) \in Activation
        BY <3>3, Kinds, FrameType, DotDumpAssumption
      <4>2. PICK i \in Activation, j \in Activation : i = Frame(Infra(m)) /\ j = Frame(Meta(m))
        BY <4>1
      <4>3. PICK h \in Seq(Activation) :
              /\ h = g \o When("METACLASS" \in options, <<j>>)
              /\ Cardinality(Work(h)) <= Cardinality(Work(g)) + PerClass
        <5>1. CASE "METACLASS" \in options
          <6>1. g \o When("METACLASS" \in options, <<j>>) = Append(g, j)
            BY <3>4, <5>1 DEF When
          <6> QED
            BY <3>4, <6>1, WorkOfNew
        <5>2. CASE "METACLASS" \notin options
          <6>1. g \o When("METACLASS" \in options, <<j>>) = g
            BY <3>4, <5>2 DEF When
          <6>2. Cardinality(Work(g)) <= Cardinality(Work(g)) + PerClass
            BY <1>4, <3>4, WorkType
          <6> QED
            BY <3>4, <6>1, <6>2
        <5> QED
          BY <5>1, <5>2
      <4>4. stack' = Append(h, i)
        BY <3>9, <4>2, <4>3
      <4>5. /\ stack' \in Seq(Activation)
            /\ Cardinality(Work(stack')) <= Cardinality(Work(h)) + PerClass
        BY <4>4, WorkOfNew
      <4>6. /\ Cardinality(Work(f)) \in Nat /\ Cardinality(Work(g)) \in Nat
            /\ Cardinality(Work(h)) \in Nat /\ Cardinality(Work(stack')) \in Nat
        BY <3>4, <4>5, WorkType
      <4>7. Cardinality(Work(stack')) < Cardinality(Work(f)) + 2 * PerClass
        BY <1>4, <3>4, <4>3, <4>5, <4>6
      <4> QED
        BY <3>3, <3>5, <3>6, <3>9, <4>5, <4>7
    <3> QED
      BY <3>5, <3>7, <3>8, <3>9
  <2> QED
    BY <2>1, <2>2, <2>3
<1>6. /\ Cardinality(Outside(known)) \in Nat /\ Cardinality(Outside(known')) \in Nat
      /\ Cardinality(Work(f)) \in Nat /\ Cardinality(Work(stack')) \in Nat
      /\ Len(walk) \in Nat /\ Cardinality(pairs) + LoopAhead(cls) \in Nat
  <2>1. Cardinality(Outside(known)) \in Nat /\ Cardinality(Outside(known')) \in Nat
    BY OutsideType
  <2>2. Cardinality(Work(f)) \in Nat /\ Cardinality(Work(stack')) \in Nat
    BY <1>5, WorkType
  <2>3. Len(walk) \in Nat
    BY <1>1
  <2>4. Cardinality(pairs) \in Nat /\ LoopAhead(cls) \in Nat
    BY <1>1, FS_Subset, FS_CardinalityType, LoopAheadType
  <2> QED
    BY <2>1, <2>2, <2>3, <2>4
<1>7. PICK b \in Nat, c \in Nat, u \in Nat, v \in Nat, w \in Nat, p \in Nat, q \in Nat :
        /\ b = Cardinality(Work(stack)) /\ c = Cardinality(Work(stack'))
        /\ u = Cardinality(Outside(known)) /\ v = Cardinality(Outside(known'))
        /\ w = Len(walk) /\ p = Cardinality(pairs) + LoopAhead(cls)
        /\ q = IF pc = "walking" THEN 1 ELSE 0
  BY <1>3, <1>6
<1>8. \/ c < b /\ v = u
      \/ c < b + 2 * PerClass /\ v + 1 = u
  <2>1. CASE \E m \in Infras : Infra(m) \notin Elements(known) /\ known' = Append(known, Infra(m))
    <3>1. PICK m \in Infras : Infra(m) \notin Elements(known) /\ known' = Append(known, Infra(m))
      BY <2>1
    <3>2. Infra(m) \in Pointer
      BY Kinds
    <3>3. Cardinality(Outside(Append(known, Infra(m)))) = Cardinality(Outside(known)) - 1
      BY <1>1, <3>1, <3>2, OutsideShrinks
    <3>4. v + 1 = u
      BY <1>7, <3>1, <3>3
    <3>5. c < b + 2 * PerClass
      BY <1>3, <1>4, <1>5, <1>7
    <3> QED
      BY <3>4, <3>5
  <2>2. CASE known' = known /\ Cardinality(Work(stack')) < Cardinality(Work(f))
    BY <1>3, <1>7, <2>2
  <2> QED
    BY <1>5, <2>1, <2>2
<1>9. Total(c, v, w, p, q) \in 0 .. Total(b, u, w, p, q) - 1
  <2>1. CASE c < b /\ v = u
    <3>1. c + q < b + q /\ v <= u
      BY <2>1
    <3> QED
      BY <3>1, TotalShrinksInPlace
  <2>2. CASE c < b + 2 * PerClass /\ v + 1 = u
    BY <2>2, TotalShrinksByMixin
  <2> QED
    BY <1>8, <2>1, <2>2
<1>10. /\ StepsLeft = Total(b, u, w, p, q)
       /\ StepsLeft' = Total(c, v, w, p, q)
  BY <1>2, <1>7, RemainingIs, RemainingPrimed DEF Remaining
<1> QED
  BY <1>9, <1>10

(***************************************************************************)
(* Every dump, of any universe and any class, with any options, has less   *)
(* left to do after each step, and so takes only finitely many: mixins that*)
(* adopt each other do not keep the drawing going, though the metaclasses  *)
(* it draws beside them are not in the set.                                *)
(***************************************************************************)
THEOREM DotDumpEnds ==
  ASSUME MemberExact, IsFiniteSet(Infras)
  PROVE  Spec => WorkShrinks
<1>1. Init => Loadable(super)
  BY DEF Init, InitRuntime
<1>2. Loadable(super) /\ [Next]_vars => Loadable(super)'
  <2>1. [Next]_vars => super' = super
    BY DEF Next, WalkPair, WalkClass, WalkOne, DumpUniverse, Finish, CallbackKnown,
           VisitUniverse, VisitPair, VisitInfra, VisitMeta, CallbackNew,
           DrawHead, DrawMixin, DrawTail, runtime, vars
  <2> QED
    BY <2>1 DEF Loadable
<1>3. Inv /\ Loadable(super) /\ [Next]_vars => [StepsLeft' \in 0 .. StepsLeft - 1]_vars
  BY CallbackShrinks, WalkerShrinks, DrawShrinks DEF Next
<1> QED
  BY <1>1, <1>2, <1>3, DotInductive, PTL DEF Spec, WorkShrinks
===============================================================================
