------------------------- MODULE DotHierarchy_proofs --------------------------
(***************************************************************************)
(* Proofs about the hierarchy dump, for every set of classes, every runtime*)
(* and every starting class.  The class_set is taken for the set it is     *)
(* meant to be; CSet_proofs says for which heaps c_set is one.             *)
(***************************************************************************)
EXTENDS DotHierarchy, FiniteSetTheorems, TLAPS

Elements(s) == {s[i] : i \in DOMAIN s}

MemberExact == \A added \in Seq(Class), c \in Class :
                 IsMember(added, c) <=> c \in Elements(added)

-------------------------------------------------------------------------------
(***************************************************************************)
(* The activations form a chain: the first one was called from outside,    *)
(* every other one from the one before it; all of them are on known        *)
(* classes, no two on the same one, and none on a class already output.    *)
(***************************************************************************)
Chain(frames, added, out) ==
  /\ frames \in Seq(Frame)
  /\ \A i \in DOMAIN frames : frames[i].relationship = "none" <=> i = 1
  /\ \A i, j \in DOMAIN frames : frames[i].cls = frames[j].cls => i = j
  /\ \A i \in DOMAIN frames : /\ frames[i].cls \in Elements(added)
                              /\ frames[i].cls \notin Elements(out)

Inv == /\ TypeOK
       /\ Chain(stack, known, printed)
       /\ Elements(printed) \subseteq Elements(known)
       /\ PrintedOnce

-------------------------------------------------------------------------------
LEMMA ElementsOfAppend ==
  ASSUME NEW S, NEW s \in Seq(S), NEW e \in S
  PROVE  /\ Append(s, e) \in Seq(S)
         /\ Elements(Append(s, e)) = Elements(s) \union {e}
<1>1. /\ Append(s, e) \in Seq(S)
      /\ DOMAIN Append(s, e) = 1 .. Len(s) + 1
      /\ DOMAIN s = 1 .. Len(s) /\ Len(s) \in Nat
      /\ Append(s, e)[Len(s) + 1] = e
      /\ \A i \in 1 .. Len(s) : Append(s, e)[i] = s[i]
  OBVIOUS
<1>2. \A i \in 1 .. Len(s) + 1 : i \in 1 .. Len(s) \/ i = Len(s) + 1
  BY <1>1
<1>3. /\ \A i \in 1 .. Len(s) : i \in 1 .. Len(s) + 1
      /\ Len(s) + 1 \in 1 .. Len(s) + 1
  BY <1>1
<1> QED
  BY <1>1, <1>2, <1>3, Zenon DEF Elements

(***************************************************************************)
(* A new element at the end keeps a sequence free of duplicates.           *)
(***************************************************************************)
LEMMA AppendNew ==
  ASSUME NEW S, NEW s \in Seq(S), NEW e \in S,
         NoDuplicates(s), e \notin Elements(s)
  PROVE  NoDuplicates(Append(s, e))
  BY DEF NoDuplicates, Elements

LEMMA SuperclassType ==
  ASSUME TypeOK, NEW c \in Class
  PROVE  Superclass(c) \in Class \union {None}
  BY DEF TypeOK, Superclass, Class

LEMMA MixinType ==
  ASSUME TypeOK, NEW c \in Class, NEW i \in DOMAIN mixins[c[1]]
  PROVE  MixinOf(c, i) \in Class
<1>1. mixins[c[1]] \in MixinLists
  BY DEF TypeOK, Class
<1>2. mixins[c[1]][i] \in Infras
  BY <1>1, HierarchyAssumption DEF MixinLists
<1> QED
  BY <1>2 DEF MixinOf, Class

(***************************************************************************)
(* Changing what the topmost activation is about to do keeps the chain.    *)
(***************************************************************************)
LEMMA UpdateTop ==
  ASSUME NEW added, NEW out, NEW frames, Chain(frames, added, out), frames # <<>>,
         NEW f \in Frame, f.cls = frames[Len(frames)].cls,
         f.relationship = frames[Len(frames)].relationship
  PROVE  LET g == [frames EXCEPT ![Len(frames)] = f]
         IN  Chain(g, added, out) /\ Len(g) = Len(frames)
<1> DEFINE g == [frames EXCEPT ![Len(frames)] = f]
<1>1. /\ frames \in Seq(Frame) /\ Len(frames) \in Nat \ {0}
      /\ DOMAIN frames = 1 .. Len(frames)
  BY DEF Chain
<1>2. g \in Seq(Frame) /\ DOMAIN g = DOMAIN frames /\ Len(g) = Len(frames)
  BY <1>1
<1>3. \A i \in DOMAIN frames : /\ g[i].cls = frames[i].cls
                               /\ g[i].relationship = frames[i].relationship
  BY <1>1
<1> HIDE DEF g
<1>4. Chain(g, added, out)
  BY <1>2, <1>3 DEF Chain
<1> QED
  BY <1>2, <1>4 DEF g

(***************************************************************************)
(* A call either leaves the chain alone or extends it by a class that was  *)
(* not known before.                                                       *)
(***************************************************************************)
LEMMA CallExtends ==
  ASSUME MemberExact, TypeOK, Elements(printed) \subseteq Elements(known),
         NEW frames, Chain(frames, known, printed),
         NEW c \in Class \union {None},
         NEW r \in {"none", "superclass", "mixin"}, r = "none" <=> frames = <<>>,
         Call(frames, c, r)
  PROVE  /\ Chain(stack', known', printed)
         /\ known' \in Seq(Class)
         /\ Elements(printed) \subseteq Elements(known')
<1>0. known \in Seq(Class)
  BY DEF TypeOK
<1>1. CASE c = None \/ IsMember(known, c)
  BY <1>0, <1>1 DEF Call
<1>2. CASE ~ (c = None \/ IsMember(known, c))
  <2> DEFINE f == [cls |-> c, relationship |-> r, at |-> "super", next |-> 1, counter |-> 1]
  <2>1. c \in Class /\ c \notin Elements(known)
    BY <1>0, <1>2 DEF MemberExact
  <2>2. known' = Append(known, c) /\ stack' = Append(frames, f)
    BY <1>2 DEF Call, NewFrame
  <2>3. known' \in Seq(Class) /\ Elements(known') = Elements(known) \union {c}
    BY <1>0, <2>1, <2>2, ElementsOfAppend
  <2>4. f \in Frame /\ f.cls = c /\ f.relationship = r
    BY <2>1 DEF Frame
  <2> HIDE DEF f
  <2>5. /\ frames \in Seq(Frame) /\ Len(frames) \in Nat /\ DOMAIN frames = 1 .. Len(frames)
        /\ stack' \in Seq(Frame) /\ DOMAIN stack' = 1 .. Len(frames) + 1
        /\ stack'[Len(frames) + 1] = f
        /\ \A i \in DOMAIN frames : stack'[i] = frames[i]
        /\ \A i \in DOMAIN stack' : i \in DOMAIN frames \/ i = Len(frames) + 1
    BY <2>2, <2>4 DEF Chain
  <2>6. r = "none" <=> Len(frames) + 1 = 1
    BY <2>5
  <2>7. \A i \in DOMAIN stack' : stack'[i].relationship = "none" <=> i = 1
    BY <2>4, <2>5, <2>6 DEF Chain
  <2>8. \A i \in DOMAIN frames : frames[i].cls # c
    BY <2>1 DEF Chain
  <2>9. \A i, j \in DOMAIN stack' : stack'[i].cls = stack'[j].cls => i = j
    BY <2>4, <2>5, <2>8 DEF Chain
  <2>10. \A i \in DOMAIN stack' : /\ stack'[i].cls \in Elements(known')
                                  /\ stack'[i].cls \notin Elements(printed)
    BY <2>1, <2>3, <2>4, <2>5 DEF Chain
  <2> QED
    BY <2>3, <2>5, <2>7, <2>9, <2>10 DEF Chain
<1> QED
  BY <1>1, <1>2

(***************************************************************************)
(* Without its topmost activation the chain is still one, also when that   *)
(* activation's class has just been output.                                *)
(***************************************************************************)
LEMMA PopChain ==
  ASSUME NEW added, NEW out \in Seq(Class), NEW frames, frames # <<>>,
         Chain(frames, added, out)
  PROVE  LET rest == SubSeq(frames, 1, Len(frames) - 1)
         IN  Chain(rest, added, Append(out, frames[Len(frames)].cls))
<1> DEFINE rest == SubSeq(frames, 1, Len(frames) - 1)
           c == frames[Len(frames)].cls
<1>1. /\ frames \in Seq(Frame) /\ Len(frames) \in Nat \ {0}
      /\ DOMAIN frames = 1 .. Len(frames)
  BY DEF Chain
<1>2. /\ rest \in Seq(Frame) /\ DOMAIN rest = 1 .. Len(frames) - 1
      /\ \A i \in DOMAIN rest : rest[i] = frames[i]
  BY <1>1
<1>3. frames[Len(frames)] \in Frame
  BY <1>1
<1>4. c \in Class
  BY <1>3 DEF Frame
<1>5. Elements(Append(out, c)) = Elements(out) \union {c}
  BY <1>4, ElementsOfAppend
<1>6. \A i \in DOMAIN rest : i \in DOMAIN frames /\ i # Len(frames)
  BY <1>1, <1>2
<1>7. \A i \in DOMAIN rest : frames[i].cls # c
  BY <1>1, <1>6 DEF Chain
<1> HIDE DEF rest, c
<1>8. Chain(rest, added, Append(out, c))
  BY <1>2, <1>5, <1>6, <1>7 DEF Chain
<1> QED
  BY <1>8 DEF rest, c

LEMMA InitInv == Init => Inv
<1> SUFFICES ASSUME Init PROVE Inv
  OBVIOUS
<1>1. mixins \in [Infras -> MixinLists]
  BY DEF Init
<1>2. TypeOK
  BY <1>1 DEF Init, TypeOK
<1>3. DOMAIN stack = {} /\ DOMAIN printed = {}
  BY DEF Init
<1> QED
  BY <1>2, <1>3 DEF Init, Inv, Chain, PrintedOnce, NoDuplicates, Elements, TypeOK

(***************************************************************************)
(* What a step that calls or returns leaves as it is.                      *)
(***************************************************************************)
LEMMA CallStep ==
  ASSUME MemberExact, Inv,
         NEW frames, Chain(frames, known, printed),
         NEW c \in Class \union {None},
         NEW r \in {"none", "superclass", "mixin"}, r = "none" <=> frames = <<>>,
         Call(frames, c, r),
         UNCHANGED <<runtime, printed, edges>>,
         pc' \in {"fopen", "dumping", "closed", "failed"}
  PROVE  Inv'
<1>1. /\ Chain(stack', known', printed)
      /\ known' \in Seq(Class)
      /\ Elements(printed) \subseteq Elements(known')
  BY CallExtends DEF Inv
<1>2. TypeOK'
  BY <1>1 DEF Inv, TypeOK, Chain, runtime
<1>3. PrintedOnce'
  BY DEF Inv, PrintedOnce
<1> QED
  BY <1>1, <1>2, <1>3 DEF Inv

LEMMA TopFrame ==
  ASSUME Inv, stack # <<>>
  PROVE  Top \in Frame /\ Top.cls \in Class /\ Len(stack) \in Nat \ {0}
<1>1. stack \in Seq(Frame) /\ Len(stack) \in Nat \ {0}
  BY DEF Inv, TypeOK
<1>2. Top \in Frame
  BY <1>1 DEF Top
<1> QED
  BY <1>1, <1>2 DEF Frame

LEMMA VisitSuperInv == MemberExact /\ Inv /\ VisitSuper => Inv'
<1> SUFFICES ASSUME MemberExact, Inv, VisitSuper PROVE Inv'
  OBVIOUS
<1> DEFINE f == [Top EXCEPT !.at = "mixins"]
           frames == [stack EXCEPT ![Len(stack)].at = "mixins"]
<1>1. Top \in Frame /\ Top.cls \in Class /\ stack # <<>>
  BY TopFrame DEF VisitSuper
<1>2. f \in Frame /\ f.cls = Top.cls /\ f.relationship = Top.relationship
  BY <1>1 DEF Frame
<1>3. frames = [stack EXCEPT ![Len(stack)] = f]
  BY DEF Top
<1>4. Chain(frames, known, printed) /\ Len(frames) = Len(stack)
  BY <1>1, <1>2, <1>3, UpdateTop DEF Inv, Top
<1>5. frames # <<>>
  BY <1>1, <1>4 DEF Chain
<1>6. Superclass(Top.cls) \in Class \union {None}
  BY <1>1, SuperclassType DEF Inv
<1>7. UNCHANGED <<runtime, printed, edges>> /\ pc' \in {"fopen", "dumping", "closed", "failed"}
  BY DEF VisitSuper, Inv, TypeOK
<1> HIDE DEF f, frames
<1>8. CASE FollowsSuper(Top.cls)
  <2>1. Call(frames, Superclass(Top.cls), "superclass")
    BY <1>8 DEF VisitSuper, frames
  <2> QED
    BY <1>4, <1>5, <1>6, <1>7, <2>1, CallStep
<1>9. CASE ~ FollowsSuper(Top.cls)
  <2>1. stack' = frames /\ known' = known
    BY <1>9 DEF VisitSuper, frames
  <2> QED
    BY <1>4, <1>7, <2>1 DEF Inv, TypeOK, Chain, runtime, PrintedOnce
<1> QED
  BY <1>8, <1>9

LEMMA VisitMixinInv == MemberExact /\ Inv /\ VisitMixin => Inv'
<1> SUFFICES ASSUME MemberExact, Inv, VisitMixin PROVE Inv'
  OBVIOUS
<1> DEFINE f == [Top EXCEPT !.next = Top.next + 1]
           frames == [stack EXCEPT ![Len(stack)].next = Top.next + 1]
<1>1. Top \in Frame /\ Top.cls \in Class /\ stack # <<>>
  BY TopFrame DEF VisitMixin
<1>2. f \in Frame /\ f.cls = Top.cls /\ f.relationship = Top.relationship
  BY <1>1 DEF Frame
<1>3. frames = [stack EXCEPT ![Len(stack)] = f]
  BY DEF Top
<1>4. Chain(frames, known, printed) /\ Len(frames) = Len(stack)
  BY <1>1, <1>2, <1>3, UpdateTop DEF Inv, Top
<1>5. frames # <<>>
  BY <1>1, <1>4 DEF Chain
<1>6. MixinOf(Top.cls, Top.next) \in Class
  BY <1>1, MixinType DEF Inv, VisitMixin
<1>7. UNCHANGED <<runtime, printed, edges>> /\ pc' \in {"fopen", "dumping", "closed", "failed"}
  BY DEF VisitMixin, Inv, TypeOK
<1>8. Call(frames, MixinOf(Top.cls, Top.next), "mixin")
  BY DEF VisitMixin
<1> HIDE DEF f, frames
<1> QED
  BY <1>4, <1>5, <1>6, <1>7, <1>8, CallStep

(***************************************************************************)
(* The class output is the topmost activation's: nobody has output it, and *)
(* with its activation gone nobody will.                                   *)
(***************************************************************************)
LEMMA PrintClassInv == Inv /\ PrintClass => Inv'
<1> SUFFICES ASSUME Inv, PrintClass PROVE Inv'
  OBVIOUS
<1> DEFINE c == Top.cls
           caller == Rest[Len(Rest)]
<1>1. /\ Top \in Frame /\ c \in Class /\ stack # <<>>
      /\ Top.relationship \in {"none", "superclass", "mixin"}
  BY TopFrame DEF PrintClass, Frame
<1>2. printed' = Append(printed, c) /\ UNCHANGED <<runtime, pc, known>>
  BY DEF PrintClass
<1>3. printed \in Seq(Class) /\ c \in Elements(known) /\ c \notin Elements(printed)
  BY <1>1, TopFrame DEF Inv, TypeOK, Chain, Top
<1>4. /\ printed' \in Seq(Class)
      /\ Elements(printed') = Elements(printed) \union {c}
  BY <1>1, <1>2, <1>3, ElementsOfAppend
<1>5. PrintedOnce'
  BY <1>1, <1>2, <1>3, AppendNew DEF Inv, PrintedOnce
<1>6. Chain(Rest, known, printed')
  BY <1>1, <1>2, <1>3, PopChain DEF Inv, Rest, Top
<1>7. Elements(printed') \subseteq Elements(known)
  BY <1>3, <1>4 DEF Inv
<1>8. Chain(stack', known, printed') /\ edges' \in Seq(Edge)
  <2>1. CASE Top.relationship = "none"
    BY <1>6, <2>1 DEF PrintClass, Inv, TypeOK
  <2>2. CASE Top.relationship # "none"
    <3>1. PrintEdge
      BY <2>2 DEF PrintClass
    <3>2. Rest # <<>> /\ caller \in Frame /\ caller.cls \in Class /\ caller.counter \in Nat
      <4>1. Len(stack) \in Nat \ {0} /\ Len(stack) # 1 /\ stack \in Seq(Frame)
        BY <1>1, <2>2, TopFrame DEF Inv, TypeOK, Chain, Top
      <4>2. Rest \in Seq(Frame) /\ Len(Rest) = Len(stack) - 1
        BY <4>1 DEF Rest
      <4>3. Rest # <<>> /\ caller \in Frame
        BY <4>1, <4>2
      <4> QED
        BY <4>3 DEF Frame
    <3>3. edges' \in Seq(Edge)
      <4>1. [from |-> c, to |-> caller.cls, relationship |-> Top.relationship,
             nr |-> caller.counter - 1] \in Edge
        BY <1>1, <2>2, <3>2 DEF Edge
      <4> QED
        BY <3>1, <4>1 DEF PrintEdge, Inv, TypeOK
    <3>4. CASE Top.relationship = "mixin"
      <4> DEFINE f == [caller EXCEPT !.counter = caller.counter + 1]
      <4>1. f \in Frame /\ f.cls = caller.cls /\ f.relationship = caller.relationship
        BY <3>2 DEF Frame
      <4>2. stack' = [Rest EXCEPT ![Len(Rest)] = f]
        BY <3>1, <3>4 DEF PrintEdge
      <4> HIDE DEF f
      <4> QED
        BY <1>6, <3>2, <3>3, <4>1, <4>2, UpdateTop
    <3> QED
      BY <1>6, <3>1, <3>3, <3>4 DEF PrintEdge
  <2> QED
    BY <2>1, <2>2
<1> QED
  BY <1>2, <1>4, <1>5, <1>7, <1>8 DEF Inv, TypeOK, Chain, runtime

LEMMA NextInv == MemberExact /\ Inv /\ [Next]_vars => Inv'
<1> SUFFICES ASSUME MemberExact, Inv, [Next]_vars PROVE Inv'
  OBVIOUS
<1>1. CASE Open
  <2>1. Chain(<<>>, known, printed)
    BY DEF Chain
  <2>2. start \in Class \union {None}
    BY DEF Inv, TypeOK
  <2> QED
    BY <1>1, <2>1, <2>2, CallStep DEF Open
<1>2. CASE VisitSuper
  BY <1>2, VisitSuperInv
<1>3. CASE VisitMixin
  BY <1>3, VisitMixinInv
<1>4. CASE PrintClass
  BY <1>4, PrintClassInv
<1>5. CASE OpenFails \/ Close
  BY <1>5 DEF OpenFails, Close, Inv, TypeOK, PrintedOnce, runtime
<1>6. CASE UNCHANGED vars
  BY <1>6 DEF vars, Inv, TypeOK, PrintedOnce
<1> QED
  BY <1>1, <1>2, <1>3, <1>4, <1>5, <1>6 DEF Next

LEMMA Invariance ==
  ASSUME MemberExact
  PROVE  Spec => []Inv
BY InitInv, NextInv, PTL DEF Spec

-------------------------------------------------------------------------------
(***************************************************************************)
(* "output each class only once", over any runtime, given a set that knows *)
(* what was added to it.  Nor is a class ever in the middle of being dumped*)
(* twice: the recursion is no deeper than there are classes.               *)
(***************************************************************************)
THEOREM EachClassOnce ==
  ASSUME MemberExact
  PROVE  Spec => []EachOnce
<1>1. Inv => EachOnce
  BY DEF Inv, Chain, EachOnce, NoReentry
<1> QED
  BY <1>1, Invariance, PTL

(***************************************************************************)
(* The types hold in every reachable state.                                *)
(***************************************************************************)
THEOREM HierarchyTypes ==
  ASSUME MemberExact
  PROVE  Spec => []TypeOK
<1>1. Inv => TypeOK
  BY DEF Inv
<1> QED
  BY <1>1, Invariance, PTL

-------------------------------------------------------------------------------
(***************************************************************************)
(* The dump is in order and complete: superclasses above their subclasses, *)
(* and everything that belongs to a class output, for every class graph,   *)
(* every cycle of mixins and every starting class.                         *)
(***************************************************************************)
(***************************************************************************)
(* What the runtime promises and never takes back.                         *)
(***************************************************************************)
ClassGraph == Loadable(super) /\ \A m \in MixinClasses : super[m] = None

\* the class of an activation is a superclass of the caller's, or from a mixin on a mixin
Reached(frames) ==
  /\ \A i \in DOMAIN frames : IsMeta(frames[i].cls) => DumpsMeta
  /\ \A i \in DOMAIN frames :
       frames[i].relationship = "superclass" =>
         /\ i - 1 \in DOMAIN frames
         /\ FollowsSuper(frames[i - 1].cls)
         /\ frames[i].cls = Superclass(frames[i - 1].cls)
  /\ \A i, j \in DOMAIN frames :
       i <= j /\ frames[i].relationship = "mixin" => frames[j].cls[1] \in MixinClasses

\* a superclass that was dealt with is output, unless it is the next activation's class
SuperDone(frames, out) ==
  \A i \in DOMAIN frames :
    frames[i].at = "mixins" /\ FollowsSuper(frames[i].cls) =>
      \/ Superclass(frames[i].cls) \in Elements(out)
      \/ i + 1 \in DOMAIN frames /\ frames[i + 1].cls = Superclass(frames[i].cls)

\* the mixins before the next one are known
MixinsDone(frames, added) ==
  \A i \in DOMAIN frames :
    /\ frames[i].next # 0
    /\ \A m \in DOMAIN mixins[frames[i].cls[1]] :
         m < frames[i].next => MixinOf(frames[i].cls, m) \in Elements(added)

\* nobody is forgotten: a known class is output or in the middle of being dumped
NoneForgotten(frames, added, out) ==
  \A c \in Elements(added) : c \in Elements(out) \/ \E i \in DOMAIN frames : frames[i].cls = c

Progress(frames, added, out) ==
  /\ Reached(frames)
  /\ SuperDone(frames, out)
  /\ MixinsDone(frames, added)
  /\ NoneForgotten(frames, added, out)

MixinsKnown(added, out) ==
  \A c \in Elements(out) : \A m \in DOMAIN mixins[c[1]] : MixinOf(c, m) \in Elements(added)

OrderInv == /\ ClassGraph
            /\ Progress(stack, known, printed)
            /\ SuperAbove
            /\ MixinsKnown(known, printed)
            /\ pc # "dumping" => stack = <<>>
            /\ pc = "fopen" => known = <<>>
            /\ pc \in {"dumping", "closed"} /\ start # None => start \in Elements(known)

-------------------------------------------------------------------------------
\* No superclass is followed from a mixin: it is a root, and the wrap-around spares it.
LEMMA MixinIsRoot ==
  ASSUME ClassGraph, NEW c \in Class, c[1] \in MixinClasses, IsMeta(c) => DumpsMeta
  PROVE  ~ FollowsSuper(c)
<1>1. super[c[1]] = None
  BY DEF ClassGraph
<1>2. CASE IsMeta(c)
  <2>1. Superclass(c) = <<c[1], "infra">> /\ ~ IsMeta(Superclass(c)) /\ DumpsMeta
    BY <1>1, <1>2 DEF Superclass, IsMeta
  <2> QED BY <2>1 DEF FollowsSuper
<1>3. CASE ~ IsMeta(c)
  BY <1>1, <1>3 DEF Superclass, FollowsSuper
<1> QED BY <1>2, <1>3

(***************************************************************************)
(* Followed superclasses do not lead back, the wrap-around from the root   *)
(* metaclass to the root infraclass included.                              *)
(***************************************************************************)
LEMMA NoWayBack ==
  ASSUME TypeOK, ClassGraph, NEW D \in SUBSET Class, D # {},
         \A c \in D : FollowsSuper(c) /\ Superclass(c) \in D
  PROVE  FALSE
<1>1. \A c \in D : c[1] \in Infras /\ super[c[1]] # None
  <2> TAKE c \in D
  <2>1. c \in Class /\ c[1] \in Infras
    BY DEF Class
  <2>2. SUFFICES ASSUME super[c[1]] = None PROVE FALSE
    BY <2>1
  <2>3. Superclass(c) \in D /\ Superclass(c) # None
    BY HierarchyAssumption
  <2>4. Superclass(c) = <<c[1], "infra">>
    BY <2>2, <2>3 DEF Superclass
  <2>5. Superclass(<<c[1], "infra">>) = None
    BY <2>2 DEF Superclass, IsMeta
  <2> QED BY <2>3, <2>4, <2>5, HierarchyAssumption
<1> DEFINE Pairs == {c[1] : c \in D}
<1>2. \A c \in D : super[c[1]] \in Pairs
  <2> TAKE c \in D
  <2>1. Superclass(c) = <<super[c[1]], c[2]>> /\ Superclass(c) \in D
    BY <1>1 DEF Superclass
  <2>2. <<super[c[1]], c[2]>>[1] = super[c[1]]
    OBVIOUS
  <2> QED BY <2>1, <2>2
<1>3. Pairs \subseteq Infras /\ Pairs # {}
  BY <1>1
<1> QED BY <1>2, <1>3 DEF ClassGraph, Loadable

\* So the superclass the topmost activation follows is not in the middle of being dumped.
LEMMA SuperNotActive ==
  ASSUME Inv, OrderInv, stack # <<>>, FollowsSuper(Top.cls), NEW i \in DOMAIN stack
  PROVE  stack[i].cls # Superclass(Top.cls)
<1>0. /\ stack \in Seq(Frame) /\ Len(stack) \in Nat \ {0} /\ DOMAIN stack = 1 .. Len(stack)
      /\ \A j \in DOMAIN stack : stack[j] \in Frame /\ stack[j].cls \in Class
      /\ Top = stack[Len(stack)] /\ Top.cls \in Class
      /\ i \in 1 .. Len(stack)
  <2>1. stack \in Seq(Frame) /\ Len(stack) \in Nat \ {0} /\ Top.cls \in Class
    BY TopFrame DEF Inv, TypeOK
  <2>2. DOMAIN stack = 1 .. Len(stack) /\ \A j \in DOMAIN stack : stack[j] \in Frame
    BY <2>1
  <2>3. \A f \in Frame : f.cls \in Class
    BY DEF Frame
  <2> QED BY <2>1, <2>2, <2>3 DEF Top
<1>1. Reached(stack) /\ ClassGraph /\ TypeOK
  BY DEF OrderInv, Progress, Inv
<1>2. SUFFICES ASSUME stack[i].cls = Superclass(Top.cls) PROVE FALSE
  OBVIOUS
<1>3. Top.cls[1] \notin MixinClasses
  BY <1>0, <1>1, MixinIsRoot DEF Reached
<1>4. \A j \in i + 1 .. Len(stack) : stack[j].relationship = "superclass"
  <2> TAKE j \in i + 1 .. Len(stack)
  <2>0. i \in 1 .. Len(stack) /\ j \in DOMAIN stack /\ j # 1
    BY <1>0
  <2>1. stack[j].relationship \in {"none", "superclass", "mixin"}
    BY <1>0, <2>0 DEF Frame
  <2>2. stack[j].relationship # "mixin"
    BY <1>0, <1>1, <1>3, <2>0 DEF Reached
  <2>3. stack[j].relationship # "none"
    BY <2>0 DEF Inv, Chain
  <2> QED BY <2>1, <2>2, <2>3
<1> DEFINE D == {stack[j].cls : j \in i .. Len(stack)}
<1>5. D \in SUBSET Class /\ D # {}
  BY <1>0
<1>6. \A j \in i .. Len(stack) : FollowsSuper(stack[j].cls) /\ Superclass(stack[j].cls) \in D
  <2> TAKE j \in i .. Len(stack)
  <2>1. CASE j = Len(stack)
    BY <1>0, <1>2, <2>1
  <2>2. CASE j # Len(stack)
    <3>1. j + 1 \in i + 1 .. Len(stack) /\ j + 1 \in i .. Len(stack) /\ j + 1 \in DOMAIN stack
          /\ (j + 1) - 1 = j
      <4>0. i \in Nat /\ Len(stack) \in Nat
        BY <1>0
      <4>1. j \in Nat /\ i <= j /\ j < Len(stack)
        BY <4>0, <2>2
      <4>2. DOMAIN stack = 1 .. Len(stack) /\ i \in 1 .. Len(stack)
        BY <1>0
      <4> QED BY <4>1, <4>2
    <3>2. FollowsSuper(stack[j].cls) /\ stack[j + 1].cls = Superclass(stack[j].cls)
      BY <1>1, <1>4, <3>1 DEF Reached
    <3> QED BY <3>1, <3>2
  <2> QED BY <2>1, <2>2
<1> QED BY <1>1, <1>5, <1>6, NoWayBack

-------------------------------------------------------------------------------
\* Where the classes are and how they were reached does not depend on the rest.
LEMMA SameShape ==
  ASSUME NEW added, NEW out, NEW frames, NEW g, DOMAIN g = DOMAIN frames,
         \A i \in DOMAIN frames : /\ g[i].cls = frames[i].cls
                                  /\ g[i].relationship = frames[i].relationship,
         Reached(frames), NoneForgotten(frames, added, out)
  PROVE  Reached(g) /\ NoneForgotten(g, added, out)
<1>1. Reached(g)
  BY DEF Reached
<1>2. NoneForgotten(g, added, out)
  BY DEF NoneForgotten
<1> QED BY <1>1, <1>2

(***************************************************************************)
(* A call that goes through: what the new activation is about, be it the   *)
(* superclass or the next mixin of the activation before it.               *)
(***************************************************************************)
LEMMA Push ==
  ASSUME TypeOK, ClassGraph, NEW frames \in Seq(Frame),
         NEW added \in Seq(Class), NEW out, NEW c \in Class,
         NEW r \in {"none", "superclass", "mixin"}, IsMeta(c) => DumpsMeta,
         r = "superclass" => /\ frames # <<>>
                             /\ FollowsSuper(frames[Len(frames)].cls)
                             /\ c = Superclass(frames[Len(frames)].cls),
         r = "mixin" => c[1] \in MixinClasses,
         r = "none" => frames = <<>>,
         Reached(frames), NoneForgotten(frames, added, out),
         MixinsDone(frames, Append(added, c)),
         \A i \in DOMAIN frames : frames[i].at = "mixins" /\ FollowsSuper(frames[i].cls) =>
           \/ Superclass(frames[i].cls) \in Elements(out)
           \/ i + 1 \in DOMAIN frames /\ frames[i + 1].cls = Superclass(frames[i].cls)
           \/ i = Len(frames) /\ c = Superclass(frames[i].cls)
  PROVE  Progress(Append(frames, NewFrame(c, r)), Append(added, c), out)
<1> DEFINE f == NewFrame(c, r)
           g == Append(frames, f)
<1>1. /\ f \in Frame /\ f.cls = c /\ f.relationship = r /\ f.at = "super" /\ f.next = 1
  BY DEF NewFrame, Frame
<1> HIDE DEF f
<1>2. /\ Len(frames) \in Nat /\ DOMAIN frames = 1 .. Len(frames)
      /\ DOMAIN g = 1 .. Len(frames) + 1 /\ g[Len(frames) + 1] = f
      /\ \A i \in DOMAIN frames : g[i] = frames[i] /\ i \in DOMAIN g
      /\ \A i \in DOMAIN g : i \in DOMAIN frames \/ i = Len(frames) + 1
  BY <1>1
<1> HIDE DEF g
<1>3. Elements(Append(added, c)) = Elements(added) \union {c}
  BY ElementsOfAppend
<1>4. Reached(g)
  <2>1. \A i \in DOMAIN g : IsMeta(g[i].cls) => DumpsMeta
    BY <1>1, <1>2 DEF Reached
  <2>2. ASSUME NEW i \in DOMAIN g, g[i].relationship = "superclass"
        PROVE  /\ i - 1 \in DOMAIN g
               /\ FollowsSuper(g[i - 1].cls)
               /\ g[i].cls = Superclass(g[i - 1].cls)
    <3>1. CASE i \in DOMAIN frames
      BY <1>2, <2>2, <3>1 DEF Reached
    <3>2. CASE i = Len(frames) + 1
      <4>1. r = "superclass" /\ i - 1 = Len(frames)
        BY <1>1, <1>2, <2>2, <3>2
      <4>2. Len(frames) \in DOMAIN frames
        BY <1>2, <4>1
      <4> QED BY <1>1, <1>2, <3>2, <4>1, <4>2
    <3> QED BY <1>2, <3>1, <3>2
  <2>3. ASSUME NEW i \in DOMAIN g, NEW j \in DOMAIN g, i <= j, g[i].relationship = "mixin"
        PROVE  g[j].cls[1] \in MixinClasses
    <3>1. CASE j \in DOMAIN frames
      <4>1. i \in DOMAIN frames
        BY <1>2, <2>3, <3>1
      <4> QED BY <1>2, <2>3, <3>1, <4>1 DEF Reached
    <3>2. CASE j = Len(frames) + 1 /\ i = j
      BY <1>1, <1>2, <2>3, <3>2
    <3>3. CASE j = Len(frames) + 1 /\ i # j
      <4>1. i \in DOMAIN frames /\ Len(frames) \in DOMAIN frames /\ i <= Len(frames)
        BY <1>2, <2>3, <3>3
      <4>2. frames[Len(frames)].cls[1] \in MixinClasses
        BY <1>2, <2>3, <4>1 DEF Reached
      <4>3. frames[Len(frames)].cls \in Class
        <5>1. frames[Len(frames)] \in Frame
          BY <1>2, <4>1
        <5> QED BY <5>1 DEF Frame
      <4>4. IsMeta(frames[Len(frames)].cls) => DumpsMeta
        BY <4>1 DEF Reached
      <4>5. r # "superclass"
        BY <4>2, <4>3, <4>4, MixinIsRoot
      <4>6. r # "none"
        BY <4>1
      <4> QED BY <1>1, <1>2, <3>3, <4>5, <4>6
    <3> QED BY <1>2, <3>1, <3>2, <3>3
  <2> QED BY <2>1, <2>2, <2>3 DEF Reached
<1>5. SuperDone(g, out)
  BY <1>1, <1>2 DEF SuperDone
<1>6. MixinsDone(g, Append(added, c))
  <2>1. ASSUME NEW i \in DOMAIN g, NEW m \in DOMAIN mixins[g[i].cls[1]], m < g[i].next
        PROVE  MixinOf(g[i].cls, m) \in Elements(Append(added, c))
    <3>1. CASE i \in DOMAIN frames
      BY <1>2, <2>1, <3>1 DEF MixinsDone
    <3>2. CASE i = Len(frames) + 1
      <4>1. mixins[c[1]] \in MixinLists
        BY DEF TypeOK, Class
      <4>2. DOMAIN mixins[c[1]] \subseteq Nat \ {0}
        BY <4>1, HierarchyAssumption DEF MixinLists
      <4> QED BY <1>1, <1>2, <2>1, <3>2, <4>2
    <3> QED BY <1>2, <3>1, <3>2
  <2>2. \A i \in DOMAIN g : g[i].next # 0
    BY <1>1, <1>2 DEF MixinsDone
  <2> QED BY <2>1, <2>2 DEF MixinsDone
<1>7. NoneForgotten(g, Append(added, c), out)
  BY <1>1, <1>2, <1>3 DEF NoneForgotten
<1> QED BY <1>4, <1>5, <1>6, <1>7 DEF Progress, g, f

LEMMA AllButLast ==
  ASSUME NEW S, NEW s \in Seq(S), s # <<>>
  PROVE  /\ SubSeq(s, 1, Len(s) - 1) \in Seq(S)
         /\ Len(SubSeq(s, 1, Len(s) - 1)) = Len(s) - 1
         /\ DOMAIN SubSeq(s, 1, Len(s) - 1) = 1 .. Len(s) - 1
<1>1. Len(s) \in Nat \ {0} /\ DOMAIN SubSeq(s, 1, Len(s) - 1) = 1 .. Len(s) - 1
  OBVIOUS
<1>2. SubSeq(s, 1, Len(s) - 1) \in Seq(S)
  OBVIOUS
<1> DEFINE rest == SubSeq(s, 1, Len(s) - 1)
<1>3. Len(rest) = Len(s) - 1
  <2>1. rest \in Seq(S) /\ DOMAIN rest = 1 .. Len(s) - 1
    BY <1>1, <1>2
  <2> HIDE DEF rest
  <2>2. DOMAIN rest = 1 .. Len(rest) /\ Len(rest) \in Nat
    BY <2>1
  <2>3. 1 .. Len(rest) = 1 .. Len(s) - 1
    BY <2>1, <2>2
  <2>4. CASE Len(rest) < Len(s) - 1
    <3>1. Len(s) - 1 \in 1 .. Len(rest)
      BY <1>1, <2>2, <2>3, <2>4
    <3> QED BY <1>1, <2>2, <2>4, <3>1
  <2>5. CASE Len(s) - 1 < Len(rest)
    <3>1. Len(rest) \in 1 .. Len(s) - 1
      BY <1>1, <2>2, <2>3, <2>5
    <3> QED BY <1>1, <2>2, <2>5, <3>1
  <2> QED BY <1>1, <2>2, <2>4, <2>5
<1> QED BY <1>1, <1>2, <1>3

(***************************************************************************)
(* A return: the class of the topmost activation has been output.          *)
(***************************************************************************)
LEMMA Pop ==
  ASSUME NEW added, NEW out \in Seq(Class), NEW frames \in Seq(Frame), frames # <<>>,
         frames[Len(frames)].at = "mixins",
         Progress(frames, added, out)
  PROVE  Progress(SubSeq(frames, 1, Len(frames) - 1), added,
                  Append(out, frames[Len(frames)].cls))
<1> DEFINE rest == SubSeq(frames, 1, Len(frames) - 1)
           c == frames[Len(frames)].cls
<1>1. /\ Len(frames) \in Nat \ {0} /\ DOMAIN frames = 1 .. Len(frames)
      /\ DOMAIN rest = 1 .. Len(frames) - 1
      /\ \A i \in DOMAIN rest : rest[i] = frames[i] /\ i \in DOMAIN frames /\ i # Len(frames)
      /\ \A i \in DOMAIN frames : i \in DOMAIN rest \/ i = Len(frames)
      /\ \A i \in DOMAIN rest : i + 1 \in DOMAIN rest \/ i + 1 = Len(frames)
      /\ \A i \in DOMAIN rest : i - 1 \in DOMAIN frames => i - 1 \in DOMAIN rest
  OBVIOUS
<1>2. c \in Class
  <2>1. frames[Len(frames)] \in Frame
    BY <1>1
  <2> QED BY <2>1 DEF Frame
<1>3. Elements(Append(out, c)) = Elements(out) \union {c}
  BY <1>2, ElementsOfAppend
<1> HIDE DEF rest, c
<1>4. Reached(rest)
  BY <1>1 DEF Reached, Progress
<1>5. SuperDone(rest, Append(out, c))
  BY <1>1, <1>3 DEF SuperDone, Progress, c
<1>6. MixinsDone(rest, added)
  BY <1>1 DEF MixinsDone, Progress
<1>7. NoneForgotten(rest, added, Append(out, c))
  BY <1>1, <1>3 DEF NoneForgotten, Progress, c
<1> QED BY <1>4, <1>5, <1>6, <1>7 DEF Progress, rest, c

\* The same about the primed stack, when the runtime is what it was.
LEMMA ProgressPrimed ==
  ASSUME UNCHANGED runtime, Progress(stack', known', printed')
  PROVE  Progress(stack, known, printed)'
<1>1. super' = super /\ mixins' = mixins /\ start' = start
  BY DEF runtime
<1>2. DumpsMeta' = DumpsMeta /\ \A c : Superclass(c)' = Superclass(c)
  BY <1>1 DEF DumpsMeta, Superclass
<1>3. \A c : FollowsSuper(c)' <=> FollowsSuper(c)
  BY <1>2 DEF FollowsSuper, DumpsMeta, Superclass
<1>4. \A c, m : MixinOf(c, m)' = MixinOf(c, m)
  BY <1>1, <1>2 DEF MixinOf
<1>5. Reached(stack)'
  BY <1>2, <1>3 DEF Progress, Reached
<1>6. SuperDone(stack, printed)'
  BY <1>2, <1>3 DEF Progress, SuperDone
<1>7. MixinsDone(stack, known)'
  BY <1>1, <1>4 DEF Progress, MixinsDone
<1>8. NoneForgotten(stack, known, printed)'
  BY DEF Progress, NoneForgotten
<1> QED BY <1>5, <1>6, <1>7, <1>8 DEF Progress

-------------------------------------------------------------------------------
\* What the caller of the dump and the classes already output need of a step that outputs none.
LEMMA CallKeeps ==
  ASSUME OrderInv, UNCHANGED <<runtime, printed>>, pc' = "dumping" \/ (pc' = pc /\ stack # <<>>),
         Elements(known) \subseteq Elements(known'),
         start # None => start \in Elements(known'),
         Progress(stack', known', printed')
  PROVE  OrderInv'
<1>1. super' = super /\ mixins' = mixins /\ start' = start /\ printed' = printed
  BY DEF runtime
<1>2. DumpsMeta' = DumpsMeta /\ \A c : Superclass(c)' = Superclass(c)
  BY <1>1 DEF DumpsMeta, Superclass
<1>3. \A c : FollowsSuper(c)' <=> FollowsSuper(c)
  BY <1>2 DEF FollowsSuper, DumpsMeta, Superclass
<1>4. \A c, m : MixinOf(c, m)' = MixinOf(c, m)
  BY <1>1, <1>2 DEF MixinOf
<1>5. SuperAbove'
  BY <1>1, <1>2, <1>3 DEF OrderInv, SuperAbove
<1>6. MixinsKnown(known, printed)'
  BY <1>1, <1>4 DEF OrderInv, MixinsKnown
<1>7. ClassGraph'
  BY <1>1 DEF OrderInv, ClassGraph
<1>8. pc' = "dumping"
  BY DEF OrderInv
<1> QED BY <1>1, <1>5, <1>6, <1>7, <1>8, ProgressPrimed DEF OrderInv

\* The kinds and the names the dump goes on to.
LEMMA SuperclassKind ==
  ASSUME NEW c \in Class, IsMeta(c) => DumpsMeta, FollowsSuper(c)
  PROVE  IsMeta(Superclass(c)) => DumpsMeta
BY DEF Superclass, FollowsSuper, IsMeta, Class

LEMMA OpenOrder == MemberExact /\ Inv /\ OrderInv /\ Open => OrderInv'
<1> SUFFICES ASSUME MemberExact, Inv, OrderInv, Open PROVE OrderInv'
  OBVIOUS
<1>1. /\ known = <<>> /\ UNCHANGED <<runtime, printed>> /\ pc' = "dumping"
      /\ Call(<<>>, start, "none")
  BY DEF OrderInv, Open
<1>2. known \in Seq(Class) /\ Elements(known) = {} /\ start \in Class \union {None}
  BY <1>1 DEF Elements, Inv, TypeOK
<1>3. Elements(printed) = {}
  BY <1>2 DEF Inv
<1>4. CASE start = None
  <2>1. stack' = <<>> /\ known' = known
    BY <1>1, <1>4 DEF Call
  <2>2. Progress(stack', known', printed')
    BY <1>2, <2>1 DEF Progress, Reached, SuperDone, MixinsDone, NoneForgotten
  <2> QED BY <1>1, <1>4, <2>1, <2>2, CallKeeps
<1>5. CASE start # None
  <2>1. ~ IsMember(known, start) /\ start \in Class
    BY <1>2, <1>5 DEF MemberExact
  <2>2. known' = Append(known, start) /\ stack' = Append(<<>>, NewFrame(start, "none"))
    BY <1>1, <1>5, <2>1 DEF Call
  <2>3. Elements(known') = {start}
    BY <1>2, <2>1, <2>2, ElementsOfAppend
  <2>4. IsMeta(start) => DumpsMeta
    BY <1>5 DEF DumpsMeta
  <2>5. <<>> \in Seq(Frame) /\ DOMAIN <<>> = {}
    OBVIOUS
  <2>6. Reached(<<>>) /\ NoneForgotten(<<>>, known, printed) /\ MixinsDone(<<>>, Append(known, start))
    BY <1>2 DEF Reached, NoneForgotten, MixinsDone
  <2>7. Progress(Append(<<>>, NewFrame(start, "none")), Append(known, start), printed)
    BY <1>2, <2>1, <2>4, <2>5, <2>6, Push DEF Inv, OrderInv
  <2> QED BY <1>1, <1>2, <2>2, <2>3, <2>7, CallKeeps
<1> QED BY <1>4, <1>5

LEMMA VisitSuperOrder == MemberExact /\ Inv /\ OrderInv /\ VisitSuper => OrderInv'
<1> SUFFICES ASSUME MemberExact, Inv, OrderInv, VisitSuper PROVE OrderInv'
  OBVIOUS
<1> DEFINE frames == [stack EXCEPT ![Len(stack)].at = "mixins"]
           n == Len(stack)
<1>1. /\ stack # <<>> /\ Top \in Frame /\ Top.cls \in Class /\ n \in Nat \ {0}
      /\ stack \in Seq(Frame) /\ known \in Seq(Class) /\ Top = stack[n]
      /\ UNCHANGED <<runtime, printed>> /\ pc' = pc /\ Top.at = "super"
  BY TopFrame DEF VisitSuper, Inv, TypeOK, Top
<1>2. /\ frames \in Seq(Frame) /\ Len(frames) = n /\ frames # <<>>
      /\ DOMAIN frames = 1 .. n /\ DOMAIN stack = 1 .. n
      /\ \A i \in 1 .. n : /\ frames[i].cls = stack[i].cls /\ frames[i].next = stack[i].next
                           /\ frames[i].relationship = stack[i].relationship
      /\ \A i \in 1 .. n : i # n => frames[i].at = stack[i].at
      /\ n \in 1 .. n
  <2>1. [Top EXCEPT !.at = "mixins"] \in Frame
    BY <1>1 DEF Frame
  <2>2. frames = [stack EXCEPT ![n] = [Top EXCEPT !.at = "mixins"]]
    BY <1>1
  <2>3. frames \in Seq(Frame) /\ DOMAIN frames = 1 .. n /\ Len(frames) = n
    BY <1>1, <2>1, <2>2
  <2>4. /\ [Top EXCEPT !.at = "mixins"].cls = Top.cls
        /\ [Top EXCEPT !.at = "mixins"].next = Top.next
        /\ [Top EXCEPT !.at = "mixins"].relationship = Top.relationship
    BY <1>1 DEF Frame
  <2>5. \A i \in 1 .. n : i # n => frames[i] = stack[i]
    BY <1>1
  <2>6. frames[n] = [Top EXCEPT !.at = "mixins"]
    BY <1>1, <2>2
  <2> QED BY <1>1, <2>3, <2>4, <2>5, <2>6
<1> HIDE DEF frames, n
<1>3. Progress(stack, known, printed) /\ ClassGraph /\ TypeOK
  BY DEF OrderInv, Inv
<1>4. Reached(frames) /\ NoneForgotten(frames, known, printed)
  BY <1>2, <1>3, SameShape DEF Progress
<1>5. MixinsDone(frames, known)
  BY <1>2, <1>3 DEF Progress, MixinsDone
<1>6. \A i \in DOMAIN frames :
        i # n /\ frames[i].at = "mixins" /\ FollowsSuper(frames[i].cls) =>
          \/ Superclass(frames[i].cls) \in Elements(printed)
          \/ i + 1 \in DOMAIN frames /\ frames[i + 1].cls = Superclass(frames[i].cls)
  BY <1>2, <1>3 DEF Progress, SuperDone
<1>7. start # None => start \in Elements(known)
  BY <1>1 DEF OrderInv, Inv, TypeOK
<1>8. CASE ~ FollowsSuper(Top.cls)
  <2>1. stack' = frames /\ known' = known
    BY <1>8 DEF VisitSuper, frames
  <2>2. SuperDone(frames, printed)
    BY <1>1, <1>2, <1>6, <1>8 DEF SuperDone
  <2> QED BY <1>1, <1>4, <1>5, <1>7, <2>1, <2>2, CallKeeps DEF Progress
<1>9. CASE FollowsSuper(Top.cls)
  <2> DEFINE s == Superclass(Top.cls)
  <2>1. Call(frames, s, "superclass") /\ s \in Class
    BY <1>1, <1>3, <1>9, SuperclassType DEF VisitSuper, frames, FollowsSuper
  <2> HIDE DEF s
  <2>2. CASE IsMember(known, s)
    <3>1. stack' = frames /\ known' = known
      BY <2>1, <2>2 DEF Call
    <3>2. s \in Elements(known)
      BY <1>1, <2>1, <2>2 DEF MemberExact
    <3>3. \A i \in DOMAIN stack : stack[i].cls # s
      BY <1>1, <1>9, SuperNotActive DEF s
    <3>4. s \in Elements(printed)
      BY <1>3, <3>2, <3>3 DEF Progress, NoneForgotten
    <3>5. SuperDone(frames, printed)
      BY <1>1, <1>2, <1>6, <3>4 DEF SuperDone, s
    <3> QED BY <1>1, <1>4, <1>5, <1>7, <3>1, <3>5, CallKeeps DEF Progress
  <2>3. CASE ~ IsMember(known, s)
    <3>1. stack' = Append(frames, NewFrame(s, "superclass")) /\ known' = Append(known, s)
      BY <2>1, <2>3, HierarchyAssumption DEF Call
    <3>2. Elements(known') = Elements(known) \union {s}
      BY <1>1, <2>1, <3>1, ElementsOfAppend
    <3>3. IsMeta(s) => DumpsMeta
      <4>1. IsMeta(Top.cls) => DumpsMeta
        BY <1>1, <1>2, <1>3 DEF Progress, Reached
      <4> QED BY <1>1, <1>9, <4>1, SuperclassKind DEF s
    <3>4. MixinsDone(frames, Append(known, s))
      BY <1>5, <3>1, <3>2 DEF MixinsDone
    <3>5. frames[Len(frames)].cls = Top.cls
      BY <1>1, <1>2
    <3>6. \A i \in DOMAIN frames : frames[i].at = "mixins" /\ FollowsSuper(frames[i].cls) =>
            \/ Superclass(frames[i].cls) \in Elements(printed)
            \/ i + 1 \in DOMAIN frames /\ frames[i + 1].cls = Superclass(frames[i].cls)
            \/ i = Len(frames) /\ s = Superclass(frames[i].cls)
      BY <1>2, <1>6, <3>5 DEF s
    <3>7. Progress(Append(frames, NewFrame(s, "superclass")), Append(known, s), printed)
      <4>1. FollowsSuper(frames[Len(frames)].cls) /\ s = Superclass(frames[Len(frames)].cls)
        BY <1>9, <3>5 DEF s
      <4> QED BY <1>1, <1>2, <1>3, <1>4, <2>1, <3>3, <3>4, <3>6, <4>1, Push
    <3> QED BY <1>1, <1>7, <3>1, <3>2, <3>7, CallKeeps
  <2> QED BY <2>2, <2>3
<1> QED BY <1>8, <1>9

LEMMA VisitMixinOrder == MemberExact /\ Inv /\ OrderInv /\ VisitMixin => OrderInv'
<1> SUFFICES ASSUME MemberExact, Inv, OrderInv, VisitMixin PROVE OrderInv'
  OBVIOUS
<1> DEFINE frames == [stack EXCEPT ![Len(stack)].next = Top.next + 1]
           n == Len(stack)
           m == MixinOf(Top.cls, Top.next)
<1>1. /\ stack # <<>> /\ Top \in Frame /\ Top.cls \in Class /\ n \in Nat \ {0}
      /\ stack \in Seq(Frame) /\ known \in Seq(Class) /\ Top = stack[n]
      /\ UNCHANGED <<runtime, printed>> /\ pc' = pc /\ Top.at = "mixins"
      /\ Top.next \in DOMAIN mixins[Top.cls[1]] /\ Top.next \in Nat
      /\ Call(frames, m, "mixin")
  BY TopFrame DEF VisitMixin, Inv, TypeOK, Top, Frame
<1>2. /\ frames \in Seq(Frame) /\ Len(frames) = n /\ frames # <<>>
      /\ DOMAIN frames = 1 .. n /\ DOMAIN stack = 1 .. n
      /\ \A i \in 1 .. n : /\ frames[i].cls = stack[i].cls /\ frames[i].at = stack[i].at
                           /\ frames[i].relationship = stack[i].relationship
      /\ \A i \in 1 .. n : i # n => frames[i].next = stack[i].next
      /\ frames[n].next = Top.next + 1
      /\ n \in 1 .. n
  <2>0. Top \in Frame /\ Top.next + 1 \in Nat
    BY <1>1
  <2>1. [Top EXCEPT !.next = Top.next + 1] \in Frame
    BY <2>0 DEF Frame
  <2>2. frames = [stack EXCEPT ![n] = [Top EXCEPT !.next = Top.next + 1]]
    BY <1>1
  <2>3. frames \in Seq(Frame) /\ DOMAIN frames = 1 .. n /\ Len(frames) = n
    BY <1>1, <2>1, <2>2
  <2>4. /\ [Top EXCEPT !.next = Top.next + 1].cls = Top.cls
        /\ [Top EXCEPT !.next = Top.next + 1].at = Top.at
        /\ [Top EXCEPT !.next = Top.next + 1].next = Top.next + 1
        /\ [Top EXCEPT !.next = Top.next + 1].relationship = Top.relationship
    BY <1>1 DEF Frame
  <2>5. \A i \in 1 .. n : i # n => frames[i] = stack[i]
    BY <1>1
  <2>6. frames[n] = [Top EXCEPT !.next = Top.next + 1]
    BY <1>1, <2>2
  <2> QED BY <1>1, <2>3, <2>4, <2>5, <2>6
<1>3. Progress(stack, known, printed) /\ ClassGraph /\ TypeOK
  BY DEF OrderInv, Inv
<1>4. /\ m \in Class /\ m[1] \in MixinClasses /\ (IsMeta(m) => DumpsMeta)
      /\ DOMAIN mixins[Top.cls[1]] \subseteq Nat
  <2>1. mixins[Top.cls[1]] \in MixinLists
    BY <1>1, <1>3 DEF TypeOK, Class
  <2>2. mixins[Top.cls[1]][Top.next] \in MixinClasses /\ DOMAIN mixins[Top.cls[1]] \subseteq Nat
    <3>1. PICK max \in 0 .. MaxMixins : mixins[Top.cls[1]] \in [1 .. max -> MixinClasses]
      BY <2>1 DEF MixinLists
    <3>2. DOMAIN mixins[Top.cls[1]] = 1 .. max
      BY <3>1
    <3> QED BY <1>1, <3>1, <3>2
  <2> QED BY <2>2, HierarchyAssumption DEF MixinOf, IsMeta, Class
<1> HIDE DEF frames, n
<1>5. Reached(frames) /\ NoneForgotten(frames, known, printed)
  BY <1>2, <1>3, SameShape DEF Progress
<1>6. SuperDone(frames, printed)
  BY <1>2, <1>3 DEF Progress, SuperDone
<1>7. start # None => start \in Elements(known)
  BY <1>1 DEF OrderInv, Inv, TypeOK
<1>8. ASSUME NEW added, Elements(known) \subseteq Elements(added), m \in Elements(added)
      PROVE  MixinsDone(frames, added)
  <2>1. ASSUME NEW i \in DOMAIN frames, NEW k \in DOMAIN mixins[frames[i].cls[1]],
               k < frames[i].next
        PROVE  MixinOf(frames[i].cls, k) \in Elements(added)
    <3>1. CASE i # n
      BY <1>2, <1>3, <1>8, <2>1, <3>1 DEF Progress, MixinsDone
    <3>2. CASE i = n
      <4>1. frames[i].cls = Top.cls /\ k < Top.next + 1 /\ k \in Nat
        BY <1>1, <1>2, <1>4, <2>1, <3>2
      <4>2. CASE k = Top.next
        BY <1>8, <4>1, <4>2
      <4>3. CASE k < Top.next
        <5>1. n \in DOMAIN stack /\ stack[n] = Top
          BY <1>1, <1>2
        <5>2. MixinOf(Top.cls, k) \in Elements(known)
          BY <1>3, <2>1, <4>1, <4>3, <5>1 DEF Progress, MixinsDone
        <5> QED BY <1>8, <4>1, <5>2
      <4> QED BY <1>1, <4>1, <4>2, <4>3
    <3> QED BY <3>1, <3>2
  <2>2. \A i \in DOMAIN frames : frames[i].next # 0
    BY <1>1, <1>2, <1>3 DEF Progress, MixinsDone
  <2> QED BY <2>1, <2>2 DEF MixinsDone
<1> HIDE DEF m
<1>9. CASE IsMember(known, m)
  <2>1. stack' = frames /\ known' = known /\ m \in Elements(known)
    BY <1>1, <1>4, <1>9 DEF Call, MemberExact
  <2>2. MixinsDone(frames, known)
    BY <1>8, <2>1
  <2> QED BY <1>1, <1>5, <1>6, <1>7, <2>1, <2>2, CallKeeps DEF Progress
<1>10. CASE ~ IsMember(known, m)
  <2>1. stack' = Append(frames, NewFrame(m, "mixin")) /\ known' = Append(known, m)
    BY <1>1, <1>4, <1>10, HierarchyAssumption DEF Call
  <2>2. Elements(Append(known, m)) = Elements(known) \union {m}
    BY <1>1, <1>4, ElementsOfAppend
  <2>3. MixinsDone(frames, Append(known, m))
    BY <1>8, <2>2
  <2>4. Progress(Append(frames, NewFrame(m, "mixin")), Append(known, m), printed)
    BY <1>1, <1>2, <1>3, <1>4, <1>5, <1>6, <2>3, Push DEF SuperDone
  <2> QED BY <1>1, <1>7, <2>1, <2>2, <2>4, CallKeeps
<1> QED BY <1>9, <1>10

(***************************************************************************)
(* The topmost activation has been through its superclass and its mixins,  *)
(* so the class it outputs comes below the one and leaves out none of the  *)
(* others.                                                                 *)
(***************************************************************************)
LEMMA PrintClassOrder == Inv /\ OrderInv /\ PrintClass => OrderInv'
<1> SUFFICES ASSUME Inv, OrderInv, PrintClass PROVE OrderInv'
  OBVIOUS
<1> DEFINE c == Top.cls
           n == Len(stack)
<1>1. /\ stack # <<>> /\ Top \in Frame /\ c \in Class /\ n \in Nat \ {0}
      /\ stack \in Seq(Frame) /\ printed \in Seq(Class) /\ Top = stack[n] /\ n \in DOMAIN stack
      /\ UNCHANGED <<runtime, pc, known>> /\ Top.at = "mixins"
      /\ Top.next \notin DOMAIN mixins[c[1]] /\ Top.next \in Nat
      /\ printed' = Append(printed, c)
  BY TopFrame DEF PrintClass, Inv, TypeOK, Top, Frame
<1>2. Progress(stack, known, printed) /\ ClassGraph /\ TypeOK
  BY DEF OrderInv, Inv
<1>3. Progress(Rest, known, printed')
  BY <1>1, <1>2, Pop DEF Rest
<1>4. \/ stack' = Rest
      \/ /\ Top.relationship # "none"
         /\ stack' = [Rest EXCEPT ![Len(Rest)].counter = Rest[Len(Rest)].counter + 1]
  BY DEF PrintClass, PrintEdge
<1>5. Rest \in Seq(Frame) /\ Len(Rest) = n - 1 /\ DOMAIN Rest = 1 .. n - 1
  <2>1. stack \in Seq(Frame) /\ stack # <<>>
    BY <1>1
  <2> QED BY <2>1, AllButLast DEF Rest
<1>6. Progress(stack', known', printed')
  <2>1. CASE stack' = Rest
    BY <1>1, <1>3, <2>1
  <2>2. CASE stack' # Rest
    <3>1. n # 1
      BY <1>1, <1>4, <2>2 DEF Inv, Chain
    <3>2. Len(Rest) \in DOMAIN Rest /\ Rest[Len(Rest)] \in Frame
      BY <1>1, <1>5, <3>1
    <3>3. stack' = [Rest EXCEPT ![Len(Rest)] =
                      [Rest[Len(Rest)] EXCEPT !.counter = Rest[Len(Rest)].counter + 1]]
      BY <1>4, <2>2
    <3>4. /\ DOMAIN stack' = DOMAIN Rest
          /\ \A i \in DOMAIN Rest : /\ stack'[i].cls = Rest[i].cls /\ stack'[i].at = Rest[i].at
                                    /\ stack'[i].relationship = Rest[i].relationship
                                    /\ stack'[i].next = Rest[i].next
      <4>1. LET f == Rest[Len(Rest)]
                g == [f EXCEPT !.counter = f.counter + 1]
            IN  g.cls = f.cls /\ g.at = f.at /\ g.relationship = f.relationship /\ g.next = f.next
        BY <3>2 DEF Frame
      <4>2. /\ DOMAIN stack' = DOMAIN Rest
            /\ stack'[Len(Rest)] = [Rest[Len(Rest)] EXCEPT !.counter = Rest[Len(Rest)].counter + 1]
            /\ \A i \in DOMAIN Rest : i # Len(Rest) => stack'[i] = Rest[i]
        BY <1>5, <3>2, <3>3
      <4> QED BY <4>1, <4>2
    <3> HIDE DEF n
    <3>5. Reached(stack') /\ NoneForgotten(stack', known, printed')
      BY <1>3, <3>4, SameShape DEF Progress
    <3>6. SuperDone(stack', printed')
      BY <1>3, <3>4 DEF Progress, SuperDone
    <3>7. MixinsDone(stack', known)
      BY <1>3, <3>4 DEF Progress, MixinsDone
    <3> QED BY <1>1, <3>5, <3>6, <3>7 DEF Progress
  <2> QED BY <2>1, <2>2
<1>7. super' = super /\ mixins' = mixins /\ start' = start /\ pc' = pc /\ known' = known
  BY <1>1 DEF runtime
<1>8. DumpsMeta' = DumpsMeta /\ \A d : Superclass(d)' = Superclass(d)
  BY <1>7 DEF DumpsMeta, Superclass
<1>9. \A d : FollowsSuper(d)' <=> FollowsSuper(d)
  BY <1>8 DEF FollowsSuper, DumpsMeta, Superclass
<1>10. \A d, k : MixinOf(d, k)' = MixinOf(d, k)
  BY <1>7, <1>8 DEF MixinOf
<1>11. /\ DOMAIN printed = 1 .. Len(printed) /\ Len(printed) \in Nat
       /\ DOMAIN printed' = 1 .. Len(printed) + 1 /\ printed'[Len(printed) + 1] = c
       /\ \A i \in DOMAIN printed : printed'[i] = printed[i]
  BY <1>1
<1>12. SuperAbove'
  <2>1. FollowsSuper(c) => Superclass(c) \in Elements(printed)
    <3>1. n + 1 \notin DOMAIN stack
      BY <1>1
    <3> QED BY <1>1, <1>2, <3>1 DEF Progress, SuperDone
  <2>2. ASSUME NEW i \in DOMAIN printed', FollowsSuper(printed'[i])
        PROVE  \E j \in 1 .. i - 1 : printed'[j] = Superclass(printed'[i])
    <3>1. CASE i \in DOMAIN printed
      <4>1. PICK j \in 1 .. i - 1 : printed[j] = Superclass(printed[i])
        BY <1>11, <2>2, <3>1 DEF OrderInv, SuperAbove
      <4> QED BY <1>11, <3>1, <4>1
    <3>2. CASE i = Len(printed) + 1
      <4>1. PICK j \in DOMAIN printed : printed[j] = Superclass(c)
        BY <1>11, <2>1, <2>2, <3>2 DEF Elements
      <4> QED BY <1>11, <3>2, <4>1
    <3> QED BY <1>11, <3>1, <3>2
  <2> HIDE DEF c
  <2> QED BY <1>8, <1>9, <2>2 DEF SuperAbove
<1>13. MixinsKnown(known, printed)'
  <2>1. \A k \in DOMAIN mixins[c[1]] : MixinOf(c, k) \in Elements(known)
    <3>1. mixins[c[1]] \in MixinLists
      BY <1>1, <1>2 DEF TypeOK, Class
    <3>2. PICK max \in Nat : DOMAIN mixins[c[1]] = 1 .. max
      BY <3>1, HierarchyAssumption DEF MixinLists
    <3>3. Top.next # 0
      BY <1>1, <1>2 DEF Progress, MixinsDone
    <3>4. \A k \in DOMAIN mixins[c[1]] : k < Top.next
      BY <1>1, <3>2, <3>3
    <3> QED BY <1>1, <1>2, <3>4 DEF Progress, MixinsDone
  <2>2. Elements(printed') = Elements(printed) \union {c}
    BY <1>1, ElementsOfAppend
  <2> QED BY <1>7, <1>10, <2>1, <2>2 DEF OrderInv, MixinsKnown
<1>14. ClassGraph'
  BY <1>7 DEF OrderInv, ClassGraph
<1>15. pc = "dumping"
  BY <1>1 DEF OrderInv
<1> QED BY <1>1, <1>6, <1>7, <1>12, <1>13, <1>14, <1>15, ProgressPrimed DEF OrderInv

-------------------------------------------------------------------------------
LEMMA InitOrder == Init => OrderInv
<1> SUFFICES ASSUME Init PROVE OrderInv
  OBVIOUS
<1>1. DOMAIN stack = {} /\ DOMAIN printed = {} /\ DOMAIN known = {}
  BY DEF Init
<1>2. Progress(stack, known, printed)
  BY <1>1 DEF Progress, Reached, SuperDone, MixinsDone, NoneForgotten, Elements
<1> QED BY <1>1, <1>2 DEF Init, OrderInv, ClassGraph, SuperAbove, MixinsKnown, Elements

\* A step that leaves the runtime, the stack and the output alone.
LEMMA NothingMoves ==
  ASSUME OrderInv, UNCHANGED <<runtime, known, stack, printed>>,
         pc' = pc \/ (pc = "fopen" /\ pc' = "failed") \/ (pc = "dumping" /\ stack = <<>> /\ pc' = "closed")
  PROVE  OrderInv'
<1>1. super' = super /\ mixins' = mixins /\ start' = start /\ known' = known
      /\ stack' = stack /\ printed' = printed
  BY DEF runtime
<1>2. DumpsMeta' = DumpsMeta /\ \A c : Superclass(c)' = Superclass(c)
  BY <1>1 DEF DumpsMeta, Superclass
<1>3. \A c : FollowsSuper(c)' <=> FollowsSuper(c)
  BY <1>2 DEF FollowsSuper, DumpsMeta, Superclass
<1>4. \A c, m : MixinOf(c, m)' = MixinOf(c, m)
  BY <1>1, <1>2 DEF MixinOf
<1>5. SuperAbove' /\ MixinsKnown(known, printed)' /\ ClassGraph'
  BY <1>1, <1>2, <1>3, <1>4 DEF OrderInv, SuperAbove, MixinsKnown, ClassGraph
<1>6. Progress(stack, known, printed)'
  BY <1>1, ProgressPrimed DEF OrderInv
<1> QED BY <1>1, <1>5, <1>6 DEF OrderInv

LEMMA NextOrder == MemberExact /\ Inv /\ OrderInv /\ [Next]_vars => OrderInv'
<1> SUFFICES ASSUME MemberExact, Inv, OrderInv, [Next]_vars PROVE OrderInv'
  OBVIOUS
<1>1. CASE Open
  BY <1>1, OpenOrder
<1>2. CASE VisitSuper
  BY <1>2, VisitSuperOrder
<1>3. CASE VisitMixin
  BY <1>3, VisitMixinOrder
<1>4. CASE PrintClass
  BY <1>4, PrintClassOrder
<1>5. CASE OpenFails \/ Close
  BY <1>5, NothingMoves DEF OpenFails, Close
<1>6. CASE UNCHANGED vars
  BY <1>6, NothingMoves DEF vars, runtime
<1> QED BY <1>1, <1>2, <1>3, <1>4, <1>5, <1>6 DEF Next

LEMMA OrderInvariance ==
  ASSUME MemberExact
  PROVE  Spec => []OrderInv
BY InitOrder, NextOrder, Invariance, PTL DEF Spec

-------------------------------------------------------------------------------
(***************************************************************************)
(* Every class is output below its superclass, whichever way the dump came *)
(* to the two.                                                             *)
(***************************************************************************)
THEOREM SuperclassesAbove ==
  ASSUME MemberExact
  PROVE  Spec => []SuperAbove
<1>1. OrderInv => SuperAbove
  BY DEF OrderInv
<1> QED BY <1>1, OrderInvariance, PTL

(***************************************************************************)
(* When the file is closed, the class dumped is in it, and with every class*)
(* in it its superclass and all its mixins.                                *)
(***************************************************************************)
THEOREM HierarchyComplete ==
  ASSUME MemberExact
  PROVE  Spec => []AllDumped
<1>1. Inv /\ OrderInv => AllDumped
  <2> SUFFICES ASSUME Inv, OrderInv, pc = "closed"
               PROVE  /\ start # None => start \in Printed
                      /\ \A c \in Printed :
                           /\ FollowsSuper(c) => Superclass(c) \in Printed
                           /\ \A i \in DOMAIN mixins[c[1]] : MixinOf(c, i) \in Printed
    BY DEF AllDumped
  <2>1. DOMAIN stack = {} /\ Printed = Elements(printed)
    BY DEF OrderInv, Printed, Elements
  <2>2. Elements(known) \subseteq Printed
    BY <2>1 DEF OrderInv, Progress, NoneForgotten
  <2>3. \A c \in Printed : FollowsSuper(c) => Superclass(c) \in Printed
    <3> TAKE c \in Printed
    <3>1. PICK i \in DOMAIN printed : printed[i] = c
      BY DEF Printed
    <3>2. DOMAIN printed = 1 .. Len(printed) /\ Len(printed) \in Nat
      BY DEF Inv, TypeOK
    <3> QED BY <3>1, <3>2 DEF OrderInv, SuperAbove, Printed
  <2>4. \A c \in Printed : \A i \in DOMAIN mixins[c[1]] : MixinOf(c, i) \in Printed
    BY <2>1, <2>2 DEF OrderInv, MixinsKnown
  <2> QED BY <2>2, <2>3, <2>4 DEF OrderInv
<1> QED BY <1>1, OrderInvariance, Invariance, PTL

-------------------------------------------------------------------------------
(***************************************************************************)
(* The tree.  Every class output was tied to the class its activation was  *)
(* called from, which is output or still on the stack; the first of the    *)
(* stack is the class dumped.  The counter of an activation is one ahead of*)
(* the mixin edges into its class.                                         *)
(***************************************************************************)
Into(es, c) == {i \in DOMAIN es : es[i].to = c /\ es[i].relationship = "mixin"}

Tied(es, out, frames) ==
  /\ \A c \in Elements(out) : c = start \/ \E i \in DOMAIN es : es[i].from = c
  /\ \A i \in DOMAIN es :
       /\ es[i].from \in Elements(out) /\ es[i].from # start
       /\ es[i].to \in Elements(out) \/ \E a \in DOMAIN frames : frames[a].cls = es[i].to
  /\ \A i, j \in DOMAIN es : es[i].from = es[j].from => i = j
  /\ 1 \in DOMAIN frames => frames[1].cls = start

Numbered(es, frames) ==
  /\ \A i \in DOMAIN es :
       es[i].relationship = "mixin" => es[i].nr = Cardinality({j \in Into(es, es[i].to) : j < i})
  /\ \A a \in DOMAIN frames : frames[a].counter = Cardinality(Into(es, frames[a].cls)) + 1

TreeInv == /\ Tied(edges, printed, stack)
           /\ Numbered(edges, stack)
           /\ pc = "fopen" => stack = <<>> /\ printed = <<>> /\ edges = <<>>
           /\ pc \in {"closed", "failed"} => stack = <<>>

LEMMA InitTree == Init => TreeInv
<1> SUFFICES ASSUME Init PROVE TreeInv
  OBVIOUS
<1>1. /\ stack = <<>> /\ printed = <<>> /\ edges = <<>> /\ pc = "fopen"
      /\ DOMAIN stack = {} /\ DOMAIN printed = {} /\ DOMAIN edges = {}
  BY DEF Init
<1> QED BY <1>1 DEF TreeInv, Tied, Numbered, Elements

\* A call from activations on the same classes, with the same counters: the new activation,
\* if there is one, is about a class that no edge goes to yet.
LEMMA CallTree ==
  ASSUME MemberExact, Inv, TreeInv, pc' = "dumping", UNCHANGED <<runtime, printed, edges>>,
         NEW frames \in Seq(Frame), Len(frames) = Len(stack),
         \A a \in DOMAIN stack : frames[a].cls = stack[a].cls /\ frames[a].counter = stack[a].counter,
         NEW c \in Class \union {None}, NEW r, Call(frames, c, r),
         stack = <<>> => c = start
  PROVE  TreeInv'
<1>0. /\ Tied(edges, printed, stack) /\ Numbered(edges, stack)
      /\ known \in Seq(Class) /\ stack \in Seq(Frame)
      /\ Len(stack) \in Nat /\ DOMAIN stack = 1 .. Len(stack) /\ DOMAIN frames = 1 .. Len(stack)
      /\ start' = start
  BY DEF Inv, TypeOK, TreeInv, runtime
<1>1. Tied(edges, printed, frames) /\ Numbered(edges, frames)
  BY <1>0 DEF Tied, Numbered
<1>2. CASE c = None \/ IsMember(known, c)
  <2>1. stack' = frames
    BY <1>2 DEF Call
  <2> QED BY <1>0, <1>1, <2>1 DEF TreeInv, Tied
<1>3. CASE ~ (c = None \/ IsMember(known, c))
  <2> DEFINE new == NewFrame(c, r)
  <2>1. c \in Class /\ c \notin Elements(known) /\ stack' = Append(frames, new)
    BY <1>0, <1>3 DEF Call, MemberExact
  <2>2. new.cls = c /\ new.counter = 1
    BY DEF NewFrame
  <2> HIDE DEF new
  <2>3. /\ DOMAIN stack' = 1 .. Len(stack) + 1 /\ stack'[Len(stack) + 1] = new
        /\ \A a \in DOMAIN frames : stack'[a] = frames[a] /\ a \in DOMAIN stack'
        /\ \A a \in DOMAIN stack' : a \in DOMAIN frames \/ a = Len(stack) + 1
        /\ 1 \in DOMAIN frames \/ Len(stack) = 0
    BY <1>0, <2>1
  <2>4. \A i \in DOMAIN edges : edges[i].to \in Elements(known)
    <3>1. \A a \in DOMAIN stack : stack[a].cls \in Elements(known)
      BY DEF Inv, Chain
    <3> QED BY <1>0, <3>1 DEF Tied, Inv
  <2>5. Into(edges, c) = {}
    BY <2>1, <2>4 DEF Into
  <2>6. Cardinality(Into(edges, c)) = 0
    BY <2>5, FS_EmptySet
  <2>7. Numbered(edges, stack')
    <3>1. \A a \in DOMAIN stack' : stack'[a].counter = Cardinality(Into(edges, stack'[a].cls)) + 1
      BY <1>1, <2>2, <2>3, <2>6 DEF Numbered
    <3> QED BY <1>1, <3>1 DEF Numbered
  <2>8. Tied(edges, printed, stack')
    <3>1. 1 \in DOMAIN stack' => stack'[1].cls = start
      <4>1. CASE Len(stack) = 0
        <5>1. stack = <<>>
          BY <1>0, <4>1
        <5> QED BY <2>2, <2>3, <4>1, <5>1
      <4>2. CASE 1 \in DOMAIN frames
        BY <1>1, <2>3, <4>2 DEF Tied
      <4> QED BY <2>3, <4>1, <4>2
    <3> QED BY <1>1, <2>3, <3>1 DEF Tied
  <2> QED BY <1>0, <2>7, <2>8 DEF TreeInv, Tied
<1> QED BY <1>2, <1>3

LEMMA VisitTree == MemberExact /\ Inv /\ OrderInv /\ TreeInv /\ (VisitSuper \/ VisitMixin) => TreeInv'
<1> SUFFICES ASSUME MemberExact, Inv, OrderInv, TreeInv, VisitSuper \/ VisitMixin PROVE TreeInv'
  OBVIOUS
<1>1. /\ stack # <<>> /\ Top \in Frame /\ Top.cls \in Class /\ stack \in Seq(Frame)
      /\ Len(stack) \in Nat \ {0} /\ DOMAIN stack = 1 .. Len(stack) /\ Top = stack[Len(stack)]
      /\ UNCHANGED <<runtime, printed, edges>> /\ pc' = "dumping"
  BY TopFrame DEF VisitSuper, VisitMixin, Inv, TypeOK, Top, OrderInv
<1>2. ASSUME NEW f \in Frame, f.cls = Top.cls, f.counter = Top.counter, NEW frames,
             frames = [stack EXCEPT ![Len(stack)] = f]
      PROVE  /\ frames \in Seq(Frame) /\ Len(frames) = Len(stack)
             /\ \A a \in DOMAIN stack : frames[a].cls = stack[a].cls /\ frames[a].counter = stack[a].counter
  BY <1>1, <1>2
<1>3. CASE VisitSuper
  <2> DEFINE f == [Top EXCEPT !.at = "mixins"]
             frames == [stack EXCEPT ![Len(stack)].at = "mixins"]
  <2>1. f \in Frame /\ f.cls = Top.cls /\ f.counter = Top.counter
    BY <1>1 DEF Frame
  <2>2. frames = [stack EXCEPT ![Len(stack)] = f]
    BY DEF Top
  <2> HIDE DEF f, frames
  <2>3. /\ frames \in Seq(Frame) /\ Len(frames) = Len(stack)
        /\ \A a \in DOMAIN stack : frames[a].cls = stack[a].cls /\ frames[a].counter = stack[a].counter
    BY <1>2, <2>1, <2>2
  <2>4. Superclass(Top.cls) \in Class \union {None}
    BY <1>1, SuperclassType DEF Inv
  <2>5. IF FollowsSuper(Top.cls)
          THEN Call(frames, Superclass(Top.cls), "superclass")
          ELSE stack' = frames /\ UNCHANGED known
    BY <1>3 DEF VisitSuper, frames
  <2>6. CASE FollowsSuper(Top.cls)
    BY <1>1, <2>3, <2>4, <2>5, <2>6, CallTree
  <2>7. CASE ~ FollowsSuper(Top.cls)
    <3>1. Call(frames, None, "superclass")
      BY <2>5, <2>7 DEF Call
    <3> QED BY <1>1, <2>3, <3>1, CallTree
  <2> QED BY <2>6, <2>7
<1>4. CASE VisitMixin
  <2> DEFINE f == [Top EXCEPT !.next = Top.next + 1]
             frames == [stack EXCEPT ![Len(stack)].next = Top.next + 1]
  <2>1. f \in Frame /\ f.cls = Top.cls /\ f.counter = Top.counter
    BY <1>1 DEF Frame
  <2>2. frames = [stack EXCEPT ![Len(stack)] = f]
    BY DEF Top
  <2> HIDE DEF f, frames
  <2>3. /\ frames \in Seq(Frame) /\ Len(frames) = Len(stack)
        /\ \A a \in DOMAIN stack : frames[a].cls = stack[a].cls /\ frames[a].counter = stack[a].counter
    BY <1>2, <2>1, <2>2
  <2>4. MixinOf(Top.cls, Top.next) \in Class
    BY <1>1, <1>4, MixinType DEF Inv, VisitMixin
  <2>5. Call(frames, MixinOf(Top.cls, Top.next), "mixin")
    BY <1>4 DEF VisitMixin, frames
  <2> QED BY <1>1, <2>3, <2>4, <2>5, CallTree
<1> QED BY <1>3, <1>4

\* The mixin edges so far are finitely many; one more counts.
LEMMA OneMoreMixin ==
  ASSUME NEW es \in Seq(Edge), NEW e \in Edge, NEW c
  PROVE  /\ Cardinality(Into(es, c)) \in Nat
         /\ IF e.to = c /\ e.relationship = "mixin"
              THEN Cardinality(Into(Append(es, e), c)) = Cardinality(Into(es, c)) + 1
              ELSE Into(Append(es, e), c) = Into(es, c)
         /\ \A i \in 1 .. Len(es) + 1 :
              {j \in Into(Append(es, e), c) : j < i} = {j \in Into(es, c) : j < i}
<1>1. /\ Len(es) \in Nat /\ DOMAIN es = 1 .. Len(es)
      /\ DOMAIN Append(es, e) = 1 .. Len(es) + 1
      /\ Append(es, e)[Len(es) + 1] = e
      /\ \A i \in DOMAIN es : Append(es, e)[i] = es[i] /\ i # Len(es) + 1
      /\ \A i \in 1 .. Len(es) + 1 : i \in DOMAIN es \/ i = Len(es) + 1
      /\ \A i \in DOMAIN es : i \in 1 .. Len(es) + 1
      /\ Len(es) + 1 \in 1 .. Len(es) + 1
  OBVIOUS
<1>2. IsFiniteSet(Into(es, c)) /\ Cardinality(Into(es, c)) \in Nat
  <2>1. IsFiniteSet(1 .. Len(es))
    BY <1>1, FS_Interval
  <2>2. Into(es, c) \in SUBSET (1 .. Len(es))
    BY <1>1 DEF Into
  <2> QED BY <2>1, <2>2, FS_Subset, FS_CardinalityType
<1>3. CASE e.to = c /\ e.relationship = "mixin"
  <2>1. Into(Append(es, e), c) = Into(es, c) \union {Len(es) + 1}
    BY <1>1, <1>3 DEF Into
  <2>2. Len(es) + 1 \notin Into(es, c)
    BY <1>1 DEF Into
  <2>3. Cardinality(Into(es, c) \union {Len(es) + 1}) = Cardinality(Into(es, c)) + 1
    BY <1>2, <2>2, FS_AddElement
  <2>4. \A i \in 1 .. Len(es) + 1 : ~ (Len(es) + 1 < i)
    BY <1>1
  <2> QED BY <1>2, <1>3, <2>1, <2>3, <2>4
<1>4. CASE ~ (e.to = c /\ e.relationship = "mixin")
  <2>1. Into(Append(es, e), c) = Into(es, c)
    BY <1>1, <1>4 DEF Into
  <2> QED BY <1>2, <1>4, <2>1
<1> QED BY <1>3, <1>4

LEMMA PrintTree == Inv /\ OrderInv /\ TreeInv /\ PrintClass => TreeInv'
<1> SUFFICES ASSUME Inv, OrderInv, TreeInv, PrintClass PROVE TreeInv'
  OBVIOUS
<1> DEFINE c == Top.cls
           n == Len(stack)
<1>1. /\ stack # <<>> /\ Top \in Frame /\ c \in Class /\ n \in Nat \ {0} /\ DOMAIN stack = 1 .. n
      /\ stack \in Seq(Frame) /\ printed \in Seq(Class) /\ edges \in Seq(Edge) /\ Top = stack[n]
      /\ UNCHANGED <<runtime, pc, known>> /\ start' = start /\ pc = "dumping"
      /\ printed' = Append(printed, c) /\ n \in DOMAIN stack /\ 1 \in DOMAIN stack
  BY TopFrame DEF PrintClass, Inv, TypeOK, Top, OrderInv, runtime
<1>2. /\ Tied(edges, printed, stack) /\ Numbered(edges, stack)
      /\ Elements(printed') = Elements(printed) \union {c} /\ c \notin Elements(printed)
      /\ stack[1].cls = start
      /\ \A i, j \in DOMAIN stack : stack[i].cls = stack[j].cls => i = j
      /\ Top.relationship = "none" <=> n = 1
  BY <1>1, ElementsOfAppend DEF TreeInv, Tied, Inv, Chain
<1>3. /\ Rest \in Seq(Frame) /\ Len(Rest) = n - 1 /\ DOMAIN Rest = 1 .. n - 1
      /\ \A a \in DOMAIN Rest : Rest[a] = stack[a] /\ a \in DOMAIN stack /\ a # n
      /\ \A a \in DOMAIN stack : a \in DOMAIN Rest \/ a = n
  BY <1>1 DEF Rest
<1>4. \A i \in DOMAIN edges :
        \/ edges[i].to \in Elements(printed')
        \/ \E a \in DOMAIN Rest : Rest[a].cls = edges[i].to
  BY <1>1, <1>2, <1>3 DEF Tied
<1>5. CASE n = 1
  <2>1. edges' = edges /\ stack' = Rest /\ c = start /\ DOMAIN Rest = {}
    BY <1>1, <1>2, <1>3, <1>5 DEF PrintClass
  <2> HIDE DEF c, n
  <2>2. Tied(edges, printed', Rest)
    BY <1>2, <1>4, <2>1 DEF Tied
  <2>3. Numbered(edges, Rest)
    BY <1>2, <2>1 DEF Numbered
  <2>4. TreeInv'
    BY <1>1, <2>1, <2>2, <2>3 DEF TreeInv, Tied
  <2> QED BY <2>4
<1>6. CASE n # 1
  <2>1. PICK caller : caller = Rest[n - 1]
    OBVIOUS
  <2>2. /\ n - 1 \in DOMAIN Rest /\ caller = stack[n - 1] /\ caller \in Frame
        /\ 1 \in DOMAIN Rest
    <3>1. n \in Nat \ {0} /\ n # 1
      BY <1>1, <1>6
    <3>2. \A m \in Nat \ {0} : m # 1 => m - 1 \in 1 .. m - 1 /\ 1 \in 1 .. m - 1
      OBVIOUS
    <3>3. n - 1 \in DOMAIN Rest /\ 1 \in DOMAIN Rest
      BY <1>3, <3>1, <3>2
    <3> HIDE DEF n
    <3>4. caller = stack[n - 1] /\ n - 1 \in DOMAIN stack
      BY <1>3, <2>1, <3>3
    <3> QED BY <1>1, <3>3, <3>4
  <2>3. PICK e : e = [from |-> c, to |-> caller.cls, relationship |-> Top.relationship,
                      nr |-> caller.counter - 1]
    OBVIOUS
  <2>4. /\ edges' = Append(edges, e)
        /\ stack' = IF Top.relationship = "mixin"
                      THEN [Rest EXCEPT ![n - 1].counter = caller.counter + 1]
                      ELSE Rest
    BY <1>2, <1>3, <1>6, <2>1, <2>3 DEF PrintClass, PrintEdge
  <2>5. /\ e \in Edge /\ e.from = c /\ e.to = caller.cls
        /\ e.relationship = Top.relationship /\ e.nr = caller.counter - 1
    <3>1. Top.relationship \in {"superclass", "mixin"}
      BY <1>1, <1>2, <1>6 DEF Frame
    <3>2. caller.cls \in Class /\ caller.counter - 1 \in Int
      BY <2>2 DEF Frame
    <3> HIDE DEF n
    <3> QED BY <1>1, <2>3, <3>1, <3>2 DEF Edge
  <2>6. /\ Len(edges) \in Nat /\ DOMAIN edges = 1 .. Len(edges)
        /\ DOMAIN edges' = 1 .. Len(edges) + 1 /\ edges'[Len(edges) + 1] = e
        /\ \A i \in DOMAIN edges : edges'[i] = edges[i] /\ i \in DOMAIN edges' /\ i # Len(edges) + 1
        /\ \A i \in DOMAIN edges' : i \in DOMAIN edges \/ i = Len(edges) + 1
    BY <1>1, <2>4, <2>5
  <2>7. /\ DOMAIN stack' = DOMAIN Rest
        /\ \A a \in DOMAIN Rest : stack'[a].cls = Rest[a].cls
        /\ \A a \in DOMAIN Rest : a # n - 1 => stack'[a].counter = Rest[a].counter
        /\ stack'[n - 1].counter =
             IF Top.relationship = "mixin" THEN caller.counter + 1 ELSE caller.counter
    <3>1. CASE Top.relationship = "mixin"
      <4> DEFINE f == [caller EXCEPT !.counter = caller.counter + 1]
      <4>1. f.cls = caller.cls /\ f.counter = caller.counter + 1
        BY <2>2 DEF Frame
      <4>2. stack' = [Rest EXCEPT ![n - 1] = f]
        BY <2>1, <2>4, <3>1
      <4> HIDE DEF f
      <4> QED BY <1>3, <2>1, <2>2, <3>1, <4>1, <4>2
    <3>2. CASE Top.relationship # "mixin"
      BY <1>3, <2>1, <2>4, <3>2
    <3> QED BY <3>1, <3>2
  <2>8. c # start
    BY <1>1, <1>2, <1>6
  <2>9. \A i \in DOMAIN edges : edges[i].from # c
    BY <1>2 DEF Tied
  <2> HIDE DEF c, n
  <2>10. Tied(edges', printed', stack')
    <3>1. \A d \in Elements(printed') : d = start \/ \E i \in DOMAIN edges' : edges'[i].from = d
      <4> SUFFICES ASSUME NEW d \in Elements(printed'), d # start
                   PROVE  \E i \in DOMAIN edges' : edges'[i].from = d
        OBVIOUS
      <4>1. CASE d = c
        BY <2>5, <2>6, <4>1
      <4>2. CASE d # c
        <5>1. PICK i \in DOMAIN edges : edges[i].from = d
          BY <1>2, <4>2 DEF Tied
        <5> QED BY <2>6, <5>1
      <4> QED BY <4>1, <4>2
    <3>2. ASSUME NEW i \in DOMAIN edges'
          PROVE  /\ edges'[i].from \in Elements(printed') /\ edges'[i].from # start
                 /\ \/ edges'[i].to \in Elements(printed')
                    \/ \E a \in DOMAIN stack' : stack'[a].cls = edges'[i].to
      <4>1. CASE i \in DOMAIN edges
        BY <1>2, <1>4, <2>6, <2>7, <4>1 DEF Tied
      <4>2. CASE i = Len(edges) + 1
        <5>1. stack'[n - 1].cls = e.to
          BY <2>1, <2>2, <2>5, <2>7
        <5> QED BY <1>2, <2>2, <2>5, <2>6, <2>7, <2>8, <4>2, <5>1
      <4> QED BY <2>6, <4>1, <4>2
    <3>3. \A i, j \in DOMAIN edges' : edges'[i].from = edges'[j].from => i = j
      BY <1>2, <2>5, <2>6, <2>9 DEF Tied
    <3>4. 1 \in DOMAIN stack' => stack'[1].cls = start
      BY <1>2, <1>3, <2>2, <2>7
    <3> QED BY <3>1, <3>2, <3>3, <3>4 DEF Tied
  <2>11. Numbered(edges', stack')
    <3>1. ASSUME NEW i \in DOMAIN edges', edges'[i].relationship = "mixin"
          PROVE  edges'[i].nr = Cardinality({j \in Into(edges', edges'[i].to) : j < i})
      <4>1. {j \in Into(edges', edges'[i].to) : j < i} = {j \in Into(edges, edges'[i].to) : j < i}
        BY <1>1, <2>4, <2>5, <2>6, OneMoreMixin
      <4>2. CASE i \in DOMAIN edges
        BY <1>2, <2>6, <3>1, <4>1, <4>2 DEF Numbered
      <4>3. CASE i = Len(edges) + 1
        <5>1. caller.counter = Cardinality(Into(edges, caller.cls)) + 1
          BY <1>2, <1>3, <2>2 DEF Numbered
        <5>2. {j \in Into(edges, caller.cls) : j < i} = Into(edges, caller.cls)
          BY <2>6, <4>3 DEF Into
        <5>3. Cardinality(Into(edges, caller.cls)) \in Nat
          BY <1>1, <2>5, OneMoreMixin
        <5>4. edges'[i] = e
          BY <2>6, <4>3
        <5>5. e.nr = Cardinality(Into(edges, caller.cls))
          BY <2>5, <5>1, <5>3
        <5> QED BY <2>5, <4>1, <5>2, <5>4, <5>5
      <4> QED BY <2>6, <4>2, <4>3
    <3>2. ASSUME NEW a \in DOMAIN stack'
          PROVE  stack'[a].counter = Cardinality(Into(edges', stack'[a].cls)) + 1
      <4>1. a \in DOMAIN Rest /\ Rest[a].counter = Cardinality(Into(edges, Rest[a].cls)) + 1
        BY <1>2, <1>3, <2>7 DEF Numbered
      <4>2. CASE a = n - 1
        <5>1. caller.counter = Cardinality(Into(edges, caller.cls)) + 1
          BY <2>1, <4>1, <4>2
        <5>2. IF Top.relationship = "mixin"
                THEN Cardinality(Into(edges', caller.cls)) = Cardinality(Into(edges, caller.cls)) + 1
                ELSE Into(edges', caller.cls) = Into(edges, caller.cls)
          BY <1>1, <2>4, <2>5, OneMoreMixin
        <5> QED BY <2>1, <2>7, <4>1, <4>2, <5>1, <5>2
      <4>3. CASE a # n - 1
        <5>1. Rest[a].cls # caller.cls
          BY <1>2, <1>3, <2>1, <2>2, <4>1, <4>3
        <5>2. Into(edges', Rest[a].cls) = Into(edges, Rest[a].cls)
          BY <1>1, <2>4, <2>5, <5>1, OneMoreMixin
        <5> QED BY <2>7, <4>1, <4>3, <5>2
      <4> QED BY <4>2, <4>3
    <3> QED BY <3>1, <3>2 DEF Numbered
  <2> QED BY <1>1, <2>10, <2>11 DEF TreeInv, Tied
<1> QED BY <1>5, <1>6

LEMMA NextTree == MemberExact /\ Inv /\ OrderInv /\ TreeInv /\ [Next]_vars => TreeInv'
<1> SUFFICES ASSUME MemberExact, Inv, OrderInv, TreeInv, [Next]_vars PROVE TreeInv'
  OBVIOUS
<1>1. CASE Open
  <2>1. /\ stack = <<>> /\ start \in Class \union {None} /\ Call(<<>>, start, "none")
        /\ UNCHANGED <<runtime, printed, edges>> /\ pc' = "dumping"
    BY <1>1 DEF Open, TreeInv, Inv, TypeOK
  <2>2. <<>> \in Seq(Frame) /\ Len(<<>>) = Len(stack) /\ DOMAIN stack = {}
    BY <2>1
  <2> QED BY <2>1, <2>2, CallTree
<1>2. CASE VisitSuper \/ VisitMixin
  BY <1>2, VisitTree
<1>3. CASE PrintClass
  BY <1>3, PrintTree
<1>4. CASE OpenFails \/ Close \/ UNCHANGED vars
  <2>1. /\ start' = start /\ stack' = stack /\ printed' = printed /\ edges' = edges
        /\ \/ pc' = pc
           \/ pc' \in {"closed", "failed"} /\ stack = <<>>
    BY <1>4 DEF OpenFails, Close, vars, runtime, TreeInv
  <2> QED BY <2>1 DEF TreeInv, Tied
<1> QED BY <1>1, <1>2, <1>3, <1>4 DEF Next

(***************************************************************************)
(* Nothing is drawn that does not belong to the class: the graph of a      *)
(* finished dump is a tree, and the mixin edges into each of its classes   *)
(* are numbered in the order they are output, whatever else is dumped      *)
(* between two of them.                                                    *)
(***************************************************************************)
THEOREM HierarchyIsATree ==
  ASSUME MemberExact
  PROVE  Spec => []OneTree
<1>1. Inv /\ OrderInv /\ TreeInv => OneTree
  <2> SUFFICES ASSUME TreeInv, pc = "closed"
               PROVE  /\ MixinsNumbered
                      /\ \A c \in Printed \ {start} : \E i \in DOMAIN edges : edges[i].from = c
                      /\ \A i, j \in DOMAIN edges : edges[i].from = edges[j].from => i = j
                      /\ \A i \in DOMAIN edges : edges[i].from \in Printed \ {start} /\ edges[i].to \in Printed
    BY DEF OneTree
  <2>1. DOMAIN stack = {} /\ Printed = Elements(printed)
    BY DEF TreeInv, Printed, Elements
  <2>2. Tied(edges, printed, stack) /\ Numbered(edges, stack)
    BY DEF TreeInv
  <2>3. MixinsNumbered
    BY <2>2 DEF Numbered, MixinsNumbered, MixinEdgesInto, Into
  <2> QED BY <2>1, <2>2, <2>3 DEF Tied
<1> QED BY <1>1, InitTree, NextTree, OrderInvariance, Invariance, PTL DEF Spec

-------------------------------------------------------------------------------
(***************************************************************************)
(* The dump ends: the work that is left shrinks with every step.  What     *)
(* liveness would add to this is fairness alone.                           *)
(***************************************************************************)
Left(frames, added) ==
  {w \in Class \X (0 .. MaxMixins + 1) :
     /\ w[2] <= Len(mixins[w[1][1]]) + 1
     /\ \/ w[1] \notin Elements(added)
        \/ \E i \in DOMAIN frames : frames[i].cls = w[1] /\ StepOf(frames[i]) <= w[2]}

(***************************************************************************)
(* The walk over the mixins of a class stops one after the last of them.   *)
(***************************************************************************)
InStep(frames) ==
  \A i \in DOMAIN frames : frames[i].next \in 1 .. Len(mixins[frames[i].cls[1]]) + 1

LEMMA MixinCount ==
  ASSUME TypeOK, NEW c \in Class
  PROVE  /\ Len(mixins[c[1]]) \in 0 .. MaxMixins
         /\ DOMAIN mixins[c[1]] = 1 .. Len(mixins[c[1]])
<1>1. mixins[c[1]] \in MixinLists
  BY DEF TypeOK, Class
<1>2. PICK k \in 0 .. MaxMixins : mixins[c[1]] \in [1 .. k -> MixinClasses]
  BY <1>1 DEF MixinLists
<1>3. Len(mixins[c[1]]) = k
  BY <1>2, HierarchyAssumption
<1> QED
  BY <1>2, <1>3

LEMMA UndoneIsLeft == Undone = Left(stack, known)
  BY DEF Undone, Left, Elements

LEMMA FiniteWork ==
  ASSUME IsFiniteSet(Infras), NEW B, B \subseteq Class \X (0 .. MaxMixins + 1)
  PROVE  IsFiniteSet(B) /\ Cardinality(B) \in Nat
<1>1. IsFiniteSet({"infra", "meta"}) /\ IsFiniteSet(0 .. MaxMixins + 1)
  <2>1. {"infra", "meta"} = {"infra"} \union {"meta"}
    OBVIOUS
  <2>2. IsFiniteSet({"infra", "meta"})
    <3>1. IsFiniteSet({"infra"})
      BY FS_Singleton
    <3>2. IsFiniteSet({"infra"} \union {"meta"})
      BY <3>1, FS_AddElement
    <3> QED
      BY <2>1, <3>2
  <2> QED
    BY <2>2, HierarchyAssumption, FS_Interval
<1>2. IsFiniteSet(Class \X (0 .. MaxMixins + 1))
  BY <1>1, FS_Product DEF Class
<1>3. IsFiniteSet(B)
  BY <1>2, FS_Subset
<1> QED
  BY <1>3, FS_CardinalityType

LEMMA FewerLeft ==
  ASSUME IsFiniteSet(Infras), NEW B, B \subseteq Class \X (0 .. MaxMixins + 1),
         NEW A, A \subseteq B, A # B
  PROVE  Cardinality(A) \in Nat /\ Cardinality(B) \in Nat /\ Cardinality(A) < Cardinality(B)
<1>1. IsFiniteSet(B) /\ Cardinality(B) \in Nat
  BY FiniteWork
<1>2. /\ IsFiniteSet(A) /\ Cardinality(A) <= Cardinality(B)
      /\ Cardinality(A) # Cardinality(B)
  BY <1>1, FS_Subset
<1>3. Cardinality(A) \in Nat
  BY <1>2, FS_CardinalityType
<1> QED
  BY <1>1, <1>2, <1>3

(***************************************************************************)
(* A call makes no work: a class that was not known had all its steps left *)
(* before, and has all of them left as an activation.                      *)
(***************************************************************************)
LEMMA CallLeaves ==
  ASSUME MemberExact, TypeOK, NEW frames \in Seq(Frame), InStep(frames),
         NEW c \in Class \union {None}, NEW r \in {"none", "superclass", "mixin"},
         Call(frames, c, r)
  PROVE  Left(stack', known') = Left(frames, known) /\ InStep(stack')
<1>1. CASE c = None \/ IsMember(known, c)
  BY <1>1 DEF Call
<1>2. CASE ~ (c = None \/ IsMember(known, c))
  <2> DEFINE f == NewFrame(c, r)
  <2>1. c \in Class /\ known \in Seq(Class) /\ c \notin Elements(known)
    BY <1>2 DEF MemberExact, TypeOK
  <2>2. known' = Append(known, c) /\ stack' = Append(frames, f)
    BY <1>2 DEF Call
  <2>3. Elements(known') = Elements(known) \union {c}
    BY <2>1, <2>2, ElementsOfAppend
  <2>4. f \in Frame /\ f.cls = c /\ f.next = 1 /\ StepOf(f) = 0
    BY <2>1 DEF Frame, NewFrame, StepOf
  <2> HIDE DEF f
  <2>5. /\ Len(frames) \in Nat /\ DOMAIN frames = 1 .. Len(frames)
        /\ DOMAIN stack' = 1 .. Len(frames) + 1
        /\ stack'[Len(frames) + 1] = f
        /\ \A i \in DOMAIN frames : stack'[i] = frames[i] /\ i \in DOMAIN stack'
        /\ \A i \in DOMAIN stack' : i \in DOMAIN frames \/ i = Len(frames) + 1
    BY <2>2, <2>4
  <2>6. ASSUME NEW w \in Class \X (0 .. MaxMixins + 1)
        PROVE  \/ w[1] \notin Elements(known')
               \/ \E i \in DOMAIN stack' : stack'[i].cls = w[1] /\ StepOf(stack'[i]) <= w[2]
               <=>
               \/ w[1] \notin Elements(known)
               \/ \E i \in DOMAIN frames : frames[i].cls = w[1] /\ StepOf(frames[i]) <= w[2]
    <3>1. w[1] \in Class /\ w[2] \in Nat
      BY HierarchyAssumption
    <3>2. CASE w[1] = c
      <4>1. w[1] \notin Elements(known)
        BY <2>1, <3>2
      <4>2. Len(frames) + 1 \in DOMAIN stack'
        BY <2>5
      <4>3. stack'[Len(frames) + 1].cls = w[1] /\ StepOf(stack'[Len(frames) + 1]) <= w[2]
        BY <2>4, <2>5, <3>1, <3>2
      <4> QED
        BY <4>1, <4>2, <4>3
    <3>3. CASE w[1] # c
      <4>1. w[1] \in Elements(known') <=> w[1] \in Elements(known)
        BY <2>3, <3>3
      <4>2. (\E i \in DOMAIN stack' : stack'[i].cls = w[1] /\ StepOf(stack'[i]) <= w[2])
              <=> (\E i \in DOMAIN frames : frames[i].cls = w[1] /\ StepOf(frames[i]) <= w[2])
        BY <2>4, <2>5, <3>3
      <4> QED
        BY <4>1, <4>2
    <3> QED
      BY <3>2, <3>3
  <2>7. Left(stack', known') = Left(frames, known)
    BY <2>6, Zenon DEF Left
  <2>8. InStep(stack')
    <3>1. Len(mixins[c[1]]) \in Nat
      BY <2>1, MixinCount, HierarchyAssumption
    <3> QED
      BY <2>4, <2>5, <3>1 DEF InStep
  <2> QED
    BY <2>7, <2>8
<1> QED
  BY <1>1, <1>2

(***************************************************************************)
(* The step of the topmost activation is done when it moves on or returns. *)
(***************************************************************************)
LEMMA TopLeaves ==
  ASSUME Inv, InStep(stack), stack # <<>>, NEW frames \in Seq(Frame),
         Len(frames) \in {Len(stack) - 1, Len(stack)},
         \A i \in DOMAIN frames : i # Len(stack) =>
           /\ frames[i].cls = stack[i].cls /\ frames[i].next = stack[i].next
           /\ StepOf(frames[i]) = StepOf(stack[i]),
         Len(stack) \in DOMAIN frames =>
           /\ frames[Len(stack)].cls = Top.cls
           /\ StepOf(Top) < StepOf(frames[Len(stack)])
           /\ frames[Len(stack)].next \in 1 .. Len(mixins[Top.cls[1]]) + 1
  PROVE  /\ Left(frames, known) \subseteq Left(stack, known)
         /\ Left(frames, known) # Left(stack, known)
         /\ InStep(frames)
<1>1. /\ Top \in Frame /\ Top.cls \in Class /\ Len(stack) \in Nat \ {0}
      /\ Top = stack[Len(stack)] /\ Len(stack) \in DOMAIN stack
      /\ stack \in Seq(Frame) /\ DOMAIN stack = 1 .. Len(stack)
      /\ DOMAIN frames = 1 .. Len(frames)
      /\ \A i \in DOMAIN frames : i \in DOMAIN stack
  BY TopFrame DEF Inv, TypeOK, Top
<1>2. InStep(frames)
  BY <1>1 DEF InStep
<1>3. PICK c \in Class, k \in Nat : c = Top.cls /\ k = StepOf(Top)
  BY <1>1 DEF StepOf, Frame
<1>4. k \in Nat /\ k <= Len(mixins[c[1]]) + 1 /\ k \in 0 .. MaxMixins + 1
  <2>1. Top.next \in 1 .. Len(mixins[c[1]]) + 1
    BY <1>1, <1>3 DEF InStep
  <2>2. Len(mixins[c[1]]) \in 0 .. MaxMixins
    BY <1>3, MixinCount DEF Inv
  <2>3. MaxMixins \in Nat
    BY HierarchyAssumption
  <2> QED
    BY <1>3, <2>1, <2>2, <2>3 DEF StepOf
<1>5. c \in Elements(known)
  BY <1>1, <1>3 DEF Inv, Chain
<1>6. ASSUME NEW i \in DOMAIN frames
      PROVE  /\ StepOf(frames[i]) \in Int /\ StepOf(stack[i]) \in Int
             /\ StepOf(stack[i]) <= StepOf(frames[i])
             /\ frames[i].cls = stack[i].cls
  <2>0. i \in DOMAIN stack
    BY <1>1
  <2>1. frames[i] \in Frame /\ stack[i] \in Frame
    <3>1. \A q \in Seq(Frame) : \A j \in DOMAIN q : q[j] \in Frame
      OBVIOUS
    <3> QED
      BY <1>1, <2>0, <3>1
  <2>2. StepOf(frames[i]) \in Int /\ StepOf(stack[i]) \in Int
    BY <2>1 DEF StepOf, Frame
  <2>3. CASE i = Len(stack)
    <3>1. StepOf(stack[i]) < StepOf(frames[i]) /\ frames[i].cls = stack[i].cls
      BY <1>1, <2>3
    <3> QED
      BY <2>2, <3>1
  <2>4. CASE i # Len(stack)
    BY <2>2, <2>4
  <2> QED
    BY <2>2, <2>3, <2>4
<1>8. Left(frames, known) \subseteq Left(stack, known)
  <2> SUFFICES ASSUME NEW w \in Left(frames, known) PROVE w \in Left(stack, known)
    OBVIOUS
  <2>1. /\ w \in Class \X (0 .. MaxMixins + 1) /\ w[2] \in Int
        /\ w[2] <= Len(mixins[w[1][1]]) + 1
    BY HierarchyAssumption DEF Left
  <2>2. CASE w[1] \notin Elements(known)
    BY <2>1, <2>2 DEF Left
  <2>3. CASE \E i \in DOMAIN frames : frames[i].cls = w[1] /\ StepOf(frames[i]) <= w[2]
    <3>1. PICK i \in DOMAIN frames : frames[i].cls = w[1] /\ StepOf(frames[i]) <= w[2]
      BY <2>3
    <3>2. i \in DOMAIN stack /\ stack[i].cls = w[1]
      BY <1>1, <1>6, <3>1
    <3>3. StepOf(stack[i]) <= w[2]
      BY <1>6, <2>1, <3>1
    <3> QED
      BY <2>1, <3>2, <3>3 DEF Left
  <2> QED
    BY <2>2, <2>3 DEF Left
<1>9. <<c, k>> \in Left(stack, known)
  <2>1. <<c, k>> \in Class \X (0 .. MaxMixins + 1)
    BY <1>4
  <2>2. stack[Len(stack)].cls = c /\ StepOf(stack[Len(stack)]) <= k
    BY <1>3, <1>4 DEF Top
  <2> QED
    BY <1>1, <1>4, <2>1, <2>2 DEF Left
<1>10. <<c, k>> \notin Left(frames, known)
  <2> SUFFICES ASSUME NEW i \in DOMAIN frames, frames[i].cls = c, StepOf(frames[i]) <= k
               PROVE  FALSE
    BY <1>5 DEF Left
  <2>1. i = Len(stack)
    <3>1. i \in DOMAIN stack /\ stack[i].cls = stack[Len(stack)].cls
      BY <1>1, <1>3, <1>6
    <3> QED
      BY <1>1, <3>1 DEF Inv, Chain
  <2>2. StepOf(Top) < StepOf(frames[i])
    BY <2>1
  <2>3. StepOf(frames[i]) \in Int
    BY <1>6
  <2> QED
    BY <1>3, <1>4, <2>2, <2>3
<1> QED
  BY <1>2, <1>8, <1>9, <1>10

(***************************************************************************)
(* The work left, as a set, is never more after a step, and less after a   *)
(* step of an activation.                                                  *)
(***************************************************************************)
LEMMA VisitSuperLeaves ==
  ASSUME MemberExact, Inv, InStep(stack), VisitSuper
  PROVE  /\ Left(stack', known') \subseteq Left(stack, known)
         /\ Left(stack', known') # Left(stack, known)
         /\ InStep(stack')
<1> DEFINE f == [Top EXCEPT !.at = "mixins"]
           frames == [stack EXCEPT ![Len(stack)].at = "mixins"]
<1>1. /\ Top \in Frame /\ Top.cls \in Class /\ Len(stack) \in Nat \ {0} /\ Top.at = "super"
      /\ stack # <<>> /\ stack \in Seq(Frame)
  BY TopFrame DEF VisitSuper, Inv, TypeOK
<1>2. Top.next \in 1 .. Len(mixins[Top.cls[1]]) + 1
  BY <1>1 DEF InStep, Top
<1>3. f \in Frame /\ f.cls = Top.cls /\ f.next = Top.next /\ StepOf(f) = Top.next /\ StepOf(Top) = 0
  BY <1>1 DEF Frame, StepOf
<1>4. frames = [stack EXCEPT ![Len(stack)] = f]
  BY DEF Top
<1> HIDE DEF f, frames
<1>5. /\ frames \in Seq(Frame) /\ Len(frames) = Len(stack) /\ frames[Len(stack)] = f
      /\ \A i \in DOMAIN frames : i # Len(stack) => frames[i] = stack[i]
  BY <1>1, <1>3, <1>4
<1>6. /\ Left(frames, known) \subseteq Left(stack, known)
      /\ Left(frames, known) # Left(stack, known)
      /\ InStep(frames)
  <2>1. 0 < Top.next
    BY <1>2
  <2> QED
    BY <1>1, <1>2, <1>3, <1>5, <2>1, TopLeaves
<1>7. Left(stack', known') = Left(frames, known) /\ InStep(stack')
  <2>1. CASE FollowsSuper(Top.cls)
    <3>1. Call(frames, Superclass(Top.cls), "superclass")
      BY <2>1 DEF VisitSuper, frames
    <3>2. Superclass(Top.cls) \in Class \union {None}
      BY <1>1, SuperclassType DEF Inv
    <3> QED
      BY <1>5, <1>6, <3>1, <3>2, CallLeaves DEF Inv
  <2>2. CASE ~ FollowsSuper(Top.cls)
    BY <1>6, <2>2 DEF VisitSuper, frames
  <2> QED
    BY <2>1, <2>2
<1> QED
  BY <1>6, <1>7

LEMMA VisitMixinLeaves ==
  ASSUME MemberExact, Inv, InStep(stack), VisitMixin
  PROVE  /\ Left(stack', known') \subseteq Left(stack, known)
         /\ Left(stack', known') # Left(stack, known)
         /\ InStep(stack')
<1> DEFINE f == [Top EXCEPT !.next = Top.next + 1]
           frames == [stack EXCEPT ![Len(stack)].next = Top.next + 1]
<1>1. /\ Top \in Frame /\ Top.cls \in Class /\ Len(stack) \in Nat \ {0}
      /\ Top.at = "mixins" /\ Top.next \in DOMAIN mixins[Top.cls[1]]
      /\ stack # <<>> /\ stack \in Seq(Frame)
  BY TopFrame DEF VisitMixin, Inv, TypeOK
<1>2. Top.next \in Nat /\ Top.next + 1 \in 1 .. Len(mixins[Top.cls[1]]) + 1
  <2>1. /\ Top.next \in 1 .. Len(mixins[Top.cls[1]])
        /\ Len(mixins[Top.cls[1]]) \in 0 .. MaxMixins /\ MaxMixins \in Nat
    BY <1>1, MixinCount, HierarchyAssumption DEF Inv
  <2> QED
    BY <2>1
<1>3. /\ f \in Frame /\ f.cls = Top.cls /\ f.next = Top.next + 1
      /\ StepOf(f) = Top.next + 1 /\ StepOf(Top) = Top.next
  BY <1>1 DEF Frame, StepOf
<1>4. frames = [stack EXCEPT ![Len(stack)] = f]
  BY DEF Top
<1> HIDE DEF f, frames
<1>5. /\ frames \in Seq(Frame) /\ Len(frames) = Len(stack) /\ frames[Len(stack)] = f
      /\ \A i \in DOMAIN frames : i # Len(stack) => frames[i] = stack[i]
  BY <1>1, <1>3, <1>4
<1>6. /\ Left(frames, known) \subseteq Left(stack, known)
      /\ Left(frames, known) # Left(stack, known)
      /\ InStep(frames)
  <2>1. Top.next < Top.next + 1
    BY <1>2
  <2> QED
    BY <1>1, <1>2, <1>3, <1>5, <2>1, TopLeaves
<1>7. Left(stack', known') = Left(frames, known) /\ InStep(stack')
  <2>1. Call(frames, MixinOf(Top.cls, Top.next), "mixin")
    BY DEF VisitMixin, frames
  <2>2. MixinOf(Top.cls, Top.next) \in Class \union {None}
    BY <1>1, MixinType DEF Inv
  <2> QED
    BY <1>5, <1>6, <2>1, <2>2, CallLeaves DEF Inv
<1> QED
  BY <1>6, <1>7

LEMMA PrintClassLeaves ==
  ASSUME Inv, InStep(stack), PrintClass
  PROVE  /\ Left(stack', known') \subseteq Left(stack, known)
         /\ Left(stack', known') # Left(stack, known)
         /\ InStep(stack')
<1>1. /\ Len(stack) \in Nat \ {0} /\ stack # <<>> /\ stack \in Seq(Frame)
      /\ DOMAIN stack = 1 .. Len(stack)
      /\ Top = stack[Len(stack)] /\ known' = known
  BY TopFrame DEF PrintClass, Inv, TypeOK, Top
<1>2. /\ Rest \in Seq(Frame) /\ Len(Rest) = Len(stack) - 1
      /\ DOMAIN Rest = 1 .. Len(stack) - 1
      /\ \A i \in DOMAIN Rest : Rest[i] = stack[i]
  BY <1>1 DEF Rest
<1>3. /\ stack' \in Seq(Frame) /\ Len(stack') = Len(stack) - 1
      /\ DOMAIN stack' = 1 .. Len(stack) - 1
      /\ \A i \in DOMAIN stack' : /\ stack'[i].cls = stack[i].cls
                                  /\ stack'[i].next = stack[i].next
                                  /\ stack'[i].at = stack[i].at
  <2>1. CASE stack' = Rest
    BY <1>2, <2>1
  <2>2. CASE Rest # <<>> /\ stack' = [Rest EXCEPT ![Len(Rest)].counter = Rest[Len(Rest)].counter + 1]
    <3> DEFINE f == [Rest[Len(Rest)] EXCEPT !.counter = Rest[Len(Rest)].counter + 1]
    <3>1. Rest[Len(Rest)] \in Frame
      BY <1>1, <1>2, <2>2
    <3>2. /\ f \in Frame /\ f.cls = Rest[Len(Rest)].cls /\ f.next = Rest[Len(Rest)].next
          /\ f.at = Rest[Len(Rest)].at
      BY <3>1 DEF Frame
    <3>3. stack' = [Rest EXCEPT ![Len(Rest)] = f]
      BY <2>2
    <3> HIDE DEF f
    <3>4. /\ stack' \in Seq(Frame) /\ Len(stack') = Len(Rest)
          /\ \A i \in DOMAIN Rest : stack'[i] = IF i = Len(Rest) THEN f ELSE Rest[i]
      <4>1. PICK q \in Seq(Frame), n \in Nat \ {0} : q = Rest /\ n = Len(Rest)
        BY <1>1, <1>2, <2>2
      <4>2. n = Len(q) /\ stack' = [q EXCEPT ![n] = f]
        BY <3>3, <4>1
      <4>3. stack' \in Seq(Frame) /\ Len(stack') = n
        BY <3>2, <4>1, <4>2
      <4>4. \A i \in DOMAIN q : stack'[i] = IF i = n THEN f ELSE q[i]
        BY <4>2
      <4> QED
        BY <4>1, <4>3, <4>4
    <3> QED
      BY <1>1, <1>2, <3>2, <3>4
  <2>3. Top.relationship # "none" => Rest # <<>>
    BY <1>1, <1>2 DEF Inv, Chain
  <2> QED
    BY <2>1, <2>2, <2>3 DEF PrintClass, PrintEdge
<1>4. \A i \in DOMAIN stack' : StepOf(stack'[i]) = StepOf(stack[i])
  BY <1>3 DEF StepOf
<1>5. PICK frames \in Seq(Frame) : frames = stack'
  BY <1>3
<1>6. ~ (Len(stack) \in DOMAIN frames)
  BY <1>1, <1>3, <1>5
<1>7. /\ Left(frames, known) \subseteq Left(stack, known)
      /\ Left(frames, known) # Left(stack, known)
      /\ InStep(frames)
  BY <1>1, <1>3, <1>4, <1>5, <1>6, TopLeaves
<1> QED
  BY <1>1, <1>5, <1>7

(***************************************************************************)
(* A step of the recursion takes from what is left of the classes, a step  *)
(* of the caller from the caller's own.                                    *)
(***************************************************************************)
LEMMA StepShrinks ==
  ASSUME MemberExact, IsFiniteSet(Infras), Inv, OrderInv, InStep(stack), Next
  PROVE  StepsLeft' \in 0 .. StepsLeft - 1 /\ InStep(stack)'
<1>1. PICK A, B : A = Left(stack', known') /\ B = Left(stack, known)
  OBVIOUS
<1>2. UNCHANGED <<super, mixins, start>>
  BY DEF Next, OpenFails, Open, VisitSuper, VisitMixin, PrintClass, Close, runtime
<1>3. Undone = B /\ Undone' = A
  <2>1. Undone' = Left(stack', known')
    BY <1>2 DEF Undone, Left, Elements
  <2> QED
    BY <1>1, <2>1, UndoneIsLeft
<1>4. B \subseteq Class \X (0 .. MaxMixins + 1)
  BY <1>1 DEF Left
<1>5. CASE VisitSuper \/ VisitMixin \/ PrintClass
  <2>1. A \subseteq B /\ A # B /\ InStep(stack') /\ pc' = pc
    BY <1>1, <1>5, VisitSuperLeaves, VisitMixinLeaves, PrintClassLeaves
       DEF VisitSuper, VisitMixin, PrintClass
  <2>2. Cardinality(A) \in Nat /\ Cardinality(B) \in Nat /\ Cardinality(A) < Cardinality(B)
    BY <1>4, <2>1, FewerLeft
  <2>3. StepsOfCaller' = StepsOfCaller /\ StepsOfCaller \in Nat
    BY <2>1 DEF StepsOfCaller
  <2> QED
    BY <1>2, <1>3, <2>1, <2>2, <2>3 DEF StepsLeft, InStep
<1>6. CASE OpenFails \/ Open \/ Close
  <2>1. A = B /\ InStep(stack')
    <3>1. CASE OpenFails \/ Close
      BY <1>1, <3>1 DEF OpenFails, Close
    <3>2. CASE Open
      <4>1. stack = <<>> /\ InStep(<<>>)
        BY <3>2 DEF Open, OrderInv, InStep
      <4> QED
        BY <1>1, <3>2, <4>1, CallLeaves DEF Open, Inv, TypeOK
    <3> QED
      BY <1>6, <3>1, <3>2
  <2>2. StepsOfCaller' < StepsOfCaller /\ StepsOfCaller' \in Nat /\ StepsOfCaller \in Nat
    BY <1>6 DEF OpenFails, Open, Close, StepsOfCaller
  <2>3. Cardinality(B) \in Nat
    BY <1>4, FiniteWork
  <2> QED
    BY <1>2, <1>3, <2>1, <2>2, <2>3 DEF StepsLeft, InStep
<1> QED
  BY <1>5, <1>6 DEF Next

(***************************************************************************)
(* A dump of any hierarchy, started anywhere, has less left to do with     *)
(* every step it takes, and can take only finitely many.                   *)
(***************************************************************************)
THEOREM HierarchyDumpEnds ==
  ASSUME MemberExact, IsFiniteSet(Infras)
  PROVE  Spec => WorkShrinks
<1>1. Init => InStep(stack)
  BY DEF Init, InStep
<1>2. Inv /\ OrderInv /\ InStep(stack) /\ [Next]_vars
        => InStep(stack)' /\ [StepsLeft' \in 0 .. StepsLeft - 1]_vars
  BY StepShrinks DEF vars, InStep
<1> QED
  BY <1>1, <1>2, Invariance, OrderInvariance, PTL DEF Spec, WorkShrinks
===============================================================================
