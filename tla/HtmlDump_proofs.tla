---------------------------- MODULE HtmlDump_proofs ----------------------------
(***************************************************************************)
(* Proofs about the HTML dumps, for every class graph and every set of     *)
(* files that cannot be opened.  The set of the dump is taken for a set    *)
(* (see CSet_proofs), and the names of the pages are taken to differ:      *)
(* html_escape gives all names with markup the same replacement, and a     *)
(* class could be called "index".                                          *)
(***************************************************************************)
EXTENDS HtmlDump, FiniteSetTheorems, TLAPS

Pointer == Class \union Pair \union {Universe}

MemberExact == \A added \in Seq(Pointer), p \in Pointer :
                 IsMember(added, p) <=> p \in Range(added)

NamesDiffer == /\ \A i, j \in Infras : PageName(i) = PageName(j) => i = j
               /\ \A i \in Infras : PageName(i) # IndexName

-------------------------------------------------------------------------------
LEMMA RangeOfSeq ==
  ASSUME NEW S, NEW s \in Seq(S)
  PROVE  /\ Range(s) \subseteq S
         /\ \A e \in S : Append(s, e) \in Seq(S) /\ Range(Append(s, e)) = Range(s) \union {e}
         /\ s # <<>> => /\ Head(s) \in S /\ Tail(s) \in Seq(S)
                        /\ Range(s) = {Head(s)} \union Range(Tail(s))
<1>1. DOMAIN s = 1 .. Len(s) /\ Len(s) \in Nat /\ \A i \in 1 .. Len(s) : s[i] \in S
  OBVIOUS
<1>2. Range(s) \subseteq S
  BY <1>1 DEF Range
<1>3. ASSUME NEW e \in S
      PROVE  Append(s, e) \in Seq(S) /\ Range(Append(s, e)) = Range(s) \union {e}
  <2>1. /\ Append(s, e) \in Seq(S) /\ DOMAIN Append(s, e) = 1 .. Len(s) + 1
        /\ Append(s, e)[Len(s) + 1] = e
        /\ \A i \in 1 .. Len(s) : Append(s, e)[i] = s[i]
    OBVIOUS
  <2>2. \A i \in 1 .. Len(s) + 1 : i \in 1 .. Len(s) \/ i = Len(s) + 1
    BY <1>1
  <2>3. \A i \in 1 .. Len(s) : i \in 1 .. Len(s) + 1
    BY <1>1
  <2>4. Len(s) + 1 \in 1 .. Len(s) + 1
    BY <1>1
  <2> QED BY <1>1, <2>1, <2>2, <2>3, <2>4, Zenon DEF Range
<1>4. ASSUME s # <<>>
      PROVE  /\ Head(s) \in S /\ Tail(s) \in Seq(S)
             /\ Range(s) = {Head(s)} \union Range(Tail(s))
  <2>1. Len(s) # 0 /\ Head(s) = s[1] /\ Head(s) \in S /\ Tail(s) \in Seq(S) /\ Len(Tail(s)) = Len(s) - 1
    BY <1>4
  <2>2. /\ DOMAIN Tail(s) = 1 .. Len(s) - 1
        /\ \A i \in 1 .. Len(s) - 1 : Tail(s)[i] = s[i + 1]
    BY <1>4, <2>1
  <2>3. Range(s) \subseteq {Head(s)} \union Range(Tail(s))
    <3> SUFFICES ASSUME NEW i \in 1 .. Len(s), i # 1 PROVE s[i] \in Range(Tail(s))
      BY <1>1, <2>1 DEF Range
    <3>1. i - 1 \in DOMAIN Tail(s) /\ Tail(s)[i - 1] = s[i]
      BY <1>1, <2>2
    <3> QED BY <3>1 DEF Range
  <2>4. Range(Tail(s)) \subseteq Range(s)
    <3> SUFFICES ASSUME NEW i \in 1 .. Len(s) - 1 PROVE Tail(s)[i] \in Range(s)
      BY <2>2 DEF Range
    <3>1. i + 1 \in DOMAIN s
      BY <1>1
    <3> QED BY <2>2, <3>1 DEF Range
  <2>5. Head(s) \in Range(s)
    BY <1>1, <2>1 DEF Range
  <2> QED BY <2>1, <2>3, <2>4, <2>5
<1> QED BY <1>2, <1>3, <1>4

LEMMA WalkOfPair ==
  ASSUME NEW i \in Infras
  PROVE  /\ PairWalk(i) \in Seq(Pointer)
         /\ Range(PairWalk(i)) = {<<i, "pair">>, Infra(i), Meta(i)}
<1>1. <<i, "pair">> \in Pointer /\ Infra(i) \in Pointer /\ Meta(i) \in Pointer
  BY DEF Pointer, Pair, Class, Infra, Meta
<1>2. PairWalk(i) \in Seq(Pointer) /\ DOMAIN PairWalk(i) = 1 .. 3
  BY <1>1 DEF PairWalk
<1>3. PairWalk(i)[1] = <<i, "pair">> /\ PairWalk(i)[2] = Infra(i) /\ PairWalk(i)[3] = Meta(i)
  BY DEF PairWalk
<1>4. 1 .. 3 = {1, 2, 3}
  OBVIOUS
<1>5. Range(PairWalk(i)) = {PairWalk(i)[k] : k \in {1, 2, 3}}
  BY <1>2, <1>4 DEF Range
<1> QED BY <1>2, <1>3, <1>5

LEMMA SuperclassType ==
  ASSUME super \in [Infras -> Infras \union {None}], NEW c \in Class
  PROVE  Superclass(c) \in Class \union {None}
BY DEF Superclass, Class, Infra


-------------------------------------------------------------------------------
Done(i)   == PageName(i) \in DOMAIN files \union failed
IndexDone == IndexName \in DOMAIN files \union failed

Types == /\ TypeOK
         /\ super \in [Infras -> Infras \union {None}]
         /\ mixins \in [Infras -> MixinLists]
         /\ job \in Jobs /\ cssUrl \in BOOLEAN

\* under a name there is the page of that name, whenever it was written
FilesRight ==
  \A f \in DOMAIN files :
    \/ f = IndexName /\ files[f] = IndexPage
    \/ f = CssName /\ files[f] = Style
    \/ \E i \in Infras : f = PageName(i) /\ files[f] = ClassPage(i)

\* what is in the set has a file, or could not get one
KnownDone == /\ \A i \in Infras : Infra(i) \in Range(known) => Done(i)
             /\ Universe \in Range(known) => IndexDone

\* the universe walk has dealt with, or will come to, everything
UniverseWalk ==
  /\ job.dump = "universe" =>
       /\ cls = None
       /\ \A i \in Infras : i \in pairs \/ Infra(i) \in Range(walk) \/ Done(i)
       /\ Universe \in Range(walk) \/ IndexDone
  /\ job.dump # "universe" => pairs = {}

(***************************************************************************)
(* The loop of the class dump is always one superclass ahead of the pages. *)
(***************************************************************************)
GoesOnTo(i) == cls # None /\ cls[1] = i
ClassWalk ==
  /\ job.dump # "universe" =>
       Done(job.start[1]) \/ Infra(job.start[1]) \in Range(walk) \/ GoesOnTo(job.start[1])
  /\ job.dump = "class" =>
       \A i \in Infras : super[i] # None =>
         /\ Infra(i) \in Range(walk) => GoesOnTo(super[i])
         /\ Done(i) => Done(super[i]) \/ Infra(super[i]) \in Range(walk) \/ GoesOnTo(super[i])

Ending ==
  /\ pc # "walking" => walk = <<>> /\ pairs = {} /\ cls = None
  /\ pc = "css" => job.dump # "classpair"
  /\ pc = "done" /\ job.dump # "classpair" /\ ~ cssUrl => CssName \in DOMAIN files

Inv == Types /\ FilesRight /\ KnownDone /\ UniverseWalk /\ ClassWalk /\ Ending

-------------------------------------------------------------------------------
LEMMA NamesApart ==
  ASSUME NEW i \in Infras
  PROVE  PageName(i) # CssName /\ IndexName # CssName
BY DEF PageName, CssName, IndexName

LEMMA InitInv == Init => Inv
<1> SUFFICES ASSUME Init PROVE Inv
  OBVIOUS
<1>1. DOMAIN files = {} /\ Range(known) = {} /\ failed = {} /\ pc = "walking"
  BY DEF Init, Range
<1>2. /\ job \in Jobs /\ job.start \in Class \union {None}
      /\ job.dump # "universe" => job.start \in Class
  BY DEF Init, Jobs
<1>3. mixins \in [Infras -> MixinLists]
  BY DEF Init, InitRuntime
<1>4. known \in Seq(Pointer) /\ walk \in Seq(Pointer)
  <2>1. Universe \in Pointer
    BY DEF Pointer
  <2>2. <<>> \in Seq(Pointer) /\ <<Universe>> \in Seq(Pointer)
    BY <2>1
  <2> QED BY <2>2 DEF Init
<1>5. Types
  BY <1>1, <1>2, <1>3, <1>4 DEF Init, InitRuntime, Types, TypeOK, Pointer
<1>6. job.dump = "universe" => Universe \in Range(walk)
  BY DEF Init, Range
<1>7. job.dump # "universe" => Range(walk) = {} /\ cls = job.start /\ cls # None
  BY <1>2, HtmlDumpAssumption DEF Init, Range
<1>8. job.dump = "universe" => cls = None /\ pairs = Infras
  BY <1>2 DEF Init, Jobs
<1>9. job.dump # "universe" => pairs = {}
  BY DEF Init
<1>10. UniverseWalk
  BY <1>6, <1>8, <1>9 DEF UniverseWalk
<1>11. ClassWalk
  BY <1>1, <1>7 DEF ClassWalk, GoesOnTo, Done
<1> QED BY <1>1, <1>5, <1>10, <1>11 DEF Inv, FilesRight, KnownDone, Ending

(***************************************************************************)
(* A callback leaves what it was called for with a file, or without one    *)
(* for good, and changes nothing else.                                     *)
(***************************************************************************)
LEMMA CallbackStep ==
  ASSUME MemberExact, NamesDiffer, Inv, VisitUniverse \/ VisitInfra \/ VisitOther
  PROVE  /\ walk # <<>> /\ walk' \in Seq(Pointer) /\ known' \in Seq(Pointer)
         /\ Range(walk) = {Head(walk)} \union Range(walk')
         /\ Range(known') = Range(known) \union {Head(walk)}
         /\ DOMAIN files \subseteq DOMAIN files' /\ failed \subseteq failed'
         /\ failed' \subseteq failed \union {IndexName} \union {PageName(i) : i \in Infras}
         /\ FilesRight'
         /\ \A i \in Infras : Done(i)' <=> Done(i) \/ Head(walk) = Infra(i)
         /\ Head(walk) = Universe => IndexDone'
<1> DEFINE p == Head(walk)
<1>1. /\ Callback(p) /\ p \in Pointer /\ known \in Seq(Pointer) /\ walk \in Seq(Pointer)
      /\ walk # <<>>
  BY RangeOfSeq DEF VisitUniverse, VisitInfra, VisitOther, Callback, Inv, Types, TypeOK, Pointer
<1>2. /\ walk' = Tail(walk) /\ walk' \in Seq(Pointer)
      /\ Range(walk) = {p} \union Range(walk')
  BY <1>1, RangeOfSeq DEF Callback
<1>3. known' \in Seq(Pointer) /\ Range(known') = Range(known) \union {p}
  <2>1. CASE IsMember(known, p)
    BY <1>1, <2>1 DEF Callback, MemberExact
  <2>2. CASE ~ IsMember(known, p)
    BY <1>1, <2>2, RangeOfSeq DEF Callback
  <2> QED BY <2>1, <2>2
<1>4. UNCHANGED runtime
  BY <1>1 DEF Callback
<1>5. IndexPage' = IndexPage /\ Style' = Style /\ \A i : ClassPage(i)' = ClassPage(i)
  BY <1>4 DEF runtime, IndexPage, Style, ClassPage, CssLink, SuperLink, MixinLinks
<1>6. ASSUME files' = files, failed' = failed,
             \A i \in Infras : p = Infra(i) => Done(i), p = Universe => IndexDone
      PROVE  /\ DOMAIN files \subseteq DOMAIN files' /\ failed \subseteq failed'
             /\ failed' \subseteq failed \union {IndexName} \union {PageName(i) : i \in Infras}
             /\ FilesRight'
             /\ \A i \in Infras : Done(i)' <=> Done(i) \/ p = Infra(i)
             /\ p = Universe => IndexDone'
  <2>1. FilesRight'
    BY <1>5, <1>6 DEF Inv, FilesRight
  <2> QED BY <1>6, <2>1 DEF Done, IndexDone
<1>7. CASE p = Universe
  <2>1. \A i \in Infras : p # Infra(i)
    BY <1>7 DEF NamesDiffer, Universe, Infra
  <2>2. VisitUniverse
    BY <1>7, <2>1 DEF VisitInfra, VisitOther, VisitUniverse, Callback, Universe, Pair
  <2>3. CASE IsMember(known, p)
    <3>1. IndexDone
      BY <1>1, <1>7, <2>3 DEF MemberExact, Inv, KnownDone
    <3>2. files' = files /\ failed' = failed
      BY <1>7, <2>2, <2>3 DEF VisitUniverse, WriteUnlessKnown
    <3> QED BY <1>1, <1>2, <1>3, <1>6, <2>1, <3>1, <3>2
  <2>4. CASE ~ IsMember(known, p)
    <3>1. WriteOrSkip(IndexName, IndexPage)
      BY <1>7, <2>2, <2>4 DEF VisitUniverse, WriteUnlessKnown
    <3>2. /\ DOMAIN files' \union failed' = DOMAIN files \union failed \union {IndexName}
          /\ DOMAIN files \subseteq DOMAIN files' /\ failed \subseteq failed'
          /\ failed' \subseteq failed \union {IndexName}
      BY <3>1 DEF WriteOrSkip, Write
    <3>3. FilesRight'
      <4>1. CASE Write(IndexName, IndexPage)
        BY <1>5, <4>1 DEF Inv, FilesRight, Write
      <4>2. CASE files' = files
        BY <1>5, <4>2 DEF Inv, FilesRight
      <4> QED BY <3>1, <4>1, <4>2 DEF WriteOrSkip
    <3>4. \A i \in Infras : Done(i)' <=> Done(i)
      BY <3>2 DEF Done, NamesDiffer
    <3> QED BY <1>1, <1>2, <1>3, <2>1, <3>2, <3>3, <3>4 DEF IndexDone
  <2> QED BY <2>3, <2>4
<1>8. ASSUME NEW j \in Infras, p = Infra(j)
      PROVE  /\ DOMAIN files \subseteq DOMAIN files' /\ failed \subseteq failed'
             /\ failed' \subseteq failed \union {IndexName} \union {PageName(i) : i \in Infras}
             /\ FilesRight'
             /\ \A i \in Infras : Done(i)' <=> Done(i) \/ p = Infra(i)
             /\ p = Universe => IndexDone'
  <2>1. p # Universe /\ p \notin Pair \union (Infras \X {"meta"})
    BY <1>8 DEF NamesDiffer, Universe, Infra, Pair
  <2>2. VisitInfra
    BY <2>1 DEF VisitInfra, VisitOther, VisitUniverse, Callback
  <2>3. \A i \in Infras : p = Infra(i) => i = j
    BY <1>8 DEF Infra
  <2>4. WriteUnlessKnown(p, PageName(j), ClassPage(j))
    BY <1>8, <2>2, <2>3 DEF VisitInfra, Callback
  <2>5. CASE IsMember(known, p)
    <3>1. Done(j)
      BY <1>1, <1>8, <2>5 DEF MemberExact, Inv, KnownDone
    <3>2. files' = files /\ failed' = failed
      BY <2>4, <2>5 DEF WriteUnlessKnown
    <3> QED BY <1>6, <2>1, <2>3, <3>1, <3>2
  <2>6. CASE ~ IsMember(known, p)
    <3>1. WriteOrSkip(PageName(j), ClassPage(j))
      BY <2>4, <2>6 DEF WriteUnlessKnown
    <3>2. /\ DOMAIN files' \union failed' = DOMAIN files \union failed \union {PageName(j)}
          /\ DOMAIN files \subseteq DOMAIN files' /\ failed \subseteq failed'
          /\ failed' \subseteq failed \union {PageName(j)}
      BY <3>1 DEF WriteOrSkip, Write
    <3>3. FilesRight'
      <4>1. CASE Write(PageName(j), ClassPage(j))
        BY <1>5, <4>1 DEF Inv, FilesRight, Write
      <4>2. CASE files' = files
        BY <1>5, <4>2 DEF Inv, FilesRight
      <4> QED BY <3>1, <4>1, <4>2 DEF WriteOrSkip
    <3>4. \A i \in Infras : Done(i)' <=> Done(i) \/ i = j
      BY <3>2 DEF Done, NamesDiffer
    <3> QED BY <1>8, <2>1, <2>3, <3>2, <3>3, <3>4
  <2> QED BY <2>5, <2>6
<1>9. CASE p # Universe /\ \A i \in Infras : p # Infra(i)
  <2>1. VisitOther
    BY <1>9 DEF VisitInfra, VisitOther, VisitUniverse, Callback
  <2> QED BY <1>1, <1>2, <1>3, <1>6, <1>9, <2>1 DEF VisitOther
<1> QED BY <1>1, <1>2, <1>3, <1>7, <1>8, <1>9

LEMMA CallbackInv ==
  MemberExact /\ NamesDiffer /\ Inv /\ (VisitUniverse \/ VisitInfra \/ VisitOther) => Inv'
<1> SUFFICES ASSUME MemberExact, NamesDiffer, Inv, VisitUniverse \/ VisitInfra \/ VisitOther
             PROVE  Inv'
  OBVIOUS
<1>1. /\ super' = super /\ mixins' = mixins /\ job' = job /\ cssUrl' = cssUrl /\ closed' = closed
      /\ cls' = cls /\ pairs' = pairs /\ pc' = pc /\ pc = "walking"
  BY DEF VisitUniverse, VisitInfra, VisitOther, Callback, runtime
<1>2. /\ walk' \in Seq(Pointer) /\ known' \in Seq(Pointer)
      /\ Range(walk) = {Head(walk)} \union Range(walk')
      /\ Range(known') = Range(known) \union {Head(walk)}
      /\ DOMAIN files \subseteq DOMAIN files' /\ failed \subseteq failed'
      /\ failed' \subseteq failed \union {IndexName} \union {PageName(i) : i \in Infras}
      /\ FilesRight'
      /\ \A i \in Infras : Done(i)' <=> Done(i) \/ Head(walk) = Infra(i)
      /\ Head(walk) = Universe => IndexDone'
  BY CallbackStep
<1>3. IndexDone => IndexDone'
  BY <1>2 DEF IndexDone
<1>4. Types'
  <2>1. \A f \in DOMAIN files' : files'[f] \in Page'
    BY <1>2 DEF FilesRight, Page
  <2>2. failed' \subseteq {IndexName} \union {PageName(i) : i \in Infras}
    BY <1>2 DEF Inv, Types, TypeOK
  <2> QED BY <1>1, <1>2, <2>1, <2>2 DEF Inv, Types, TypeOK, Pointer
<1>5. KnownDone'
  BY <1>2, <1>3 DEF Inv, KnownDone
<1>6. UniverseWalk'
  BY <1>1, <1>2, <1>3 DEF Inv, UniverseWalk
<1>7. ClassWalk'
  <2>1. \A i : GoesOnTo(i)' <=> GoesOnTo(i)
    BY <1>1 DEF GoesOnTo
  <2>2. job.dump # "universe" => job.start[1] \in Infras
    BY DEF Inv, Types, Jobs, Class
  <2>3. ASSUME job.dump # "universe", NEW s \in Infras, s = job.start[1]
        PROVE  Done(s)' \/ Infra(s) \in Range(walk') \/ GoesOnTo(s)'
    <3>1. Done(s) \/ Infra(s) \in Range(walk) \/ GoesOnTo(s)
      BY <2>3 DEF Inv, ClassWalk
    <3> QED BY <1>2, <2>1, <3>1
  <2>4. ASSUME job.dump = "class", NEW i \in Infras, NEW s \in Infras, s = super[i], s # None
        PROVE  /\ Infra(i) \in Range(walk') => GoesOnTo(s)'
               /\ Done(i)' => Done(s)' \/ Infra(s) \in Range(walk') \/ GoesOnTo(s)'
    <3>1. /\ Infra(i) \in Range(walk) => GoesOnTo(s)
          /\ Done(i) => Done(s) \/ Infra(s) \in Range(walk) \/ GoesOnTo(s)
      BY <2>4 DEF Inv, ClassWalk
    <3> QED BY <1>2, <2>1, <3>1
  <2>5. \A i \in Infras : super[i] # None => super[i] \in Infras
    BY DEF Inv, Types
  <2> QED BY <1>1, <2>2, <2>3, <2>4, <2>5 DEF ClassWalk, Done, GoesOnTo
<1>8. Ending'
  BY <1>1 DEF Ending
<1> QED BY <1>2, <1>4, <1>5, <1>6, <1>7, <1>8 DEF Inv

\* The steps that write no file keep what is known about the files.
LEMMA FilesStay ==
  ASSUME UNCHANGED <<runtime, files, failed>>
  PROVE  /\ FilesRight => FilesRight'
         /\ Page' = Page
         /\ \A i : Done(i)' <=> Done(i)
         /\ IndexDone' <=> IndexDone
<1>1. IndexPage' = IndexPage /\ Style' = Style /\ \A i : ClassPage(i)' = ClassPage(i)
  BY DEF runtime, IndexPage, Style, ClassPage, CssLink, SuperLink, MixinLinks
<1> QED BY <1>1 DEF FilesRight, Page, Done, IndexDone

LEMMA WalkPairInv == Inv /\ WalkPair => Inv'
<1> SUFFICES ASSUME Inv, WalkPair PROVE Inv'
  OBVIOUS
<1>1. PICK i \in pairs : walk' = PairWalk(i) /\ pairs' = pairs \ {i}
  BY DEF WalkPair
<1>2. /\ UNCHANGED <<runtime, known, cls, files, failed, pc>> /\ pc = "walking" /\ walk = <<>>
      /\ i \in Infras
  BY <1>1 DEF WalkPair, Inv, Types, TypeOK
<1>3. super' = super /\ mixins' = mixins /\ job' = job /\ cssUrl' = cssUrl
  BY <1>2 DEF runtime
<1>4. walk' \in Seq(Pointer) /\ Infra(i) \in Range(walk')
  BY <1>1, <1>2, WalkOfPair
<1>5. Range(walk) = {}
  BY <1>2 DEF Range
<1>6. /\ FilesRight' /\ Page' = Page /\ (IndexDone' <=> IndexDone)
      /\ \A j : Done(j)' <=> Done(j)
  BY <1>2, FilesStay DEF Inv
<1>7. Types'
  BY <1>1, <1>2, <1>3, <1>4, <1>6 DEF Inv, Types, TypeOK, Pointer
<1>8. job.dump = "universe"
  BY <1>1 DEF Inv, UniverseWalk
<1>9. UniverseWalk'
  BY <1>1, <1>2, <1>3, <1>4, <1>5, <1>6, <1>8 DEF Inv, UniverseWalk
<1>10. KnownDone' /\ ClassWalk' /\ Ending'
  BY <1>2, <1>3, <1>6, <1>8 DEF Inv, KnownDone, ClassWalk, Ending
<1> QED BY <1>6, <1>7, <1>9, <1>10 DEF Inv

LEMMA WalkClassInv == Inv /\ WalkClass => Inv'
<1> SUFFICES ASSUME Inv, WalkClass PROVE Inv'
  OBVIOUS
<1>1. /\ UNCHANGED <<runtime, pairs, files, failed, pc>> /\ pc = "walking" /\ walk = <<>>
      /\ cls \in Class /\ cls # None /\ cls[1] \in Infras
      /\ known' = <<>> /\ walk' = PairWalk(cls[1])
      /\ cls' = IF job.dump = "class" THEN Superclass(cls) ELSE None
  BY DEF WalkClass, WalkOne, Inv, Types, TypeOK, Class
<1>2. super' = super /\ mixins' = mixins /\ job' = job /\ cssUrl' = cssUrl
  BY <1>1 DEF runtime
<1>3. walk' \in Seq(Pointer) /\ Range(walk') = {<<cls[1], "pair">>, Infra(cls[1]), Meta(cls[1])}
  BY <1>1, WalkOfPair
<1>4. Range(walk) = {} /\ Range(known') = {} /\ known' \in Seq(Pointer)
  BY <1>1 DEF Range
<1>5. /\ FilesRight' /\ Page' = Page /\ (IndexDone' <=> IndexDone)
      /\ \A j : Done(j)' <=> Done(j)
  BY <1>1, FilesStay DEF Inv
<1>6. cls' \in Class \union {None}
  BY <1>1, SuperclassType DEF Inv, Types
<1>7. Types'
  BY <1>1, <1>2, <1>3, <1>4, <1>5, <1>6 DEF Inv, Types, TypeOK, Pointer
<1>8. job.dump # "universe"
  BY <1>1 DEF Inv, UniverseWalk
<1>9. \A i \in Infras : Infra(i) \in Range(walk') <=> i = cls[1]
  BY <1>3 DEF Infra, Meta
<1>10. ClassWalk'
  <2>1. Done(job.start[1])' \/ Infra(job.start[1]) \in Range(walk')
    <3>1. Done(job.start[1]) \/ job.start[1] = cls[1]
      BY <1>4, <1>8 DEF Inv, ClassWalk, GoesOnTo
    <3>2. Done(job.start[1]) => Done(job.start[1])'
      BY <1>1, <1>2 DEF Done
    <3>3. job.start[1] = cls[1] => Infra(job.start[1]) \in Range(walk')
      BY <1>3
    <3> QED BY <3>1, <3>2, <3>3
  <2>2. ASSUME job.dump = "class", NEW i \in Infras, super[i] # None
        PROVE  /\ Infra(i) \in Range(walk') => GoesOnTo(super[i])'
               /\ Done(i)' => Done(super[i])' \/ Infra(super[i]) \in Range(walk')
    <3>1. super[i] \in Infras
      BY <2>2 DEF Inv, Types
    <3>2. ASSUME i = cls[1] PROVE cls' # None /\ cls'[1] = super[i]
      <4>1. cls' = <<super[i], cls[2]>>
        BY <1>1, <2>2, <3>2 DEF Superclass
      <4>2. cls' \in Class
        BY <1>1, <3>1, <4>1 DEF Class
      <4> QED BY <4>1, <4>2, HtmlDumpAssumption
    <3>3. Done(i) => Done(super[i]) \/ cls[1] = super[i]
      BY <1>4, <2>2 DEF Inv, ClassWalk, GoesOnTo
    <3> QED BY <1>2, <1>5, <1>9, <3>1, <3>2, <3>3 DEF GoesOnTo
  <2> QED BY <1>2, <1>8, <2>1, <2>2 DEF ClassWalk
<1>11. KnownDone'
  BY <1>4 DEF KnownDone
<1>12. UniverseWalk' /\ Ending'
  BY <1>1, <1>2, <1>8 DEF Inv, UniverseWalk, Ending
<1> QED BY <1>5, <1>7, <1>10, <1>11, <1>12 DEF Inv

\* The steps after the last callback: the walk is over, at most the stylesheet is written.
LEMMA EndInv ==
  Inv /\ (EndWalk \/ SkipCss \/ WriteCss \/ CssFopenFails \/ UNCHANGED vars) => Inv'
<1> SUFFICES ASSUME Inv, EndWalk \/ SkipCss \/ WriteCss \/ CssFopenFails \/ UNCHANGED vars
             PROVE  Inv'
  OBVIOUS
<1>1. UNCHANGED <<runtime, known, cls, pairs, walk, failed>>
  BY DEF EndWalk, SkipCss, WriteCss, CssFopenFails, css, vars
<1>2. super' = super /\ mixins' = mixins /\ job' = job /\ cssUrl' = cssUrl
  BY <1>1 DEF runtime
<1>3. DOMAIN files \subseteq DOMAIN files' /\ DOMAIN files' \subseteq DOMAIN files \union {CssName}
  BY DEF EndWalk, SkipCss, WriteCss, CssFopenFails, css, Write, vars
<1>4. IndexPage' = IndexPage /\ Style' = Style /\ \A i : ClassPage(i)' = ClassPage(i)
  BY <1>1 DEF runtime, IndexPage, Style, ClassPage, CssLink, SuperLink, MixinLinks
<1>5. FilesRight'
  <2>1. CASE Write(CssName, Style)
    BY <1>4, <2>1 DEF Inv, FilesRight, Write
  <2>2. CASE files' = files
    BY <1>4, <2>2 DEF Inv, FilesRight
  <2> QED BY <2>1, <2>2 DEF EndWalk, SkipCss, WriteCss, CssFopenFails, css, vars
<1>6. /\ IndexDone' <=> IndexDone
      /\ \A i \in Infras : Done(i)' <=> Done(i)
  BY <1>1, <1>3, NamesApart DEF Done, IndexDone, IndexName, CssName
<1>7. Types'
  <2>1. \A f \in DOMAIN files' : files'[f] \in Page'
    BY <1>5 DEF FilesRight, Page
  <2>2. pc' \in {"walking", "css", "done", "crashed"}
    BY DEF Inv, Types, TypeOK, EndWalk, SkipCss, WriteCss, CssFopenFails, css, vars
  <2> QED BY <1>1, <1>2, <2>1, <2>2 DEF Inv, Types, TypeOK
<1>8. KnownDone' /\ UniverseWalk'
  BY <1>1, <1>2, <1>6 DEF Inv, KnownDone, UniverseWalk
<1>9. ClassWalk'
  <2>1. job.dump # "universe" => job.start[1] \in Infras
    BY DEF Inv, Types, Jobs, Class
  <2>2. \A i \in Infras : super[i] # None => super[i] \in Infras
    BY DEF Inv, Types
  <2> QED BY <1>1, <1>2, <1>6, <2>1, <2>2 DEF Inv, ClassWalk, GoesOnTo
<1>10. Ending'
  <2>1. CASE EndWalk
    BY <1>1, <1>2, <2>1 DEF EndWalk, Ending
  <2>2. CASE SkipCss \/ CssFopenFails
    BY <1>1, <1>2, <2>2 DEF Inv, SkipCss, CssFopenFails, css, Ending
  <2>3. CASE WriteCss
    <3>1. CssName \in DOMAIN files'
      BY <2>3 DEF WriteCss, Write
    <3> QED BY <1>1, <1>2, <2>3, <3>1 DEF Inv, WriteCss, css, Ending
  <2>4. CASE UNCHANGED vars
    BY <1>2, <2>4 DEF Inv, vars, Ending
  <2> QED BY <2>1, <2>2, <2>3, <2>4
<1> QED BY <1>5, <1>7, <1>8, <1>9, <1>10 DEF Inv

LEMMA Invariance ==
  ASSUME MemberExact, NamesDiffer
  PROVE  Spec => []Inv
<1>1. Inv /\ [Next]_vars => Inv'
  BY CallbackInv, WalkPairInv, WalkClassInv, EndInv DEF Next
<1> QED BY <1>1, InitInv, PTL DEF Spec

-------------------------------------------------------------------------------
(***************************************************************************)
(* A page links to a stylesheet in the directory only if no URL of one is  *)
(* set, and then a dump that is done has written it.                       *)
(***************************************************************************)
LEMMA LinksOfPages ==
  ASSUME Inv, pc = "done", job.dump # "classpair", NEW f \in DOMAIN files
  PROVE  CssName \in files[f].links => CssName \in DOMAIN files
<1>1. CASE cssUrl
  <2>1. CssName \notin files[f].links
    <3>1. CssLink = {}
      BY <1>1 DEF CssLink
    <3>2. \A i \in Infras : CssName \notin SuperLink(i) /\ CssName \notin MixinLinks(i)
      BY DEF SuperLink, MixinLinks, PageName, CssName
    <3>3. CssName \notin IndexPage.links /\ CssName \notin Style.links
      BY <3>1 DEF IndexPage, Style, PageName, CssName
    <3>4. \A i \in Infras : CssName \notin ClassPage(i).links
      BY <3>1, <3>2 DEF ClassPage, IndexName, CssName
    <3> QED BY <3>3, <3>4 DEF Inv, FilesRight
  <2> QED BY <2>1
<1>2. CASE ~ cssUrl
  BY <1>2 DEF Inv, Ending
<1> QED BY <1>1, <1>2

(***************************************************************************)
(* When a dump is done, the links of its pages lead to files, or to the    *)
(* names of files that could not be opened.                                *)
(***************************************************************************)
THEOREM HtmlLinksLand ==
  ASSUME MemberExact, NamesDiffer
  PROVE  Spec => []LinksLand
<1>1. Inv => LinksLand
  <2> SUFFICES ASSUME Inv, pc = "done" PROVE LinksLand
    BY DEF LinksLand
  <2>1. Range(walk) = {} /\ pairs = {} /\ cls = None
    BY DEF Inv, Ending, Range
  <2>2. job.dump # "classpair" => Styled
    BY LinksOfPages DEF Styled
  <2>3. CASE job.dump = "universe"
    <3>1. \A i \in Infras : Done(i)
      BY <2>1, <2>3 DEF Inv, UniverseWalk
    <3>2. IndexDone
      BY <2>1, <2>3 DEF Inv, UniverseWalk
    <3>3. There(CssLink)
      BY <2>3 DEF There, CssLink, Inv, Ending
    <3>4. \A i \in Infras : There(SuperLink(i)) /\ There(MixinLinks(i))
      <4> TAKE i \in Infras
      <4>1. super[i] \in Infras \union {None} /\ Range(mixins[i]) \subseteq Infras
        <5>1. mixins[i] \in MixinLists
          BY DEF Inv, Types
        <5>2. Range(mixins[i]) \subseteq MixinClasses
          BY <5>1 DEF MixinLists, Range
        <5> QED BY <5>2, HtmlDumpAssumption DEF Inv, Types
      <4> QED BY <3>1, <4>1 DEF There, SuperLink, MixinLinks, Done
    <3>5. There(IndexPage.links) /\ There(Style.links)
      BY <3>1, <3>3 DEF IndexPage, Style, There, Done
    <3>6. \A i \in Infras : There(ClassPage(i).links)
      BY <3>2, <3>3, <3>4 DEF ClassPage, There, IndexDone
    <3>7. UniverseLinksLand
      BY <3>5, <3>6 DEF UniverseLinksLand, Inv, FilesRight
    <3> QED BY <2>2, <2>3, <3>7 DEF LinksLand
  <2>4. ASSUME job.dump # "universe" PROVE StartsThere
    BY <2>1, <2>4 DEF StartsThere, There, Inv, ClassWalk, GoesOnTo, Done
  <2>5. CASE job.dump = "class"
    <3>1. ASSUME NEW i \in Infras, PageName(i) \in DOMAIN files PROVE There(SuperLink(i))
      <4>1. CASE super[i] = None
        BY <4>1 DEF There, SuperLink
      <4>2. CASE super[i] # None
        <5>1. Done(super[i])
          BY <2>1, <2>5, <3>1, <4>2 DEF Inv, ClassWalk, GoesOnTo, Done
        <5> QED BY <4>2, <5>1 DEF There, SuperLink, Done
      <4> QED BY <4>1, <4>2
    <3> QED BY <2>2, <2>4, <2>5, <3>1 DEF LinksLand, SuperLinksLand
  <2>6. CASE job.dump = "classpair"
    <3>1. cssUrl => Styled
      <4> SUFFICES ASSUME cssUrl, NEW f \in DOMAIN files PROVE CssName \notin files[f].links
        BY DEF Styled
      <4>1. CssLink = {}
        BY DEF CssLink
      <4>2. CssName \notin IndexPage.links /\ CssName \notin Style.links
        BY <4>1 DEF IndexPage, Style, PageName, CssName
      <4>3. \A i \in Infras : CssName \notin ClassPage(i).links
        BY <4>1 DEF ClassPage, SuperLink, MixinLinks, IndexName, PageName, CssName
      <4> QED BY <4>2, <4>3 DEF Inv, FilesRight
    <3> QED BY <2>4, <2>6, <3>1 DEF LinksLand
  <2>7. job.dump \in {"universe", "class", "classpair"}
    BY DEF Inv, Types, Jobs
  <2> QED BY <2>3, <2>5, <2>6, <2>7
<1> QED BY <1>1, Invariance, PTL

(***************************************************************************)
(* After a universe dump only the files that could not be opened are       *)
(* missing, and every other one shows what it is named for.                *)
(***************************************************************************)
THEOREM UniverseComplete ==
  ASSUME MemberExact, NamesDiffer
  PROVE  Spec => []OnlyFailedMissing
<1>1. Inv => OnlyFailedMissing
  <2> SUFFICES ASSUME Inv, pc = "done", job.dump = "universe"
               PROVE  /\ IndexName \in failed \/ Shows(IndexName, Universe)
                      /\ \A i \in Infras : PageName(i) \in failed \/ Shows(PageName(i), Infra(i))
    BY DEF OnlyFailedMissing
  <2>1. IndexDone /\ \A i \in Infras : Done(i)
    BY DEF Inv, UniverseWalk, Ending, Range
  <2>2. ASSUME IndexName \in DOMAIN files PROVE files[IndexName] = IndexPage
    BY <2>2 DEF Inv, FilesRight, NamesDiffer, IndexName, CssName
  <2>3. ASSUME NEW i \in Infras, PageName(i) \in DOMAIN files
        PROVE  files[PageName(i)] = ClassPage(i)
    BY <2>3, NamesApart DEF Inv, FilesRight, NamesDiffer
  <2> QED BY <2>1, <2>2, <2>3 DEF IndexDone, Done, Shows, IndexPage, ClassPage
<1> QED BY <1>1, Invariance, PTL

(***************************************************************************)
(* No page is overwritten with another one: each name is written with its  *)
(* own page only.                                                          *)
(***************************************************************************)
THEOREM PagesStay ==
  ASSUME MemberExact, NamesDiffer
  PROVE  Spec => NoPageReplaced
<1>1. Inv /\ Inv' /\ [Next]_vars =>
        [\A f \in DOMAIN files : f \in DOMAIN files' /\ files'[f] = files[f]]_vars
  <2> SUFFICES ASSUME Inv, Inv', Next, NEW f \in DOMAIN files
               PROVE  f \in DOMAIN files' /\ files'[f] = files[f]
    OBVIOUS
  <2>1. UNCHANGED runtime /\ DOMAIN files \subseteq DOMAIN files'
    <3>1. CASE VisitUniverse \/ VisitInfra \/ VisitOther
      BY <3>1, CallbackStep DEF VisitUniverse, VisitInfra, VisitOther, Callback
    <3> QED BY <3>1 DEF Next, WalkPair, WalkClass, WalkOne, EndWalk, SkipCss, WriteCss,
                        CssFopenFails, css, Write
  <2>2. IndexPage' = IndexPage /\ Style' = Style /\ \A i : ClassPage(i)' = ClassPage(i)
    BY <2>1 DEF runtime, IndexPage, Style, ClassPage, CssLink, SuperLink, MixinLinks
  <2>3. \/ f = IndexName /\ files'[f] = IndexPage
        \/ f = CssName /\ files'[f] = Style
        \/ \E i \in Infras : f = PageName(i) /\ files'[f] = ClassPage(i)
    BY <2>1, <2>2 DEF Inv, FilesRight
  <2> QED BY <2>1, <2>3, NamesApart DEF Inv, FilesRight, NamesDiffer, IndexName, CssName
<1> QED BY <1>1, Invariance, PTL DEF Spec, NoPageReplaced

(***************************************************************************)
(* The state of the HTML dump stays in its types, for every class graph:   *)
(* no page but those of the index, the stylesheet and the classes.         *)
(***************************************************************************)
THEOREM HtmlTypes ==
  ASSUME MemberExact, NamesDiffer
  PROVE  Spec => []TypeOK
<1>1. Inv => TypeOK
  BY DEF Inv, Types
<1> QED BY <1>1, Invariance, PTL

-------------------------------------------------------------------------------
(***************************************************************************)
(* The dumps end: there is less left to do after every step.  It is the    *)
(* loop over the superclasses that needs the class graph: a class is not   *)
(* among those above its superclass.                                       *)
(***************************************************************************)
LEMMA SuperclassUpwards ==
  ASSUME super \in [Infras -> Infras \union {None}], Loadable(super),
         NEW i \in Infras, super[i] # None
  PROVE  /\ Upwards(super[i]) \subseteq Upwards(i)
         /\ i \in Upwards(i) /\ i \notin Upwards(super[i])
<1> DEFINE Closed(C) == \A k \in C : super[k] # None => super[k] \in C
           Below == {d \in Infras : i \in Upwards(d)}
<1>1. \A d, j \in Infras : j \in Upwards(d)
        <=> \A C \in SUBSET Infras : d \in C /\ Closed(C) => j \in C
  BY DEF Upwards
<1> HIDE DEF Closed
<1>2. i \in Upwards(i)
  BY <1>1
<1>3. PICK s \in Infras : s = super[i]
  OBVIOUS
<1>4. Upwards(s) \subseteq Upwards(i)
  <2>1. \A C \in SUBSET Infras : i \in C /\ Closed(C) => s \in C
    BY <1>3 DEF Closed
  <2>2. \A j \in Upwards(s) : j \in Infras
    BY DEF Upwards
  <2> QED
    BY <1>1, <2>1, <2>2
<1>5. ASSUME i \in Upwards(s) PROVE FALSE
  <2>1. ASSUME NEW d \in Below PROVE super[d] \in Below
    <3>1. d \in Infras /\ i \in Upwards(d)
      OBVIOUS
    <3>2. CASE d = i
      BY <1>3, <1>5, <3>2
    <3>3. CASE d # i
      <4>1. super[d] # None
        <5> SUFFICES ASSUME super[d] = None PROVE FALSE
          OBVIOUS
        <5>1. {d} \in SUBSET Infras /\ Closed({d})
          BY <3>1 DEF Closed
        <5> QED
          BY <1>1, <3>1, <3>3, <5>1
      <4>2. PICK e \in Infras : e = super[d]
        BY <3>1, <4>1
      <4>3. ASSUME NEW C \in SUBSET Infras, e \in C, Closed(C) PROVE i \in C
        <5>1. C \union {d} \in SUBSET Infras /\ Closed(C \union {d})
          BY <3>1, <4>2, <4>3 DEF Closed
        <5>2. i \in C \union {d}
          BY <1>1, <3>1, <5>1
        <5> QED
          BY <3>3, <5>2
      <4> QED
        BY <1>1, <4>2, <4>3
    <3> QED
      BY <3>2, <3>3
  <2>2. Below \in SUBSET Infras /\ Below # {}
    BY <1>2
  <2> HIDE DEF Below
  <2> QED
    BY <2>1, <2>2 DEF Loadable
<1> QED
  BY <1>2, <1>3, <1>4, <1>5

(***************************************************************************)
(* The classes the loop has before it when it is at c.                     *)
(***************************************************************************)
Ahead(c) ==
  CASE c = None -> 0
    [] c # None /\ job.dump # "class" -> 1
    [] OTHER -> Cardinality(Upwards(c[1])) + (IF c[2] = "meta" THEN 1 ELSE 0)

LEMMA AheadType ==
  ASSUME IsFiniteSet(Infras), NEW c \in Class \union {None}
  PROVE  Ahead(c) \in Nat
<1>1. ASSUME NEW i PROVE Cardinality(Upwards(i)) \in Nat
  <2>1. Upwards(i) \subseteq Infras
    BY DEF Upwards
  <2> QED
    BY <2>1, FS_Subset, FS_CardinalityType
<1> QED
  BY <1>1 DEF Ahead

LEMMA SuperclassAhead ==
  ASSUME IsFiniteSet(Infras), super \in [Infras -> Infras \union {None}], Loadable(super),
         NEW c \in Class, NEW d, d = IF job.dump = "class" THEN Superclass(c) ELSE None
  PROVE  d \in Class \union {None} /\ Ahead(d) < Ahead(c)
<1>1. c # None /\ c[1] \in Infras /\ c[2] \in {"infra", "meta"}
  BY HtmlDumpAssumption DEF Class
<1>2. CASE job.dump # "class"
  BY <1>1, <1>2 DEF Ahead
<1>3. CASE job.dump = "class"
  <2>1. PICK i \in Infras : i = c[1]
    BY <1>1
  <2>2. Ahead(c) = Cardinality(Upwards(i)) + (IF c[2] = "meta" THEN 1 ELSE 0)
    BY <1>1, <1>3, <2>1 DEF Ahead
  <2>3. Upwards(i) \subseteq Infras /\ IsFiniteSet(Upwards(i)) /\ Cardinality(Upwards(i)) \in Nat
    <3>1. Upwards(i) \subseteq Infras
      BY DEF Upwards
    <3> QED
      BY <3>1, FS_Subset, FS_CardinalityType
  <2>4. CASE super[i] # None
    <3>1. d = <<super[i], c[2]>> /\ d \in Class /\ d # None
      BY <1>1, <1>3, <2>1, <2>4, HtmlDumpAssumption DEF Superclass, Class
    <3>2. PICK s \in Infras : s = super[i]
      BY <2>4
    <3>3. Upwards(s) \subseteq Upwards(i) /\ Upwards(s) # Upwards(i)
      BY <2>4, <3>2, SuperclassUpwards
    <3>4. /\ Cardinality(Upwards(s)) <= Cardinality(Upwards(i))
          /\ Cardinality(Upwards(s)) # Cardinality(Upwards(i))
          /\ IsFiniteSet(Upwards(s))
      BY <2>3, <3>3, FS_Subset
    <3>5. Cardinality(Upwards(s)) \in Nat
      BY <3>4, FS_CardinalityType
    <3>6. Ahead(d) = Cardinality(Upwards(s)) + (IF c[2] = "meta" THEN 1 ELSE 0)
      BY <1>3, <3>1, <3>2 DEF Ahead
    <3> QED
      BY <2>2, <2>3, <3>1, <3>4, <3>5, <3>6
  <2>5. CASE super[i] = None /\ c[2] = "meta"
    <3>1. d = <<i, "infra">> /\ d \in Class /\ d # None
      BY <1>3, <2>1, <2>5, HtmlDumpAssumption DEF Superclass, Class, Infra
    <3>2. Ahead(d) = Cardinality(Upwards(i))
      BY <1>3, <2>3, <3>1 DEF Ahead
    <3> QED
      BY <2>2, <2>3, <2>5, <3>1, <3>2
  <2>6. CASE super[i] = None /\ c[2] # "meta"
    <3>1. d = None
      BY <1>3, <2>1, <2>6 DEF Superclass
    <3>2. Ahead(d) = 0
      BY <3>1 DEF Ahead
    <3>3. i \in Upwards(i)
      BY DEF Upwards
    <3>4. Cardinality(Upwards(i)) # 0
      BY <2>3, <3>3, FS_EmptySet
    <3> QED
      BY <2>2, <2>3, <3>1, <3>2, <3>4
  <2> QED
    BY <2>4, <2>5, <2>6
<1> QED
  BY <1>2, <1>3

(***************************************************************************)
(* A step takes at least one from what is left.  That takes no more than   *)
(* the class graph and the walk being what they are: it does not matter    *)
(* what the set answers, nor whether the names of the pages differ.        *)
(***************************************************************************)
Walkable == /\ super \in [Infras -> Infras \union {None}] /\ Loadable(super)
            /\ cls \in Class \union {None}
            /\ pairs \in SUBSET Infras
            /\ walk \in Seq(Pointer)

LEMMA InitWalkable == Init => Walkable
<1> SUFFICES ASSUME Init PROVE Walkable
  OBVIOUS
<1>1. job.start \in Class \union {None}
  BY DEF Init, Jobs
<1>2. Universe \in Pointer
  BY DEF Pointer
<1>3. <<>> \in Seq(Pointer) /\ <<Universe>> \in Seq(Pointer)
  BY <1>2
<1> QED
  BY <1>1, <1>3 DEF Init, InitRuntime, Walkable

LEMMA StepShrinks ==
  ASSUME IsFiniteSet(Infras), Walkable, Next
  PROVE  StepsLeft' \in 0 .. StepsLeft - 1 /\ Walkable'
<1>1. super' = super /\ job' = job
  BY DEF Next, WalkPair, WalkClass, WalkOne, EndWalk, VisitUniverse, VisitInfra, VisitOther,
         Callback, SkipCss, WriteCss, CssFopenFails, css, runtime
<1>2. /\ cls \in Class \union {None} /\ walk \in Seq(Pointer) /\ pairs \in SUBSET Infras
      /\ super \in [Infras -> Infras \union {None}]
  BY DEF Walkable
<1>3. IsFiniteSet(pairs) /\ Cardinality(pairs) \in Nat /\ Len(walk) \in Nat
  BY <1>2, FS_Subset, FS_CardinalityType
<1>4. PICK a, b : a = cls /\ b = cls'
  OBVIOUS
<1>5. ClassesLeft = Ahead(a) /\ ClassesLeft' = Ahead(b)
  <2>1. ClassesLeft = Ahead(a)
    BY <1>4 DEF ClassesLeft, Ahead
  <2>2. ClassesLeft' = Ahead(b)
    BY <1>1, <1>4 DEF ClassesLeft, Ahead, Upwards
  <2> QED
    BY <2>1, <2>2
<1>6. Ahead(a) \in Nat
  BY <1>2, <1>4, AheadType
<1>7. CASE WalkPair
  <2>1. PICK i \in pairs : walk' = PairWalk(i) /\ pairs' = pairs \ {i}
    BY <1>7 DEF WalkPair
  <2>2. Cardinality(pairs') = Cardinality(pairs) - 1
    BY <1>3, <2>1, FS_RemoveElement
  <2>3. Len(walk') = 3 /\ Len(walk) = 0 /\ b = a /\ pc = "walking" /\ pc' = "walking"
    BY <1>4, <1>7, <2>1 DEF WalkPair, PairWalk
  <2>4. i \in Infras /\ walk' \in Seq(Pointer)
    BY <1>2, <2>1, WalkOfPair
  <2>5. Walkable'
    BY <1>1, <1>2, <1>4, <2>1, <2>3, <2>4 DEF Walkable
  <2> QED
    BY <1>1, <1>3, <1>5, <1>6, <2>2, <2>3, <2>5 DEF StepsLeft, StepsOfCaller
<1>8. CASE WalkClass
  <2>1. /\ pairs' = pairs /\ walk' = PairWalk(cls[1]) /\ walk = <<>>
        /\ pc = "walking" /\ pc' = "walking" /\ a \in Class
        /\ b = IF job.dump = "class" THEN Superclass(a) ELSE None
    BY <1>2, <1>4, <1>8 DEF WalkClass, WalkOne
  <2>2. Ahead(b) < Ahead(a) /\ Ahead(b) \in Nat
    BY <1>2, <2>1, SuperclassAhead, AheadType DEF Walkable
  <2>3. Len(walk') = 3 /\ Len(walk) = 0
    BY <2>1 DEF PairWalk
  <2>4. walk' \in Seq(Pointer)
    <3>1. a[1] \in Infras
      BY <2>1 DEF Class
    <3> QED
      BY <1>4, <2>1, <3>1, WalkOfPair
  <2>5. b \in Class \union {None}
    BY <1>2, <2>1, SuperclassAhead DEF Walkable
  <2>6. Walkable'
    BY <1>1, <1>2, <1>4, <2>1, <2>4, <2>5 DEF Walkable
  <2> QED
    BY <1>1, <1>3, <1>5, <1>6, <2>1, <2>2, <2>3, <2>6 DEF StepsLeft, StepsOfCaller
<1>9. CASE VisitUniverse \/ VisitInfra \/ VisitOther
  <2>1. /\ walk # <<>> /\ walk' = Tail(walk) /\ pairs' = pairs /\ b = a
        /\ pc' = pc /\ pc = "walking"
    BY <1>4, <1>9 DEF VisitUniverse, VisitInfra, VisitOther, Callback
  <2>2. Len(walk') = Len(walk) - 1
    BY <1>2, <2>1
  <2>3. Walkable'
    <3>1. walk' \in Seq(Pointer)
      BY <1>2, <2>1
    <3> QED
      BY <1>1, <1>2, <1>4, <2>1, <3>1 DEF Walkable
  <2> QED
    BY <1>1, <1>3, <1>5, <1>6, <2>1, <2>2, <2>3 DEF StepsLeft, StepsOfCaller
<1>10. CASE EndWalk \/ SkipCss \/ WriteCss \/ CssFopenFails
  <2>1. /\ walk' = walk /\ pairs' = pairs /\ b = a
        /\ \/ pc = "walking" /\ pc' \in {"css", "done"}
           \/ pc = "css" /\ pc' \in {"done", "crashed"}
    BY <1>4, <1>10 DEF EndWalk, SkipCss, WriteCss, CssFopenFails, css
  <2>2. StepsOfCaller' < StepsOfCaller /\ StepsOfCaller \in Nat /\ StepsOfCaller' \in Nat
    BY <2>1 DEF StepsOfCaller
  <2>3. Walkable'
    BY <1>1, <1>2, <1>4, <2>1 DEF Walkable
  <2> QED
    BY <1>1, <1>3, <1>5, <1>6, <2>1, <2>2, <2>3 DEF StepsLeft
<1> QED
  BY <1>7, <1>8, <1>9, <1>10 DEF Next

(***************************************************************************)
(* A dump of any universe, any class or any pair has less left to do with  *)
(* every step it takes, and so takes only finitely many: whichever files   *)
(* cannot be opened, whatever the set answers and the classes are called.  *)
(***************************************************************************)
THEOREM HtmlDumpEnds ==
  ASSUME IsFiniteSet(Infras)
  PROVE  Spec => WorkShrinks
<1>1. Walkable /\ [Next]_vars => Walkable' /\ [StepsLeft' \in 0 .. StepsLeft - 1]_vars
  <2>1. Walkable /\ UNCHANGED vars => Walkable'
    BY DEF vars, runtime, Walkable
  <2> QED
    BY <2>1, StepShrinks
<1> QED
  BY <1>1, InitWalkable, PTL DEF Spec, WorkShrinks
===============================================================================
