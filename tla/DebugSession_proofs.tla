-------------------------- MODULE DebugSession_proofs --------------------------
(***************************************************************************)
(* The debugger's lookups of implementations leave errno and the caches as *)
(* they found them; the links between the files of a universe dump land.   *)
(***************************************************************************)
EXTENDS DebugSession, TLAPS

\* What is remembered of a stop tells the three cases apart.
LEMMA StopKinds ==
  /\ Off.is = "off" /\ Touched.is = "touched"
  /\ \A e, c : /\ Found(e, c).is = "untouched"
               /\ Found(e, c).errno = e /\ Found(e, c).filled = c
BY DEF Off, Touched, Found

\* A lookup of an implementation puts errno back, whatever the runtime sets it to.
LEMMA ImplementationsPreserve ==
  ASSUME Gdb!Implementations
  PROVE  errno' = errno /\ filled' = filled
<1>1. PICK obj \in loaded \union {None}, class \in loaded, methodid \in MethodIds, calltype \in 0 .. 2 :
        Gdb!LookupImplementation(obj, methodid, class, <<class, methodid>>, calltype)
  BY DEF Gdb!Implementations
<1>2. \E e \in Errnos : errno' = IF obj = None THEN errno ELSE Gdb!Preserved(e, errno)
  BY <1>1 DEF Gdb!LookupImplementation
<1>3. filled' = filled
  BY <1>1 DEF Gdb!LookupImplementation
<1> QED BY <1>2, <1>3 DEF Gdb!Preserved

(***************************************************************************)
(* For every runtime, every set of errno values and any number of stops,   *)
(* dumps and calls: a stop in which only implementations were looked up    *)
(* leaves no trace (the errno restored in mulle-objc-gdb.c, the "nofill"   *)
(* lookups).                                                               *)
(***************************************************************************)
THEOREM NoTrace == Spec => []LookupsLeaveNoTrace
<1>1. Init => LookupsLeaveNoTrace
  BY StopKinds DEF Init, LookupsLeaveNoTrace
<1>2. LookupsLeaveNoTrace /\ [Next]_vars => LookupsLeaveNoTrace'
  <2> SUFFICES ASSUME LookupsLeaveNoTrace, [Next]_vars PROVE LookupsLeaveNoTrace'
    OBVIOUS
  <2>1. CASE Call
    <3>1. stop' = stop /\ stop.is = "off"
      BY <2>1 DEF Call, Running, session
    <3> QED BY <3>1 DEF LookupsLeaveNoTrace
  <2>2. CASE Stop
    <3>1. stop' = Found(errno, filled) /\ errno' = errno /\ filled' = filled
      BY <2>2 DEF Stop
    <3> QED BY <3>1, StopKinds DEF LookupsLeaveNoTrace
  <2>3. CASE Resume
    BY <2>3, StopKinds DEF Resume, LookupsLeaveNoTrace
  <2>4. CASE Dump
    <3>1. stop' = Off \/ stop' = Touched
      BY <2>4 DEF Dump
    <3> QED BY <3>1, StopKinds DEF LookupsLeaveNoTrace
  <2>5. CASE AskForImplementation
    <3>1. stop' = stop /\ errno' = errno /\ filled' = filled
      BY <2>5, ImplementationsPreserve DEF AskForImplementation
    <3> QED BY <3>1 DEF LookupsLeaveNoTrace
  <2>6. CASE AskForName
    BY <2>6, StopKinds DEF AskForName, LookupsLeaveNoTrace
  <2>7. CASE UNCHANGED vars
    BY <2>7 DEF vars, session, LookupsLeaveNoTrace
  <2> QED BY <2>1, <2>2, <2>3, <2>4, <2>5, <2>6, <2>7 DEF Next
<1> QED BY <1>1, <1>2, PTL DEF Spec
-------------------------------------------------------------------------------
(***************************************************************************)
(* What is above a class, and the classes that are searched for it, are    *)
(* given by recursive functions.  That there are such functions is shown   *)
(* without an induction: the least set that contains a class and the       *)
(* superclasses of its members is one.                                     *)
(***************************************************************************)
Upward(S) == \A e \in S : Super[e] = None \/ Super[e] \in S
Reach(d)  == {x \in Classes : \A S \in SUBSET Classes : d \in S /\ Upward(S) => x \in S}

\* The least set consists of the class, and of the least set of its superclass.
LEMMA ReachUnfolds ==
  ASSUME NEW d \in Classes
  PROVE  Reach(d) = {d} \union (IF Super[d] = None THEN {} ELSE Reach(Super[d]))
<1>1. Super \in [Classes -> Classes \union {None}]
  BY DebugSessionAssumption DEF Files!ConstantsOK
<1> DEFINE T == {d} \union (IF Super[d] = None THEN {} ELSE Reach(Super[d]))
<1>2. T \subseteq Reach(d)
  <2> SUFFICES ASSUME NEW x \in T, NEW S \in SUBSET Classes, d \in S, Upward(S)
               PROVE  x \in Classes /\ x \in S
    BY DEF Reach
  <2>1. CASE x = d
    BY <2>1
  <2>2. CASE Super[d] # None /\ x \in Reach(Super[d])
    BY <2>2 DEF Reach, Upward
  <2> QED BY <2>1, <2>2
<1>3. T \subseteq Classes /\ d \in T
  BY DEF Reach
<1>4. Upward(T)
  <2> SUFFICES ASSUME NEW e \in T, Super[e] # None PROVE Super[e] \in T
    BY DEF Upward
  <2>1. CASE e = d
    <3>1. Super[d] \in Reach(Super[d])
      BY <1>1, <2>1 DEF Reach
    <3> QED BY <3>1, <2>1
  <2>2. CASE Super[d] # None /\ e \in Reach(Super[d])
    <3>1. Super[e] \in Reach(Super[d])
      BY <1>1, <2>2 DEF Reach, Upward
    <3> QED BY <3>1, <2>2
  <2> QED BY <2>1, <2>2
<1>5. Reach(d) \subseteq T
  BY <1>3, <1>4 DEF Reach
<1> QED BY <1>2, <1>5

LEMMA AboveUnfolds ==
  \A c \in Classes : Files!Above[c] = IF Super[c] = None THEN {}
                                      ELSE {Super[c]} \union Files!Above[Super[c]]
<1>1. Super \in [Classes -> Classes \union {None}]
  BY DebugSessionAssumption DEF Files!ConstantsOK
<1> DEFINE Fits(f) == f = [c \in Classes |-> IF Super[c] = None THEN {} ELSE {Super[c]} \union f[Super[c]]]
           g == [c \in Classes |-> IF Super[c] = None THEN {} ELSE Reach(Super[c])]
<1>2. Fits(g)
  <2>1. \A c \in Classes : g[c] = IF Super[c] = None THEN {} ELSE {Super[c]} \union g[Super[c]]
    <3> SUFFICES ASSUME NEW c \in Classes, Super[c] # None
                 PROVE  g[c] = {Super[c]} \union g[Super[c]]
      OBVIOUS
    <3>1. Super[c] \in Classes
      BY <1>1
    <3>2. g[c] = Reach(Super[c])
      OBVIOUS
    <3>3. g[Super[c]] = IF Super[Super[c]] = None THEN {} ELSE Reach(Super[Super[c]])
      BY <3>1
    <3> QED BY <3>1, <3>2, <3>3, ReachUnfolds
  <2> QED BY <2>1
<1>3. Files!Above = CHOOSE f : Fits(f)
  BY DEF Files!Above
<1>4. Fits(Files!Above)
  <2> HIDE DEF Fits, g
  <2> QED BY <1>2, <1>3
<1> QED BY <1>4

LEMMA SearchUnfolds ==
  /\ Gdb!Search[None] = {}
  /\ \A c \in Classes : Gdb!Search[c] = {c} \union Gdb!Search[Super[c]]
<1>1. Super \in [Classes -> Classes \union {None}] /\ None \notin Classes
  BY DebugSessionAssumption DEF Files!ConstantsOK
<1> DEFINE Fits(f) == f = [c \in Classes \union {None} |-> IF c = None THEN {} ELSE {c} \union f[Super[c]]]
           g == [c \in Classes \union {None} |-> IF c = None THEN {} ELSE Reach(c)]
<1>2. Fits(g)
  <2>1. \A c \in Classes \union {None} : g[c] = IF c = None THEN {} ELSE {c} \union g[Super[c]]
    <3> SUFFICES ASSUME NEW c \in Classes PROVE g[c] = {c} \union g[Super[c]]
      BY <1>1
    <3>1. g[c] = Reach(c)
      BY <1>1
    <3>2. g[Super[c]] = IF Super[c] = None THEN {} ELSE Reach(Super[c])
      BY <1>1
    <3> QED BY <3>1, <3>2, ReachUnfolds
  <2> QED BY <2>1
<1>3. Gdb!Search = CHOOSE f : Fits(f)
  BY DEF Gdb!Search
<1>4. Fits(Gdb!Search)
  <2> HIDE DEF Fits, g
  <2> QED BY <1>2, <1>3
<1> QED BY <1>4, <1>1
-------------------------------------------------------------------------------
(***************************************************************************)
(* The invariant.  The classes that are loaded, and those that the last    *)
(* dump of the universe found, come with everything above them and with    *)
(* their mixins.                                                           *)
(***************************************************************************)
Whole(S)  == \A c \in S : Files!Above[c] \subseteq S /\ Mixins[c] \subseteq S
Family(c) == {d \in Classes : \A S \in SUBSET Classes : c \in S /\ Whole(S) => d \in S}
Grown     == Whole(loaded) /\ Whole(begun)

\* The superclass of a loaded class is loaded, and of the classes that are searched
\* for a loaded one there is a first in any selection.
Lineage ==
  \A c \in loaded : /\ Super[c] \in loaded \union {None}
                    /\ Gdb!Search[c] \subseteq loaded
                    /\ \A F \in SUBSET Gdb!Search[c] :
                         F # {} => \E d \in F : F \subseteq Gdb!Search[d]

\* Every file has the name of what it is about, and links by name to what its kind
\* of file links to, or from the class table to a page of the HTML dump.
Targets(t) == IF t = Files!Overview THEN {Files!Universe} \union {Files!Class(c) : c \in loaded}
              ELSE IF t = Files!Universe THEN {Files!Overview}
              ELSE {Files!Class(d) : d \in Family(t[1])}
Fitting(file, t) == /\ file.of = t
                    /\ \A l \in file.links : \/ l.name = Files!FileName(l.to) /\ l.to \in Targets(t)
                                             \/ Files!ToHtmlPage(t, l)
FilesRight ==
  \A f \in DOMAIN files : /\ files[f].of \in Files!Known /\ f = Files!FileName(files[f].of)
                          /\ Fitting(files[f], files[f].of)

\* Once the classes are enumerated, the overview has links to none that is not.
OverviewCovers ==
  pc = "classes" \/ complete =>
    \A f \in DOMAIN files :
      files[f].of = Files!Overview => \A l \in files[f].links : l.to \in Files!Pages

\* What the dump has dealt with has its file, or is excused.
Done(t)  == Files!Excused(t) \/ Files!Good(Files!FileName(t), t)
Progress ==
  /\ pc \in {"universe", "table", "classes"} \/ complete => Done(Files!Overview)
  /\ pc \in {"table", "classes"} \/ complete => Done(Files!Universe)
  /\ pc # "classes" => visited = {}
  /\ pc = "classes" => \A c \in visited : Done(Files!Class(c))
  /\ complete => pc = "idle" /\ \A c \in begun : Done(Files!Class(c))

Inv == TypeOK /\ Grown /\ Lineage /\ FilesRight /\ OverviewCovers /\ Progress

-------------------------------------------------------------------------------
\* The assumption about the constants, opened up.
LEMMA Constants ==
  /\ Super \in [Classes -> Classes \union {None}] /\ Mixins \in [Classes -> SUBSET Classes]
  /\ Methods \in [Classes -> SUBSET MethodIds]
  /\ None \notin Classes /\ MaxDumps \in Nat /\ MaxFailures \in Nat /\ MaxStops \in Nat
BY DebugSessionAssumption DEF Files!ConstantsOK, Gdb!ConstantsOK

\* The overview, the universe and the classes are different things.
LEMMA ThingsDiffer ==
  /\ Files!Overview # Files!Universe
  /\ \A c : Files!Class(c) # Files!Overview /\ Files!Class(c) # Files!Universe
  /\ \A c : Files!Class(c)[1] = c
  /\ \A c, d : Files!Class(c) = Files!Class(d) => c = d
<1>1. \A c : Files!Class(c) = <<c, "class">>
  BY DEF Files!Class
<1>2. Files!Overview = <<"overview", "page">> /\ Files!Universe = <<"universe", "page">>
  BY DEF Files!Overview, Files!Universe
<1> QED BY <1>1, <1>2

\* A whole set of classes has the family of each of its members.
LEMMA FamilyWithin ==
  ASSUME NEW S \in SUBSET Classes, Whole(S), NEW c \in S
  PROVE  Family(c) \subseteq S
BY DEF Family

\* A link that File makes has the name of the file it leads to.
LEMMA LinksByName ==
  ASSUME NEW t, NEW L
  PROVE  /\ Files!File(t, L).of = t
         /\ \A l \in Files!File(t, L).links : l.to \in L /\ l.name = Files!FileName(l.to)
BY DEF Files!File, Files!ByUrl, Files!Url, Files!FileName

\* Both files that are written about a class link to classes of its family.
LEMMA ClassFilesFit ==
  ASSUME loaded \subseteq Classes, Grown, NEW c \in loaded
  PROVE  /\ Fitting(Files!LinkedFile(c), Files!Class(c))
         /\ Fitting(Files!FullFile(c), Files!Class(c))
<1>1. Files!Above[c] \subseteq Classes /\ Mixins[c] \subseteq Classes /\ c \in Classes
  BY DEF Grown, Whole
<1>2. {c} \union Files!OpenMixins(c) \union Files!Above[c] \subseteq Family(c)
  BY <1>1 DEF Family, Files!OpenMixins, Whole
<1>3. Files!Drawn(c) \subseteq Family(c)
  <2> SUFFICES ASSUME NEW d \in Files!Drawn(c) PROVE d \in Family(c)
    OBVIOUS
  <2> SUFFICES ASSUME NEW S \in SUBSET Classes, c \in S, Whole(S) PROVE d \in S
    BY DEF Family, Files!Drawn
  <2>1. {c} \union Files!Above[c] \subseteq S
    BY DEF Whole
  <2>2. Files!MixinClosed(S)
    BY DEF Whole, Files!MixinClosed, Files!OpenMixins
  <2> QED BY <2>1, <2>2 DEF Files!Drawn
<1>4. Targets(Files!Class(c)) = {Files!Class(d) : d \in Family(c)}
  BY ThingsDiffer DEF Targets
<1>5. Fitting(Files!LinkedFile(c), Files!Class(c))
  <2> DEFINE L == {Files!Class(d) : d \in {c} \union Files!OpenMixins(c) \union Files!Above[c]}
  <2>1. Files!LinkedFile(c) = Files!File(Files!Class(c), L)
    BY DEF Files!LinkedFile
  <2>2. L \subseteq Targets(Files!Class(c))
    BY <1>2, <1>4
  <2> HIDE DEF L
  <2> QED BY <2>1, <2>2, LinksByName DEF Fitting
<1>6. Fitting(Files!FullFile(c), Files!Class(c))
  <2> DEFINE L == {Files!Class(d) : d \in Files!Drawn(c)}
  <2>1. Files!FullFile(c) = Files!File(Files!Class(c), L)
    BY DEF Files!FullFile
  <2>2. L \subseteq Targets(Files!Class(c))
    BY <1>3, <1>4
  <2> HIDE DEF L
  <2> QED BY <2>1, <2>2, LinksByName DEF Fitting
<1> QED BY <1>5, <1>6

\* So do the overview and the universe link to what they should.
LEMMA PageFilesFit ==
  /\ Fitting(Files!OverviewFile, Files!Overview)
  /\ Fitting(Files!UniverseFile, Files!Universe)
<1>1. Targets(Files!Overview) = {Files!Universe} \union {Files!Class(c) : c \in loaded}
  BY DEF Targets
<1>2. Targets(Files!Universe) = {Files!Overview}
  BY ThingsDiffer DEF Targets
<1>3. Fitting(Files!OverviewFile, Files!Overview)
  BY <1>1, LinksByName DEF Fitting, Files!OverviewFile
<1>4. \A l \in Files!ByUrl({Files!Overview}) :
        l.name = Files!FileName(l.to) /\ l.to \in Targets(Files!Universe)
  BY <1>2 DEF Files!ByUrl, Files!Url, Files!FileName
<1>5. \A l \in Files!ClassTable : Files!ToHtmlPage(Files!Universe, l)
  BY DEF Files!ClassTable, Files!ToHtmlPage
<1>6. /\ Files!UniverseFile.of = Files!Universe
      /\ Files!UniverseFile.links = Files!ByUrl({Files!Overview}) \union Files!ClassTable
  BY DEF Files!UniverseFile
<1> QED BY <1>3, <1>4, <1>5, <1>6 DEF Fitting
-------------------------------------------------------------------------------
(***************************************************************************)
(* An attempt to write a file: it is written, or fopen fails.              *)
(***************************************************************************)
Attempt(t, file) == Files!Write(t, file) \/ Files!FopenFails(t)

\* After an attempt what it was about is dealt with, and so is what was before: the
\* attempt can replace another thing's file, but then the two share a name.
LEMMA AttemptDeals ==
  ASSUME NEW t \in Files!Known, NEW file, file.of = t, Attempt(t, file), loaded \subseteq loaded'
  PROVE  Done(t)' /\ \A u \in Files!Known : Done(u) => Done(u)'
<1>1. \A u : Files!Shared(u) => Files!Shared(u)'
  BY DEF Files!Shared, Files!Known
<1>2. CASE Files!FopenFails(t)
  <2>1. failed' = failed \union {t} /\ files' = files
    BY <1>2 DEF Files!FopenFails
  <2> QED BY <2>1, <1>1 DEF Done, Files!Excused, Files!Good
<1>3. CASE Files!Write(t, file)
  <2>1. /\ files' = [f \in DOMAIN files \union {Files!FileName(t)} |->
                       IF f = Files!FileName(t) THEN file ELSE files[f]]
        /\ failed' = failed \ {t}
    BY <1>3 DEF Files!Write
  <2>2. Files!Good(Files!FileName(t), t)'
    BY <2>1 DEF Files!Good
  <2>3. ASSUME NEW u \in Files!Known, Done(u), u # t PROVE Done(u)'
    <3>1. CASE Files!FileName(u) = Files!FileName(t)
      <4>1. Files!Shared(u)
        BY <2>3, <3>1 DEF Files!Shared
      <4> QED BY <4>1, <1>1 DEF Done, Files!Excused
    <3>2. CASE Files!FileName(u) # Files!FileName(t)
      <4>1. Files!Good(Files!FileName(u), u) => Files!Good(Files!FileName(u), u)'
        BY <2>1, <3>2 DEF Files!Good
      <4>2. u \in failed => u \in failed'
        BY <2>1, <2>3
      <4> QED BY <2>3, <4>1, <4>2, <1>1 DEF Done, Files!Excused
    <3> QED BY <3>1, <3>2
  <2>4. Done(t)'
    BY <2>2 DEF Done
  <2> QED BY <2>3, <2>4
<1> QED BY <1>2, <1>3 DEF Attempt

\* What is not touched stays dealt with when classes are loaded.
LEMMA DoneStays ==
  ASSUME files' = files, failed' = failed, loaded \subseteq loaded'
  PROVE  \A u : Done(u) => Done(u)'
<1>1. \A u : Files!Shared(u) => Files!Shared(u)'
  BY DEF Files!Shared, Files!Known
<1> QED BY <1>1 DEF Done, Files!Excused, Files!Good

\* What a file may link to stays so when classes are loaded.
LEMMA TargetsGrow ==
  ASSUME loaded \subseteq loaded'
  PROVE  \A t : Targets(t) \subseteq Targets(t)'
<1> SUFFICES ASSUME NEW t PROVE Targets(t) \subseteq Targets(t)'
  OBVIOUS
<1>1. CASE t = Files!Overview
  BY <1>1 DEF Targets
<1>2. CASE t # Files!Overview
  BY <1>2 DEF Targets
<1> QED BY <1>1, <1>2

LEMMA FittingStays ==
  ASSUME NEW t, NEW file, Fitting(file, t), loaded \subseteq loaded'
  PROVE  Fitting(file, t)'
BY TargetsGrow DEF Fitting, Files!ToHtmlPage

\* An attempt with the right file leaves the files right.
LEMMA AttemptFits ==
  ASSUME FilesRight, NEW t \in Files!Known, NEW file, Fitting(file, t), Attempt(t, file),
         loaded \subseteq loaded'
  PROVE  FilesRight'
<1>1. /\ DOMAIN files' \subseteq DOMAIN files \union {Files!FileName(t)}
      /\ \A f \in DOMAIN files' : \/ files'[f] = file /\ f = Files!FileName(t)
                                  \/ files'[f] = files[f] /\ f \in DOMAIN files
  <2>1. CASE Files!FopenFails(t)
    BY <2>1 DEF Files!FopenFails
  <2>2. CASE Files!Write(t, file)
    <3>1. files' = [f \in DOMAIN files \union {Files!FileName(t)} |->
                      IF f = Files!FileName(t) THEN file ELSE files[f]]
      BY <2>2 DEF Files!Write
    <3> QED BY <3>1
  <2> QED BY <2>1, <2>2 DEF Attempt
<1>2. Files!Known \subseteq Files!Known'
  BY DEF Files!Known
<1>3. ASSUME NEW f \in DOMAIN files'
      PROVE  \E u, g : /\ files'[f] = g /\ g.of = u
                       /\ u \in Files!Known' /\ f = Files!FileName(u) /\ Fitting(g, u)'
  <2>1. CASE files'[f] = file /\ f = Files!FileName(t)
    <3>1. file.of = t
      BY DEF Fitting
    <3>2. Fitting(file, t)'
      BY FittingStays
    <3> QED BY <2>1, <3>1, <3>2, <1>2
  <2>2. CASE files'[f] = files[f] /\ f \in DOMAIN files
    <3>1. PICK u, g : u = files[f].of /\ g = files[f]
      OBVIOUS
    <3>2. u \in Files!Known /\ f = Files!FileName(u) /\ Fitting(g, u)
      BY <2>2, <3>1 DEF FilesRight
    <3>3. Fitting(g, u)'
      BY <3>2, FittingStays
    <3> QED BY <2>2, <3>1, <3>2, <3>3, <1>2
  <2> QED BY <2>1, <2>2, <1>1
<1> QED BY <1>3 DEF FilesRight

\* The files stay right when classes are loaded.
LEMMA FilesRightStays ==
  ASSUME FilesRight, files' = files, loaded \subseteq loaded'
  PROVE  FilesRight'
<1>1. Files!Known \subseteq Files!Known'
  BY DEF Files!Known
<1>2. ASSUME NEW f \in DOMAIN files
      PROVE  \E u, g : /\ files[f] = g /\ g.of = u
                       /\ u \in Files!Known' /\ f = Files!FileName(u) /\ Fitting(g, u)'
  <2>1. PICK u, g : u = files[f].of /\ g = files[f]
    OBVIOUS
  <2>2. u \in Files!Known /\ f = Files!FileName(u) /\ Fitting(g, u)
    BY <2>1 DEF FilesRight
  <2> QED BY <2>1, <2>2, <1>1, FittingStays
<1> QED BY <1>2 DEF FilesRight
-------------------------------------------------------------------------------
(***************************************************************************)
(* The steps.  All but those of the files leave the directory and the      *)
(* class table alone.                                                      *)
(***************************************************************************)
LEMMA Step ==
  ASSUME [Next]_vars
  PROVE  Files!Next \/ UNCHANGED <<directory, loaded>>
<1>1. Gdb!Names => loaded' = loaded
  BY DEF Gdb!Names, Gdb!LookupClass, Gdb!LookupSelector, Gdb!SelGetAnyUid
<1>2. Gdb!Implementations => loaded' = loaded
  BY DEF Gdb!Implementations, Gdb!LookupImplementation
<1> QED BY <1>1, <1>2 DEF Next, vars, Call, Stop, Resume, Dump, Asked, AskForImplementation, AskForName

\* Each step with its file; what it does to the class table.
LEMMA Grows ==
  ASSUME [Next]_vars
  PROVE  loaded \subseteq loaded' /\ (loaded' = loaded \/ Files!Load)
BY Step DEF directory, Files!Next, Files!Load, Files!BeginUniverse, Files!DumpOverview,
   Files!DumpUniverse, Files!Enumerate, Files!DumpClass, Files!End, Files!DumpOneClass

\* A class is loaded after its superclass, with all above that, and after its mixins.
LEMMA GrownStays ==
  ASSUME TypeOK, Grown, [Next]_vars
  PROVE  Grown'
<1>1. loaded \subseteq Classes
  BY DEF TypeOK, Files!TypeOK
<1>2. Whole(loaded')
  <2>1. CASE loaded' = loaded
    BY <2>1 DEF Grown
  <2>2. CASE Files!Load
    <3>1. PICK c \in Classes \ loaded : /\ Super[c] \in loaded \union {None}
                                        /\ Mixins[c] \subseteq loaded
                                        /\ loaded' = loaded \union {c}
      BY <2>2 DEF Files!Load
    <3>2. Files!Above[c] \subseteq loaded
      BY <3>1, AboveUnfolds DEF Grown, Whole
    <3> QED BY <3>1, <3>2 DEF Grown, Whole
  <2> QED BY <2>1, <2>2, Grows
<1>3. begun' = begun \/ begun' = loaded \/ begun' = {}
  BY Step DEF directory, Files!Next, Files!Load, Files!BeginUniverse, Files!DumpOverview,
     Files!DumpUniverse, Files!Enumerate, Files!DumpClass, Files!End, Files!DumpOneClass
<1> QED BY <1>2, <1>3 DEF Grown, Whole

\* The class that is loaded comes first in what is searched for it.
LEMMA LineageStays ==
  ASSUME TypeOK, Lineage, [Next]_vars
  PROVE  Lineage'
<1>1. CASE loaded' = loaded
  BY <1>1 DEF Lineage
<1>2. CASE Files!Load
  <2>1. PICK c \in Classes \ loaded : /\ Super[c] \in loaded \union {None}
                                      /\ loaded' = loaded \union {c}
    BY <1>2 DEF Files!Load
  <2>2. Gdb!Search[c] = {c} \union Gdb!Search[Super[c]]
    BY SearchUnfolds
  <2>3. /\ Gdb!Search[Super[c]] \subseteq loaded
        /\ \A F \in SUBSET Gdb!Search[Super[c]] :
             F # {} => \E d \in F : F \subseteq Gdb!Search[d]
    <3>1. CASE Super[c] = None
      BY <3>1, SearchUnfolds
    <3>2. CASE Super[c] \in loaded
      BY <3>2 DEF Lineage
    <3> QED BY <3>1, <3>2, <2>1
  <2>4. ASSUME NEW F \in SUBSET Gdb!Search[c], F # {}
        PROVE  \E d \in F : F \subseteq Gdb!Search[d]
    <3>1. CASE c \in F
      BY <3>1
    <3>2. CASE c \notin F
      BY <3>2, <2>2, <2>3, <2>4
    <3> QED BY <3>1, <3>2
  <2>5. ASSUME NEW e \in loaded'
        PROVE  /\ Super[e] \in loaded' \union {None}
               /\ Gdb!Search[e] \subseteq loaded'
               /\ \A F \in SUBSET Gdb!Search[e] :
                    F # {} => \E d \in F : F \subseteq Gdb!Search[d]
    <3>1. CASE e = c
      BY <3>1, <2>1, <2>2, <2>3, <2>4
    <3>2. CASE e \in loaded
      BY <3>2, <2>1 DEF Lineage
    <3> QED BY <3>1, <3>2, <2>1
  <2> QED BY <2>5 DEF Lineage
<1> QED BY <1>1, <1>2, Grows

\* The steps that write a file, each with the thing and the file that fits it.
LEMMA Attempts ==
  ASSUME TypeOK, Grown
  PROVE  /\ Files!DumpOverview => Attempt(Files!Overview, Files!OverviewFile)
         /\ Files!DumpUniverse => Attempt(Files!Universe, Files!UniverseFile)
         /\ Files!DumpClass \/ Files!DumpOneClass =>
              \E c \in loaded : \E file : /\ Attempt(Files!Class(c), file)
                                          /\ Fitting(file, Files!Class(c))
                                          /\ Files!DumpClass => visited' = visited \union {c}
         /\ \A c \in loaded : Files!Class(c) \in Files!Known
         /\ Files!Overview \in Files!Known /\ Files!Universe \in Files!Known
<1>1. loaded \subseteq Classes
  BY DEF TypeOK, Files!TypeOK
<1>2. Files!DumpOverview => Attempt(Files!Overview, Files!OverviewFile)
  BY DEF Files!DumpOverview, Attempt
<1>3. Files!DumpUniverse => Attempt(Files!Universe, Files!UniverseFile)
  BY DEF Files!DumpUniverse, Attempt
<1>4. ASSUME Files!DumpClass
      PROVE  \E c \in loaded : /\ Attempt(Files!Class(c), Files!LinkedFile(c))
                               /\ visited' = visited \union {c}
  BY <1>4 DEF Files!DumpClass, Attempt
<1>5. ASSUME Files!DumpOneClass
      PROVE  \E c \in loaded : \E file \in {Files!LinkedFile(c), Files!FullFile(c)} :
               Attempt(Files!Class(c), file) /\ visited' = visited
  BY <1>5 DEF Files!DumpOneClass, Attempt
<1>6. Files!DumpOneClass => pc = "idle"
  BY DEF Files!DumpOneClass, Files!Begin
<1>7. Files!DumpClass => pc = "classes"
  BY DEF Files!DumpClass
<1>8. CASE Files!DumpClass
  BY <1>1, <1>2, <1>3, <1>4, <1>8, ClassFilesFit DEF Files!Known
<1>9. CASE Files!DumpOneClass
  BY <1>1, <1>2, <1>3, <1>5, <1>6, <1>7, <1>9, ClassFilesFit DEF Files!Known
<1> QED BY <1>2, <1>3, <1>8, <1>9 DEF Files!Known

\* The files stay right.
LEMMA FilesRightKept ==
  ASSUME TypeOK, Grown, FilesRight, [Next]_vars
  PROVE  FilesRight'
<1>1. loaded \subseteq loaded'
  BY Grows
<1>2. CASE Files!DumpOverview
  BY <1>1, <1>2, Attempts, PageFilesFit, AttemptFits
<1>3. CASE Files!DumpUniverse
  BY <1>1, <1>3, Attempts, PageFilesFit, AttemptFits
<1>4. CASE Files!DumpClass \/ Files!DumpOneClass
  <2>1. PICK c \in loaded :
          \E file : Attempt(Files!Class(c), file) /\ Fitting(file, Files!Class(c))
    BY <1>4, Attempts
  <2>2. Files!Class(c) \in Files!Known
    BY Attempts
  <2> QED BY <1>1, <2>1, <2>2, AttemptFits
<1>5. CASE files' = files
  BY <1>1, <1>5, FilesRightStays
<1> QED BY <1>2, <1>3, <1>4, <1>5, Step
        DEF directory, Files!Next, Files!Load, Files!BeginUniverse, Files!Enumerate, Files!End

\* Classes may be loaded between the overview and the enumeration, and none that the
\* overview links to is missed by it; later the overview is only replaced.
LEMMA OverviewCoversKept ==
  ASSUME TypeOK, Grown, FilesRight, OverviewCovers, Progress, [Next]_vars
  PROVE  OverviewCovers'
<1>1. CASE Files!BeginUniverse
  BY <1>1 DEF Files!BeginUniverse, OverviewCovers
<1>2. CASE Files!DumpOverview
  <2>1. pc = "overview" /\ pc' = "universe" /\ complete' = complete
    BY <1>2 DEF Files!DumpOverview
  <2> QED BY <2>1 DEF OverviewCovers, Progress
<1>3. CASE Files!DumpUniverse
  <2>1. pc = "universe" /\ pc' = "table" /\ complete' = complete
    BY <1>3 DEF Files!DumpUniverse
  <2> QED BY <2>1 DEF OverviewCovers, Progress
<1>7. CASE Files!Enumerate
  <2>1. begun' = loaded /\ loaded' = loaded
    BY <1>7 DEF Files!Enumerate
  <2>2. Targets(Files!Overview)' = Files!Pages' \ {Files!Overview}
    BY <2>1, ThingsDiffer DEF Targets, Files!Pages
  <2>3. FilesRight'
    BY FilesRightKept
  <2>4. Files!Overview # Files!Universe
    BY ThingsDiffer
  <2> QED BY <2>2, <2>3, <2>4 DEF OverviewCovers, FilesRight, Fitting, Files!ToHtmlPage
<1>4. CASE Files!DumpClass \/ Files!DumpOneClass
  <2>1. PICK c \in loaded :
          \E file : Attempt(Files!Class(c), file) /\ Fitting(file, Files!Class(c))
    BY <1>4, Attempts
  <2>2. PICK file : Attempt(Files!Class(c), file) /\ file.of = Files!Class(c)
    BY <2>1 DEF Fitting
  <2>3. \A f \in DOMAIN files' : files'[f].of = Files!Overview =>
                                   f \in DOMAIN files /\ files'[f] = files[f]
    BY <2>2, ThingsDiffer DEF Attempt, Files!Write, Files!FopenFails
  <2>4. begun' = begun /\ complete' = complete /\ pc' = pc
    BY <1>4 DEF Files!DumpClass, Files!DumpOneClass
  <2> QED BY <2>3, <2>4 DEF OverviewCovers, Files!Pages
<1>5. CASE Files!End
  BY <1>5 DEF Files!End, OverviewCovers, Files!Pages
<1>6. CASE Files!Load \/ UNCHANGED <<directory, loaded>>
  <2>1. files' = files /\ begun' = begun /\ complete' = complete /\ pc' = pc
    BY <1>6 DEF Files!Load, directory
  <2> QED BY <2>1 DEF OverviewCovers, Files!Pages
<1> QED BY <1>1, <1>2, <1>3, <1>4, <1>5, <1>6, <1>7, Step DEF Files!Next

\* The dump goes on from one thing to the next, and none is undone.
LEMMA ProgressKept ==
  ASSUME TypeOK, Grown, FilesRight, Progress, [Next]_vars
  PROVE  Progress'
<1>1. /\ pc \in {"idle", "overview", "universe", "table", "classes"} /\ complete \in BOOLEAN
      /\ visited \subseteq loaded /\ begun \subseteq loaded
  BY DEF TypeOK, Files!TypeOK
<1>2. loaded \subseteq loaded'
  BY Grows
<1>3. /\ Files!Overview \in Files!Known /\ Files!Universe \in Files!Known
      /\ \A c \in loaded : Files!Class(c) \in Files!Known
  BY Attempts
<1>4. CASE Files!Load \/ UNCHANGED <<directory, loaded>>
  <2>1. /\ files' = files /\ failed' = failed /\ pc' = pc /\ complete' = complete
        /\ visited' = visited /\ begun' = begun
    BY <1>4 DEF Files!Load, directory
  <2>2. \A u : Done(u) => Done(u)'
    BY <2>1, <1>2, DoneStays
  <2> QED BY <2>1, <2>2 DEF Progress
<1>5. CASE Files!BeginUniverse
  <2>1. pc = "idle" /\ pc' = "overview" /\ visited' = visited /\ complete' = FALSE
    BY <1>5 DEF Files!BeginUniverse, Files!Begin
  <2> QED BY <2>1 DEF Progress
<1>6. CASE Files!DumpOverview
  <2>1. pc = "overview" /\ pc' = "universe" /\ complete' = complete /\ visited' = visited
    BY <1>6 DEF Files!DumpOverview
  <2>2. Attempt(Files!Overview, Files!OverviewFile) /\ Files!OverviewFile.of = Files!Overview
    BY <1>6, Attempts, PageFilesFit DEF Fitting
  <2>3. Done(Files!Overview)'
    BY <2>2, <1>2, <1>3, AttemptDeals
  <2> QED BY <2>1, <2>3 DEF Progress
<1>7. CASE Files!DumpUniverse
  <2>1. pc = "universe" /\ pc' = "table" /\ complete' = complete /\ visited' = visited
    BY <1>7 DEF Files!DumpUniverse
  <2>2. Attempt(Files!Universe, Files!UniverseFile) /\ Files!UniverseFile.of = Files!Universe
    BY <1>7, Attempts, PageFilesFit DEF Fitting
  <2>3. Done(Files!Universe)' /\ Done(Files!Overview)'
    BY <2>1, <2>2, <1>2, <1>3, AttemptDeals DEF Progress
  <2> QED BY <2>1, <2>3 DEF Progress
<1>11. CASE Files!Enumerate
  <2>1. /\ pc = "table" /\ pc' = "classes" /\ complete' = complete /\ visited' = visited
        /\ files' = files /\ failed' = failed
    BY <1>11 DEF Files!Enumerate
  <2>2. \A u : Done(u) => Done(u)'
    BY <2>1, <1>2, DoneStays
  <2> QED BY <2>1, <2>2 DEF Progress
<1>8. CASE Files!DumpClass
  <2>1. pc = "classes" /\ pc' = pc /\ complete' = complete /\ begun' = begun
    BY <1>8 DEF Files!DumpClass
  <2>2. PICK c \in loaded : \E file : /\ Attempt(Files!Class(c), file)
                                      /\ Fitting(file, Files!Class(c))
                                      /\ visited' = visited \union {c}
    BY <1>8, Attempts
  <2>3. PICK file : Attempt(Files!Class(c), file) /\ file.of = Files!Class(c)
    BY <2>2 DEF Fitting
  <2>4. Done(Files!Class(c))' /\ \A u \in Files!Known : Done(u) => Done(u)'
    BY <2>3, <1>2, <1>3, AttemptDeals
  <2> QED BY <2>1, <2>2, <2>4, <1>1, <1>3 DEF Progress
<1>9. CASE Files!End
  <2>1. /\ pc = "classes" /\ pc' = "idle" /\ visited' = {}
        /\ complete' => begun \subseteq visited
        /\ files' = files /\ failed' = failed /\ begun' = begun
    BY <1>9 DEF Files!End
  <2>2. \A u : Done(u) => Done(u)'
    BY <2>1, <1>2, DoneStays
  <2> QED BY <2>1, <2>2 DEF Progress
<1>10. CASE Files!DumpOneClass
  <2>1. /\ pc = "idle" /\ pc' = pc /\ complete' = complete
        /\ begun' = begun /\ visited' = visited
    BY <1>10 DEF Files!DumpOneClass, Files!Begin
  <2>2. PICK c \in loaded :
          \E file : Attempt(Files!Class(c), file) /\ Fitting(file, Files!Class(c))
    BY <1>10, Attempts
  <2>3. PICK file : Attempt(Files!Class(c), file) /\ file.of = Files!Class(c)
    BY <2>2 DEF Fitting
  <2>4. \A u \in Files!Known : Done(u) => Done(u)'
    BY <2>3, <1>2, <1>3, AttemptDeals
  <2> QED BY <2>1, <2>4, <1>1, <1>3 DEF Progress
<1> QED BY <1>4, <1>5, <1>6, <1>7, <1>8, <1>9, <1>10, <1>11, Step DEF Files!Next
-------------------------------------------------------------------------------
(***************************************************************************)
(* The types.                                                              *)
(***************************************************************************)
LEMMA FileTypes ==
  ASSUME TypeOK, Grown, FilesRight, Files!Next
  PROVE  /\ begun' \subseteq loaded' /\ visited' \subseteq loaded' /\ loaded' \subseteq Classes
         /\ pc' \in {"idle", "overview", "universe", "table", "classes"}
         /\ failed' \subseteq Files!Things
         /\ complete' \in BOOLEAN
         /\ reported' \in Files!Things \union {None}
         /\ dumps' \in 0 .. MaxDumps /\ failures' \in 0 .. MaxFailures
         /\ errno' \in Errnos
<1> USE Constants
<1>1. Files!TypeOK
  BY DEF TypeOK
<1>2. /\ Files!Overview \in Files!Things /\ Files!Universe \in Files!Things
      /\ \A c \in loaded : Files!Class(c) \in Files!Things
  BY <1>1 DEF Files!TypeOK, Files!Things
<1>3. \A t, file : t \in Files!Things /\ Attempt(t, file) =>
        /\ failed' \subseteq Files!Things /\ errno' \in Errnos
        /\ failures' \in 0 .. MaxFailures
  BY <1>1 DEF Attempt, Files!Write, Files!FopenFails, Files!TypeOK
<1>4. CASE Files!Load
  BY <1>1, <1>4 DEF Files!Load, Files!TypeOK
<1>5. CASE Files!BeginUniverse
  <2>1. dumps \in Nat /\ dumps < MaxDumps /\ dumps' = dumps + 1
    BY <1>1, <1>5 DEF Files!BeginUniverse, Files!Begin, Files!TypeOK
  <2>2. dumps' \in 0 .. MaxDumps
    BY <2>1
  <2> QED BY <1>1, <1>5, <2>2 DEF Files!BeginUniverse, Files!TypeOK
<1>6. CASE Files!DumpOverview
  <2>1. Attempt(Files!Overview, Files!OverviewFile)
    BY <1>6, Attempts
  <2> QED BY <1>1, <1>2, <1>3, <1>6, <2>1 DEF Files!DumpOverview, Files!TypeOK
<1>7. CASE Files!DumpUniverse
  <2>1. Attempt(Files!Universe, Files!UniverseFile)
    BY <1>7, Attempts
  <2> QED BY <1>1, <1>2, <1>3, <1>7, <2>1 DEF Files!DumpUniverse, Files!TypeOK
<1>11. CASE Files!Enumerate
  BY <1>1, <1>11 DEF Files!Enumerate, Files!TypeOK
<1>8. CASE Files!DumpClass
  <2>1. PICK c \in loaded : \E file : /\ Attempt(Files!Class(c), file)
                                      /\ visited' = visited \union {c}
    BY <1>8, Attempts
  <2> QED BY <1>1, <1>2, <1>3, <1>8, <2>1 DEF Files!DumpClass, Files!TypeOK
<1>9. CASE Files!End
  BY <1>1, <1>9 DEF Files!End, Files!Undisturbed, Files!TypeOK
<1>10. CASE Files!DumpOneClass
  <2>1. \E c \in loaded : \E file : Attempt(Files!Class(c), file)
    BY <1>10 DEF Files!DumpOneClass, Attempt
  <2>2. /\ dumps < MaxDumps /\ dumps' = dumps + 1 /\ loaded' = loaded
        /\ visited' = visited /\ pc' = pc /\ begun' = begun /\ complete' = complete
    BY <1>10 DEF Files!DumpOneClass, Files!Begin
  <2>3. \E c \in loaded : reported' = Files!Class(c)
    BY <1>10 DEF Files!DumpOneClass
  <2> QED BY <1>1, <1>2, <1>3, <2>1, <2>2, <2>3 DEF Files!TypeOK
<1> QED BY <1>4, <1>5, <1>6, <1>7, <1>8, <1>9, <1>10, <1>11 DEF Files!Next

\* The implementation that is found is that of a loaded class: of those that have the
\* method the one that is searched first.
LEMMA ImplementationType ==
  ASSUME TypeOK, Lineage, NEW c \in loaded \union {None}, NEW methodid \in MethodIds
  PROVE  Gdb!Implementation(c, methodid) \in (loaded \union {None}) \X (MethodIds \union {None})
<1> DEFINE found == {d \in Gdb!Search[c] : methodid \in Methods[d]}
<1>1. CASE found = {}
  BY <1>1 DEF Gdb!Implementation, Gdb!NULL, Gdb!Answer
<1>2. CASE found # {}
  <2>1. c \in loaded
    BY <1>2, SearchUnfolds
  <2>2. \E d \in found : found \subseteq Gdb!Search[d]
    <3>1. found \in SUBSET Gdb!Search[c]
      OBVIOUS
    <3> HIDE DEF found
    <3> QED BY <1>2, <2>1, <3>1 DEF Lineage
  <2>3. (CHOOSE d \in found : found \subseteq Gdb!Search[d]) \in found
    BY <2>2
  <2>4. found \subseteq loaded
    BY <2>1 DEF Lineage
  <2>5. Gdb!Implementation(c, methodid) =
          Gdb!Answer(CHOOSE d \in found : found \subseteq Gdb!Search[d], methodid)
    BY <1>2 DEF Gdb!Implementation
  <2>6. PICK e : e = CHOOSE d \in found : found \subseteq Gdb!Search[d]
    OBVIOUS
  <2>7. e \in loaded /\ Gdb!Implementation(c, methodid) = <<e, methodid>>
    BY <2>3, <2>4, <2>5, <2>6 DEF Gdb!Answer
  <2> QED BY <2>7
<1> QED BY <1>1, <1>2

\* What the lookups return and what they may write.
LEMMA AnswerTypes ==
  ASSUME TypeOK, Lineage, Gdb!Implementations \/ Gdb!Names
  PROVE  /\ answer' \in (loaded \union {None}) \X (MethodIds \union {None})
         /\ filled' \subseteq Cached /\ errno' \in Errnos /\ loaded' = loaded
<1>1. /\ filled \subseteq Cached /\ errno \in Errnos /\ loaded \subseteq Classes
      /\ None \notin Classes
  BY Constants DEF TypeOK, Gdb!TypeOK, Files!TypeOK
<1>2. Gdb!MayFill => filled' \subseteq Cached
  BY <1>1 DEF Gdb!MayFill
<1>3. Gdb!SelectorsKnown \subseteq MethodIds
  BY <1>1, Constants DEF Gdb!SelectorsKnown
<1>4. CASE Gdb!Implementations
  <2>1. PICK obj \in loaded \union {None}, class \in loaded, methodid \in MethodIds, calltype \in 0 .. 2 :
          Gdb!LookupImplementation(obj, methodid, class, <<class, methodid>>, calltype)
    BY <1>4 DEF Gdb!Implementations
  <2>2. \E e \in Errnos : errno' = IF obj = None THEN errno ELSE Gdb!Preserved(e, errno)
    BY <2>1 DEF Gdb!LookupImplementation
  <2>3. loaded' = loaded /\ filled' = filled
    BY <2>1 DEF Gdb!LookupImplementation
  <2>4. Super[class] \in loaded \union {None}
    BY DEF Lineage
  <2>5. \/ answer' = Gdb!NULL
        \/ \E c \in loaded \union {None} : answer' = Gdb!Implementation(c, methodid)
    BY <2>1, <2>4 DEF Gdb!LookupImplementation
  <2>6. answer' \in (loaded \union {None}) \X (MethodIds \union {None})
    BY <2>5, ImplementationType DEF Gdb!NULL, Gdb!Answer
  <2> QED BY <2>2, <2>3, <2>6, <1>1 DEF Gdb!Preserved
<1>5. CASE Gdb!Names
  <2>1. ASSUME NEW name \in Classes, Gdb!LookupClass(name)
        PROVE  /\ answer' \in (loaded \union {None}) \X (MethodIds \union {None})
               /\ filled' \subseteq Cached /\ errno' \in Errnos /\ loaded' = loaded
    BY <2>1, <1>2 DEF Gdb!LookupClass, Gdb!NULL, Gdb!Answer
  <2>2. ASSUME NEW methodid, Gdb!LookupSelector(methodid)
        PROVE  /\ answer' \in (loaded \union {None}) \X (MethodIds \union {None})
               /\ filled' \subseteq Cached /\ errno' \in Errnos /\ loaded' = loaded
    BY <2>2, <1>2, <1>3 DEF Gdb!LookupSelector, Gdb!NULL, Gdb!Answer
  <2>3. ASSUME NEW methodid, Gdb!SelGetAnyUid(methodid)
        PROVE  /\ answer' \in (loaded \union {None}) \X (MethodIds \union {None})
               /\ filled' \subseteq Cached /\ errno' \in Errnos /\ loaded' = loaded
    BY <2>2, <2>3, <1>1 DEF Gdb!SelGetAnyUid, Gdb!NULL, Gdb!Answer
  <2> QED BY <1>5, <2>1, <2>2, <2>3 DEF Gdb!Names
<1> QED BY <1>4, <1>5

LEMMA TypesKept ==
  ASSUME TypeOK, Grown, Lineage, FilesRight, [Next]_vars
  PROVE  TypeOK'
<1> USE Constants
<1>1. FilesRight'
  BY FilesRightKept
<1>2. /\ Files!TypeOK /\ filled \subseteq Cached /\ stops \in 0 .. MaxStops
      /\ answer \in (loaded \union {None}) \X (MethodIds \union {None})
      /\ stop \in {Off, Touched} \union {Found(e, c) : e \in Errnos, c \in SUBSET Cached}
  BY DEF TypeOK, Gdb!TypeOK
<1>3. loaded \subseteq loaded'
  BY Grows
<1>4. ASSUME UNCHANGED <<directory, loaded>>, errno' \in Errnos
      PROVE  Files!TypeOK'
  BY <1>2, <1>4 DEF Files!TypeOK, directory
<1>5. CASE Call
  <2>1. filled' \subseteq Cached /\ errno' \in Errnos /\ UNCHANGED <<directory, loaded, answer, session>>
    BY <1>2, <1>5 DEF Call
  <2> QED BY <2>1, <1>2, <1>4 DEF TypeOK, Gdb!TypeOK, session
<1>6. CASE Stop
  <2>1. /\ UNCHANGED <<directory, loaded, errno, filled, answer>>
        /\ stops' \in 0 .. MaxStops /\ stop' = Found(errno, filled)
    BY <1>2, <1>6 DEF Stop
  <2>2. errno \in Errnos
    BY <1>2 DEF Files!TypeOK
  <2> QED BY <2>1, <2>2, <1>2, <1>4 DEF TypeOK, Gdb!TypeOK
<1>7. CASE Resume
  <2>1. /\ UNCHANGED <<directory, loaded, errno, filled, stops>>
        /\ stop' = Off /\ answer' = Gdb!NULL
    BY <1>7 DEF Resume
  <2>2. errno \in Errnos
    BY <1>2 DEF Files!TypeOK
  <2> QED BY <2>1, <2>2, <1>2, <1>4 DEF TypeOK, Gdb!TypeOK, Gdb!NULL, Gdb!Answer
<1>8. CASE Dump
  <2>1. /\ Files!Next /\ stop' \in {Off, Touched}
        /\ filled' = filled /\ answer' = answer /\ stops' = stops
    BY <1>8 DEF Dump
  <2>2. Files!Known' \subseteq Files!Things
    BY <2>1, FileTypes DEF Files!Known, Files!Things
  <2>3. Files!TypeOK'
    BY <2>1, <2>2, <1>1, FileTypes DEF Files!TypeOK, FilesRight
  <2>4. Gdb!TypeOK'
    BY <2>1, <1>2, <1>3 DEF Gdb!TypeOK
  <2> QED BY <2>1, <2>3, <2>4, <1>2 DEF TypeOK
<1>9. CASE AskForImplementation
  <2>1. /\ UNCHANGED <<directory, stops, stop>> /\ Gdb!Implementations
    BY <1>9 DEF AskForImplementation, Asked
  <2> QED BY <2>1, <1>2, <1>4, AnswerTypes DEF TypeOK, Gdb!TypeOK
<1>10. CASE AskForName
  <2>1. /\ UNCHANGED <<directory, stops>> /\ Gdb!Names /\ stop' = Touched
    BY <1>10 DEF AskForName, Asked
  <2> QED BY <2>1, <1>2, <1>4, AnswerTypes DEF TypeOK, Gdb!TypeOK
<1>11. CASE UNCHANGED vars
  <2>1. /\ UNCHANGED <<directory, loaded, errno, filled, answer>>
        /\ UNCHANGED <<stop, stops>>
    BY <1>11 DEF vars, session
  <2>2. errno \in Errnos
    BY <1>2 DEF Files!TypeOK
  <2> QED BY <2>1, <2>2, <1>2, <1>4 DEF TypeOK, Gdb!TypeOK
<1> QED BY <1>5, <1>6, <1>7, <1>8, <1>9, <1>10, <1>11 DEF Next

-------------------------------------------------------------------------------
(***************************************************************************)
(* For every runtime and any number of dumps, failures, stops and calls,   *)
(* with classes loaded at any time: the invariant.                         *)
(***************************************************************************)
THEOREM SessionInductive == Spec => []Inv
<1>1. Init => Inv
  <2> SUFFICES ASSUME Init PROVE Inv
    OBVIOUS
  <2> USE Constants
  <2>1. /\ loaded = {} /\ begun = {} /\ visited = {} /\ pc = "idle" /\ files = <<>> /\ failed = {}
        /\ complete = FALSE /\ reported = None /\ dumps = 0 /\ failures = 0 /\ errno \in Errnos
        /\ filled = {} /\ answer = Gdb!NULL /\ stop = Off /\ stops = 0
    BY DEF Init, Files!Init
  <2>2. TypeOK
    <3>1. 0 \in 0 .. MaxDumps /\ 0 \in 0 .. MaxFailures /\ 0 \in 0 .. MaxStops
      OBVIOUS
    <3>3. DOMAIN files = {}
      BY <2>1
    <3>4. Files!TypeOK
      BY <2>1, <3>1, <3>3 DEF Files!TypeOK
    <3>2. Gdb!TypeOK
      BY <2>1 DEF Gdb!TypeOK, Gdb!NULL, Gdb!Answer
    <3> QED BY <2>1, <3>1, <3>2, <3>4 DEF TypeOK
  <2>3. Grown /\ Lineage
    BY <2>1 DEF Grown, Whole, Lineage
  <2>4. FilesRight /\ OverviewCovers /\ Progress
    BY <2>1 DEF FilesRight, OverviewCovers, Progress
  <2> QED BY <2>2, <2>3, <2>4 DEF Inv
<1>2. Inv /\ [Next]_vars => Inv'
  BY TypesKept, GrownStays, LineageStays, FilesRightKept, OverviewCoversKept, ProgressKept DEF Inv
<1> QED BY <1>1, <1>2, PTL DEF Spec

(***************************************************************************)
(* For every runtime: the types, in which lies that a lookup returns a     *)
(* class only if it is loaded, and an implementation only of a class that  *)
(* is.                                                                     *)
(***************************************************************************)
THEOREM SessionTypes == Spec => []TypeOK
<1>1. Inv => TypeOK
  BY DEF Inv
<1> QED BY <1>1, SessionInductive, PTL

(***************************************************************************)
(* For every runtime: after a dump of the universe during whose enumeration*)
(* of the classes none was loaded, its files are there and the links in    *)
(* them to dot files land, whatever was loaded between its stages, and     *)
(* whatever single classes were dumped afterwards, but for files that could*)
(* not be opened and names that are shared.  The other links are those of  *)
(* the class table in universe.dot, to pages of the HTML dump.             *)
(***************************************************************************)
THEOREM FileLinksLand == Spec => []LinksLand
<1>1. Inv => LinksLand
  <2> SUFFICES ASSUME Inv, complete, NEW p \in Files!Pages, ~ Files!Excused(p)
               PROVE  /\ Files!Good(Files!FileName(p), p)
                      /\ \A l \in Files!Links(p) : \/ Files!Excused(l.to)
                                                   \/ Files!Good(l.name, l.to)
                                                   \/ Files!ToHtmlPage(p, l)
    BY DEF LinksLand, Files!LinksLand
  <2>1. \A t \in Files!Pages : Done(t)
    BY DEF Inv, Progress, Files!Pages
  <2>2. Files!Good(Files!FileName(p), p)
    BY <2>1 DEF Done
  <2>3. PICK f, file : f = Files!FileName(p) /\ file = files[f]
    OBVIOUS
  <2>4. f \in DOMAIN files /\ files[f].of = p /\ Fitting(file, p) /\ Files!Links(p) = file.links
    BY <2>2, <2>3 DEF Inv, FilesRight, Files!Good, Files!Links
  <2>5. \A l \in file.links : \/ l.name = Files!FileName(l.to) /\ l.to \in Targets(p)
                              \/ Files!ToHtmlPage(p, l)
    BY <2>4 DEF Fitting
  <2>6. \A l \in file.links : l.to \in Files!Pages \/ Files!ToHtmlPage(p, l)
    <3>1. CASE p = Files!Overview
      BY <3>1, <2>3, <2>4 DEF Inv, OverviewCovers
    <3>2. CASE p = Files!Universe
      BY <3>2, <2>5, ThingsDiffer DEF Targets, Files!Pages
    <3>3. ASSUME NEW c \in begun, p = Files!Class(c)
          PROVE  \A l \in file.links : l.to \in Files!Pages \/ Files!ToHtmlPage(p, l)
      <4>1. Family(c) \subseteq begun
        BY FamilyWithin DEF Inv, Grown, TypeOK, Files!TypeOK
      <4>2. Targets(p) = {Files!Class(d) : d \in Family(c)}
        BY <3>3, ThingsDiffer DEF Targets
      <4> QED BY <4>1, <4>2, <2>5 DEF Files!Pages
    <3> QED BY <3>1, <3>2, <3>3 DEF Files!Pages
  <2> QED BY <2>1, <2>2, <2>4, <2>5, <2>6 DEF Done
<1> QED BY <1>1, SessionInductive, PTL
================================================================================
