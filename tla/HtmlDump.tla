------------------------------- MODULE HtmlDump -------------------------------
(***************************************************************************)
(* The HTML dumps of mulle-objc-htmldump.c: of the universe, of a class    *)
(* with its superclasses, of one class pair.  The walker calls callback for*)
(* what it meets; the universe and every infraclass get a page of their    *)
(* own, and a stylesheet goes beside the pages.                            *)
(*                                                                         *)
(* The directory is a function from file names to what the dump wrote      *)
(* there; a page is known by what it shows and by the files it links to.   *)
(* Inside the class page: HtmlPage.                                        *)
(***************************************************************************)
EXTENDS Integers, Sequences, FiniteSets, Functions

CONSTANTS Infras,         \* the class pairs, named by their infraclass
          MixinClasses,   \* the root classes that are mixins (protocol classes)
          Markup,         \* the class names that contain '&' or '<'
          MaxMixins,      \* bound on the mixins of one class pair
          None,           \* NULL
          IsMember(_, _)  \* IsMember( added, p): does c_set_member find p?

Class    == Infras \X {"infra", "meta"}
Pair     == Infras \X {"pair"}
Universe == <<"universe", "universe">>
MixinLists == UNION {[1 .. k -> MixinClasses] : k \in 0 .. MaxMixins}

ASSUME HtmlDumpAssumption ==
  /\ MixinClasses \subseteq Infras /\ Markup \subseteq Infras
  /\ MaxMixins \in Nat
  /\ None \notin Infras /\ None \notin Class

VARIABLES super, mixins, closed,   \* the runtime; closed: DONT_INHERIT_PROTOCOLS
          job,        \* which dump, of which class
          cssUrl,     \* is MULLE_OBJC_CSS_URL set?
          known,      \* info.set
          cls, pairs, \* the class to go on with, the pairs the universe walk has left
          walk,       \* the pointers of a pair the walker has yet to visit
          files,      \* the files written
          failed,     \* the names that could not be opened
          pc          \* "walking", "css", "done" or "crashed"

runtime == <<super, mixins, closed, job, cssUrl>>
vars == <<runtime, known, cls, pairs, walk, files, failed, pc>>

Infra(i) == <<i, "infra">>
Meta(i)  == <<i, "meta">>

Superclass(c) ==
  IF super[c[1]] # None
    THEN <<super[c[1]], c[2]>>
    ELSE IF c[2] = "meta" THEN Infra(c[1]) ELSE None

\* a class is loaded after its superclass: there is no cycle of superclasses
Loadable(s) == \A C \in SUBSET Infras : C # {} => \E i \in C : s[i] \notin C

-------------------------------------------------------------------------------
(***************************************************************************)
(* Names and links.  html_escape gives every name with markup in it the    *)
(* same replacement.                                                       *)
(***************************************************************************)
\* faulty variant: the result of strchr taken the wrong way round
EscapesPlain(i) == IF i \in Markup THEN i ELSE "bad-html"
html_escape(i) == IF i \in Markup THEN "bad-html" ELSE i
PageName(i) == <<html_escape(i), "html">>
IndexName   == <<"index", "html">>
CssName     == <<"mulle-objc", "css">>

\* a page refers to the stylesheet beside it unless the environment names one
CssLink == IF cssUrl THEN {} ELSE {CssName}

IndexPage == [of |-> Universe, links |-> CssLink \union {PageName(i) : i \in Infras}]

MixinLinks(i) == IF i \in closed THEN {} ELSE {PageName(m) : m \in Range(mixins[i])}
SuperLink(i)  == IF super[i] = None THEN {} ELSE {PageName(super[i])}
ClassPage(i)  == [of |-> Infra(i),
                  links |-> CssLink \union {IndexName} \union SuperLink(i) \union MixinLinks(i)]

Style == [of |-> CssName, links |-> {}]

\* open_for_write, print, fclose; or perror, and the dump goes on without the file
Write(name, page) == files' = [f \in DOMAIN files \union {name} |->
                                 IF f = name THEN page ELSE files[f]]
WriteOrSkip(name, page) == \/ Write(name, page) /\ UNCHANGED failed
                           \/ failed' = failed \union {name} /\ UNCHANGED files

-------------------------------------------------------------------------------
Jobs == [dump : {"universe"}, start : {None}]
        \union [dump : {"class", "classpair"}, start : Class]

InitRuntime ==
  /\ super \in {s \in [Infras -> Infras \union {None}] : Loadable(s)}
  /\ \A m \in MixinClasses : super[m] = None
  /\ mixins \in [Infras -> {l \in MixinLists : IsInjective(l)}]
  /\ \A i \in Infras : i \notin Range(mixins[i])
  /\ closed \in SUBSET Infras

Init == /\ InitRuntime
        /\ job \in Jobs
        /\ cssUrl \in BOOLEAN
        /\ known = <<>>
        /\ cls = job.start
        /\ pairs = IF job.dump = "universe" THEN Infras ELSE {}
        /\ walk = IF job.dump = "universe" THEN <<Universe>> ELSE <<>>
        /\ files = <<>> /\ failed = {}
        /\ pc = "walking"

PairWalk(i) == <<<<i, "pair">>, Infra(i), Meta(i)>>

\* mulle_objc_universe_walk goes on to the next pair of the class table
WalkPair == /\ pc = "walking" /\ walk = <<>>
            /\ \E i \in pairs : walk' = PairWalk(i) /\ pairs' = pairs \ {i}
            /\ UNCHANGED <<runtime, known, cls, files, failed, pc>>

(***************************************************************************)
(* mulle_objc_classpair_htmldump_to_directory for the pair of cls.  Every  *)
(* call starts with an empty set.                                          *)
(***************************************************************************)
WalkOne == /\ pc = "walking" /\ walk = <<>> /\ cls # None
           /\ known' = <<>>
           /\ walk' = PairWalk(cls[1])
           /\ UNCHANGED <<runtime, pairs, files, failed, pc>>

\* faulty variants: the superclass is not checked for NULL; no superclass is
\* dumped; the loop stays where it is
WalkClassUnchecked == WalkOne /\ cls' = <<super[cls[1]], cls[2]>>
WalkClassOnly      == WalkOne /\ cls' = None
WalkClassStays     == WalkOne /\ cls' = cls

(***************************************************************************)
(* The class pair alone, or the loop of mulle_objc_class_htmldump_to_      *)
(* directory over the superclasses.                                        *)
(***************************************************************************)
WalkClass == WalkOne /\ cls' = IF job.dump = "class" THEN Superclass(cls) ELSE None

\* a class pair is dumped without a stylesheet
EndWalk == /\ pc = "walking" /\ walk = <<>> /\ pairs = {} /\ cls = None
           /\ pc' = IF job.dump = "classpair" THEN "done" ELSE "css"
           /\ UNCHANGED <<runtime, known, cls, pairs, walk, files, failed>>

(***************************************************************************)
(* callback for the next pointer.  A pointer that is in the set has been   *)
(* dealt with; mulle_objc_walk_dont_descend then skips what callback does  *)
(* nothing for anyway.                                                     *)
(***************************************************************************)
Callback(p) == /\ pc = "walking" /\ walk # <<>> /\ p = Head(walk)
               /\ known' = IF IsMember(known, p) THEN known ELSE Append(known, p)
               /\ walk' = Tail(walk)
               /\ UNCHANGED <<runtime, cls, pairs, pc>>

WriteUnlessKnown(p, name, page) ==
  IF IsMember(known, p) THEN UNCHANGED <<files, failed>> ELSE WriteOrSkip(name, page)

VisitUniverse == Callback(Universe) /\ WriteUnlessKnown(Universe, IndexName, IndexPage)

VisitInfra == \E i \in Infras :
                Callback(Infra(i)) /\ WriteUnlessKnown(Infra(i), PageName(i), ClassPage(i))

VisitOther == \E p \in Pair \union (Infras \X {"meta"}) :
                Callback(p) /\ UNCHANGED <<files, failed>>

(***************************************************************************)
(* write_css_if_needed.  It does not look at the result of fopen.          *)
(***************************************************************************)
css == /\ pc = "css"
       /\ UNCHANGED <<runtime, known, cls, pairs, walk, failed>>

SkipCss  == css /\ cssUrl /\ pc' = "done" /\ UNCHANGED files
WriteCss == css /\ ~ cssUrl /\ pc' = "done" /\ Write(CssName, Style)
CssFopenFails == css /\ ~ cssUrl /\ pc' = "crashed" /\ UNCHANGED files

Next == \/ WalkPair \/ WalkClass \/ EndWalk
        \/ VisitUniverse \/ VisitInfra \/ VisitOther
        \/ SkipCss \/ WriteCss \/ CssFopenFails

Spec == Init /\ [][Next]_vars

\* one thread runs the dump to its end
FairSpec == Spec /\ WF_vars(Next)

-------------------------------------------------------------------------------
Page == {IndexPage, Style} \union {ClassPage(i) : i \in Infras}

TypeOK == /\ known \in Seq(Class \union Pair \union {Universe})
          /\ cls \in Class \union {None}
          /\ pairs \in SUBSET Infras
          /\ walk \in Seq(Class \union Pair \union {Universe})
          /\ \A f \in DOMAIN files : files[f] \in Page
          /\ failed \subseteq {IndexName} \union {PageName(i) : i \in Infras}
          /\ pc \in {"walking", "css", "done", "crashed"}

(***************************************************************************)
(* "Generates an index and per-class HTML pages with linked navigation"    *)
(* "with CSS styling": when a dump is done no link of its pages goes to a  *)
(* file that is not there, except to those that could not be opened.  The  *)
(* links are written by the pages of other classes, and before the file    *)
(* they go to.                                                             *)
(*                                                                         *)
(* For a universe this is so of all links.  A class dump has a page for the*)
(* class and for all its superclasses, so every superclass link lands, also*)
(* from a metaclass, whose chain ends at the root infraclass.  The page of *)
(* a class pair stands alone, and is the one that lacks its stylesheet.    *)
(***************************************************************************)
There(names) == names \subseteq DOMAIN files \union failed

UniverseLinksLand == \A f \in DOMAIN files : There(files[f].links)
StartsThere       == There({PageName(job.start[1])})
SuperLinksLand    == \A i \in Infras : PageName(i) \in DOMAIN files => There(SuperLink(i))
Styled ==
  \A f \in DOMAIN files : CssName \in files[f].links => CssName \in DOMAIN files

LinksLand ==
  pc = "done" => CASE job.dump = "universe"  -> UniverseLinksLand /\ Styled
                   [] job.dump = "class"     -> StartsThere /\ SuperLinksLand /\ Styled
                   [] job.dump = "classpair" -> StartsThere /\ (cssUrl => Styled)

(***************************************************************************)
(* A page stays what it is: no later step of the walk overwrites it with   *)
(* the page of something else.  The file names must not collide for that.  *)
(***************************************************************************)
NoPageReplaced == [][\A f \in DOMAIN files : f \in DOMAIN files' /\ files'[f] = files[f]]_vars

(***************************************************************************)
(* One callback that cannot open its file costs that file only: the index  *)
(* and every other class of the universe still have their own page.        *)
(***************************************************************************)
Shows(name, x) == name \in DOMAIN files /\ files[name].of = x
OnlyFailedMissing ==
  pc = "done" /\ job.dump = "universe" =>
    /\ IndexName \in failed \/ Shows(IndexName, Universe)
    /\ \A i \in Infras : PageName(i) \in failed \/ Shows(PageName(i), Infra(i))

(***************************************************************************)
(* "we happy if we don't crash" (test/30-dump/dump-html.m:44).             *)
(***************************************************************************)
NoCrash == pc # "crashed"

(***************************************************************************)
(* What a dump still has to do.  A class pair takes a step of the walker   *)
(* and three callbacks; the class dump has the superclasses ahead of it,   *)
(* and from a metaclass the root infraclass at the end.                    *)
(***************************************************************************)
Upwards(i) == {j \in Infras : \A C \in SUBSET Infras :
                 i \in C /\ (\A k \in C : super[k] # None => super[k] \in C) => j \in C}

ClassesLeft ==
  CASE cls = None -> 0
    [] cls # None /\ job.dump # "class" -> 1
    [] OTHER -> Cardinality(Upwards(cls[1])) + (IF cls[2] = "meta" THEN 1 ELSE 0)

StepsOfCaller == CASE pc = "walking" -> 2 [] pc = "css" -> 1 [] OTHER -> 0

(***************************************************************************)
(* Every step brings the end closer: the loop over the superclasses never  *)
(* comes to a class it has been at, nor the universe walk to a pair.       *)
(***************************************************************************)
StepsLeft   == 4 * (Cardinality(pairs) + ClassesLeft) + Len(walk) + StepsOfCaller
WorkShrinks == [][StepsLeft' \in 0 .. StepsLeft - 1]_vars

(***************************************************************************)
(* The dump ends, well or not.                                             *)
(***************************************************************************)
Terminates == <>(pc \in {"done", "crashed"})
===============================================================================
