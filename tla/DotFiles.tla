------------------------------- MODULE DotFiles -------------------------------
(***************************************************************************)
(* The files of the DOT dumps of mulle-objc-dotdump.c: a dump of the       *)
(* universe writes overview.dot, universe.dot and one file for each class, *)
(* a dump of a class writes the file of that class.  Classes are loaded    *)
(* between dumps and, by other threads, in the middle of one.  What a file *)
(* shows of a class is DotDump's matter; here a file is what it is about   *)
(* and what it links to.                                                   *)
(***************************************************************************)
EXTENDS Naturals, FiniteSets

CONSTANTS Classes,      \* the names of the classes
          Super,        \* of each class: its superclass, or None
          Mixins,       \* of each class: the set of its mixins
          Closed,       \* the classes with DONT_INHERIT_PROTOCOLS
          Markup,       \* the class names that contain '&' or '<'
          None,         \* NULL
          Errnos,       \* the values of errno
          MaxDumps,     \* bound on the dumps
          MaxFailures   \* bound on the fopens that fail

\* what the constants have to be; assumed where they get their values
ConstantsOK ==
  /\ Super \in [Classes -> Classes \union {None}] /\ Mixins \in [Classes -> SUBSET Classes]
  /\ Markup \subseteq Classes /\ Closed \subseteq Classes /\ None \notin Classes
  /\ MaxDumps \in Nat /\ MaxFailures \in Nat

VARIABLES loaded,     \* the class table
          pc,         \* "idle", or the file the universe dump is at
          begun,      \* the class table when the last universe dump began to enumerate it
          visited,    \* the classes the enumeration has come to
          files,      \* the directory: a function from file names
          failed,     \* what the last dump could not open the file of
          complete,   \* has a universe dump come to its end, its enumeration undisturbed,
                      \* and no other begun since?
          reported,   \* the last "Written dot file" message
          dumps, failures,
          errno

vars == <<loaded, pc, begun, visited, files, failed, complete, reported, dumps, failures, errno>>

-------------------------------------------------------------------------------
(***************************************************************************)
(* What there can be a file about, by name.                                *)
(***************************************************************************)
Overview == <<"overview", "page">>
Universe == <<"universe", "page">>
Class(c) == <<c, "class">>
Things   == {Overview, Universe} \union {Class(c) : c \in Classes}

html_escape(name) == IF name \in Markup THEN "bad-html" ELSE name

\* faulty variant: the name is not escaped, while the links to it are
UnescapedFileName(thing) == <<thing[1], "dot">>

\* mulle_buffer_append_dot_filename_for_name
FileName(thing) == <<html_escape(thing[1]), "dot">>

\* the URLs in the file escape the name in places of their own
Url(thing) == <<html_escape(thing[1]), "dot">>
ByUrl(linked) == {[name |-> Url(t), to |-> t] : t \in linked}
File(thing, linked) == [of |-> thing, links |-> ByUrl(linked)]

\* a row of the class table links to a page as the HTML dump names it
HtmlUrl(thing) == <<html_escape(thing[1]), "html">>
ClassTable == {[name |-> HtmlUrl(Class(c)), to |-> Class(c)] : c \in loaded}

Above[c \in Classes] == IF Super[c] = None THEN {} ELSE {Super[c]} \union Above[Super[c]]
OpenMixins(c) == IF c \in Closed THEN {} ELSE Mixins[c]

OverviewFile == File(Overview, {Universe} \union {Class(c) : c \in loaded})
UniverseFile == [of |-> Universe, links |-> ByUrl({Overview}) \union ClassTable]

\* SHOW_ALL|SHOW_HYPERLINK: the class in full, its mixins and superclasses as links
LinkedFile(c) == File(Class(c), {Class(d) : d \in {c} \union OpenMixins(c) \union Above[c]})

\* the default: all of them in full, hence with their own mixins, and all with a FILELINK
MixinClosed(S) == \A d \in S : OpenMixins(d) \subseteq S
Drawn(c) == {d \in Classes : \A S \in SUBSET Classes :
                               {c} \union Above[c] \subseteq S /\ MixinClosed(S) => d \in S}
FullFile(c) == File(Class(c), {Class(d) : d \in Drawn(c)})

-------------------------------------------------------------------------------
Init == /\ loaded = {} /\ begun = {} /\ visited = {}
        /\ pc = "idle"
        /\ files = <<>> /\ failed = {}
        /\ complete = FALSE /\ reported = None
        /\ dumps = 0 /\ failures = 0
        /\ errno \in Errnos

\* a class is loaded after its superclass and its mixins
Load == /\ \E c \in Classes \ loaded :
             /\ Super[c] \in loaded \union {None} /\ Mixins[c] \subseteq loaded
             /\ loaded' = loaded \union {c}
        /\ UNCHANGED <<pc, begun, visited, files, failed, complete, reported, dumps, failures, errno>>

Begin == pc = "idle" /\ dumps < MaxDumps /\ dumps' = dumps + 1

\* fopen( filename, "w"), write, fclose; errno is whatever the C library left there
Write(thing, file) ==
  /\ files' = [f \in DOMAIN files \union {FileName(thing)} |->
                 IF f = FileName(thing) THEN file ELSE files[f]]
  /\ failed' = failed \ {thing}
  /\ errno' \in Errnos
  /\ UNCHANGED failures

\* perror, and the dump goes on without the file
FopenFails(thing) ==
  /\ failures < MaxFailures /\ failures' = failures + 1
  /\ failed' = failed \union {thing}
  /\ errno' \in Errnos
  /\ UNCHANGED files

BeginUniverse == /\ Begin
                 /\ pc' = "overview"
                 /\ failed' = {} /\ begun' = {} /\ complete' = FALSE
                 /\ UNCHANGED <<loaded, visited, files, reported, failures, errno>>

\* "Written dot file" for the overview, if it was
DumpOverview ==
  /\ pc = "overview" /\ pc' = "universe"
  /\ \/ Write(Overview, OverviewFile) /\ reported' = Overview
     \/ FopenFails(Overview) /\ UNCHANGED reported
  /\ UNCHANGED <<loaded, begun, visited, complete, dumps>>

\* log is 0
DumpUniverse ==
  /\ pc = "universe" /\ pc' = "table"
  /\ Write(Universe, UniverseFile) \/ FopenFails(Universe)
  /\ UNCHANGED <<loaded, begun, visited, complete, reported, dumps>>

\* mulle_concurrent_hashmap_for begins
Enumerate ==
  /\ pc = "table" /\ pc' = "classes"
  /\ begun' = loaded
  /\ UNCHANGED <<loaded, visited, files, failed, complete, reported, dumps, failures, errno>>

(***************************************************************************)
(* While no class is loaded the enumeration comes to each class once.  If  *)
(* one is, what it does is up to the library the table is from: it may come*)
(* to the new class or not, to one again, or end early, which the loop does*)
(* not tell from its end.                                                  *)
(***************************************************************************)
Undisturbed == loaded = begun

DumpClass ==
  /\ pc = "classes"
  /\ \E c \in loaded :
       /\ Undisturbed => c \notin visited
       /\ visited' = visited \union {c}
       /\ Write(Class(c), LinkedFile(c)) \/ FopenFails(Class(c))
  /\ UNCHANGED <<loaded, pc, begun, complete, reported, dumps>>

End == /\ pc = "classes" /\ (Undisturbed => begun \subseteq visited)
       /\ pc' = "idle" /\ visited' = {} /\ complete' = Undisturbed
       /\ UNCHANGED <<loaded, begun, files, failed, reported, dumps, failures, errno>>

(***************************************************************************)
(* mulle_objc_class_dotdump_to_directory, with the default options or with *)
(* those of a universe dump.  Its message comes in any case.               *)
(***************************************************************************)
DumpOneClass ==
  /\ Begin
  /\ \E c \in loaded :
       /\ \/ \E file \in {LinkedFile(c), FullFile(c)} : Write(Class(c), file)
          \/ FopenFails(Class(c))
       /\ reported' = Class(c)
  /\ UNCHANGED <<loaded, pc, begun, visited, complete>>

Next == Load \/ BeginUniverse \/ DumpOverview \/ DumpUniverse \/ Enumerate \/ DumpClass \/ End
        \/ DumpOneClass

-------------------------------------------------------------------------------
Links(thing) == IF FileName(thing) \in DOMAIN files THEN files[FileName(thing)].links ELSE {}

TypeOK == /\ loaded \subseteq Classes /\ begun \subseteq loaded /\ visited \subseteq loaded
          /\ pc \in {"idle", "overview", "universe", "table", "classes"}
          /\ \A f \in DOMAIN files : files[f].of \in Things
          /\ failed \subseteq Things
          /\ complete \in BOOLEAN
          /\ reported \in Things \union {None}
          /\ dumps \in 0 .. MaxDumps /\ failures \in 0 .. MaxFailures
          /\ errno \in Errnos

\* two things that are there have one file name
Known == {Overview, Universe} \union {Class(c) : c \in loaded}
Shared(thing) == \E t \in Known \ {thing} : FileName(t) = FileName(thing)
Good(name, thing) == name \in DOMAIN files /\ files[name].of = thing

\* the class table in universe.dot links to pages of the HTML dump
ToHtmlPage(p, l) == p = Universe /\ l.name = HtmlUrl(l.to)

(***************************************************************************)
(* After a dump of the universe each of the files it is made of is there,  *)
(* and every link in it to a dot file leads to a file about what it names: *)
(* from the overview to the classes, though those are enumerated later and *)
(* more may have been loaded by then, to superclasses and mixins, and back.*)
(* The exceptions are files that could not be opened; names that are       *)
(* shared: with another class through html_escape, or with overview.dot and*)
(* universe.dot; and the links of the class table in universe.dot, which   *)
(* lead to .html files that no DOT dump writes.  Dumps of single classes,  *)
(* with other links in them, and classes loaded afterwards do not spoil    *)
(* this.  Nothing is claimed of a dump with classes loaded while the class *)
(* table was enumerated.                                                   *)
(***************************************************************************)
Pages == {Overview, Universe} \union {Class(c) : c \in begun}
Excused(thing) == thing \in failed \/ Shared(thing)
LinksLand ==
  complete =>
    \A p \in Pages : \/ Excused(p)
                     \/ /\ Good(FileName(p), p)
                        /\ \A l \in Links(p) : \/ Excused(l.to)
                                               \/ Good(l.name, l.to)
                                               \/ ToHtmlPage(p, l)
===============================================================================
