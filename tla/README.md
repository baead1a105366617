# TLA+ models of mulle-objc-debug

mulle-objc-debug draws pictures of a running mulle-objc program: Graphviz files
and HTML pages of its classes, methods, tables and class hierarchies, plus a few
lookups for debuggers. The library keeps no state between two dumps, except for
one frame counter. What can go wrong in it happens inside a dump: a graph that
has shared nodes and cycles is walked by a runtime walker that calls back, by a
recursion of the library's own, or by both into one output, with a home-grown
pointer set as the only memory of what has been output, and with files that may
fail to open on the way.

Line numbers below are those of `src/src/`.

## Inventory

| Component | State it keeps | Operations | Talks to |
| --- | --- | --- | --- |
| **c_set** (`c-set.inc`) | array of pointers, count, sorted flag | init, add, member (scan below two pointers, else sort on demand and binary search), done | used by all dumpers |
| **Class hierarchy dump** (`mulle-objc-dotdump.c:1263-1458`) | the class set; per activation the class, how it was reached, a mixin counter | dump to file or stream; recursion over superclass and mixins | c_set, runtime mixin walker |
| **Overview, class and universe dot dumps** (`mulle-objc-dotdump.c:317-1035, 1121-1144`) | the set, the options, which change while walking | `dotdump_callback`; drawing of universe, infraclass, metaclass, hyperlinked class, mixins, pair | c_set, runtime walkers |
| **Files of the universe dot dump** (`mulle-objc-dotdump.c:963-1219`) | the files in the directory | overview file, universe file, a file per class of the class table | the dumps above; the class table, which may grow meanwhile |
| **Frame dump** (`mulle-objc-dotdump.c:1234-1257`) | a static atomic counter | number a frame, write it unless beyond `MULLE_OBJC_DOTDUMP_MAX` | universe dump; may be called by several threads |
| **HTML dump** (`mulle-objc-htmldump.c`) | the set; the files in the directory | dump universe, class with superclasses, class pair; stylesheet | c_set, runtime walkers |
| **HTML class page** (`mulle-objc-htmldump.c:443-673`) | a local count | sections of lists, identifiers, caches | table renderers |
| **HTML table renderers** (`mulle-objc-html.c`) | within a call: rows collected, sorted and freed | a renderer per runtime structure; iteration over arrays, maps, tables | both dumpers |
| **Debugger lookups** (`mulle-objc-gdb.c`) | none (errno is saved and restored) | look up class, selector, implementation | runtime |
| **Debug session** | the stopped program: its errno, its caches, the class table | the debugger stops the program, calls lookups and dumps in it, lets it go on | lookups and dumps |
| **Type info, method list dump** (`mulle-objc-typeinfodump.c`, `mulle-objc-dotdump.c:1466-1491`) | none | print one structure | - |
| **lldb lookups** (`mulle-objc-lldb.c`) | - | compiled out by `#if 0` | - |

The runtime itself (class graph, mixin lists, walkers) is another repository.

### What makes each component correct, and what is hard about it

* **c_set** should be a set. The sort compares signed words and the search
  unsigned ones; the flag, the order of the array and the search interval must
  agree; the answer is the first word of the object found, not the pointer.
* **Hierarchy dump**: each class once, after its superclass, with everything that
  belongs to it, and an end to the recursion: over diamonds and cycles of
  mixins, and across the wrap-around from the root metaclass to the root
  infraclass. A counter is shared with everything dumped between two mixins.
* **Dot dumps**: two traversals (walker and mixin recursion) share one set and
  one output. A graph is closed only if a later callback outputs what an earlier
  one pointed at; the options change between two pairs.
* **Frame dump**: threads race for numbers, and the number is an `int`.
* **HTML dump**: links are written before the files they go to; names are
  escaped separately for files and links; any file may fail to open.
* **Files of the universe dump**: three kinds of files are written in sequence
  and link to each other; each may fail to open, a class name may be that of
  another file, and classes may be loaded while the table is enumerated.
* **HTML class page**: four sections share one local variable.
* **Renderers**: opening and closing tags are written under different
  conditions; rows are allocated, sorted and freed by hand; the same code
  serves HTML and Graphviz, and callers with and without a table of their own.
* **Lookups**: must not disturb the program that is being debugged: errno and
  the caches stay as they were found, over any number of calls.

The documentation asks for a quiescent program during a dump ("The runtime must
not be modifying classes during the dump", `quirks.md`), so a single dump is
modelled as sequential code over a runtime that does not change. Its difficulty
is in long sequences, order, staleness and partial failure. There are three
places with interleavings: the frame counter, which any number of threads may
take; the universe dump to a directory, which takes long and enumerates a table
made for concurrent use (`mulle_concurrent_hashmap_for`), so classes are loaded
between its steps; and the debugger, which stops the program
anywhere and calls into it. Nothing is persisted, so there is no recovery to
model. `PROJECT.json` lists the hazards line by line.

## Modules

| Module | Models | State and actions in the code |
| --- | --- | --- |
| `PointerSet` | what callers expect of c_set (abstract) | the set of addresses; `Add`, `Ask`/`Reply`, `Clear` |
| `CSet` | c_set, one action per operation and per turn of a loop | `n`, `storage`, `sorted` are the struct; `first`, `last` the locals of `voidptr_bsearch` (`first` also the scan position); `Add` = `c_set_add`, `Member`/`ScanStep`/`ScanEnds` = `c_set_member`, `Sort` = `c_set_member2`, `SearchStep`/`SearchEnds` = `voidptr_bsearch` |
| `CSetAnswer` | the answer of `c_set_member` as a function, for the dump modules | the sorted array by rank: its k-th word is the one that fewer than k words sort before; `Probes` is `voidptr_bsearch` as a recursive function over the interval |
| `DotHierarchy` | the hierarchy dump | `stack` holds the activations of `_mulle_buffer_dot_hierarchy`, `known` the class set; `Open` starts, `VisitSuper`, `VisitMixin`, `PrintClass` are the three parts of an activation |
| `DotDump` | overview, class and universe dots | `walk`/`pairs`/`cls` are the walker's and the loop's progress; `CallbackKnown`, `VisitUniverse`, `VisitPair`, `VisitInfra`, `VisitMeta` are `dotdump_callback`; `DrawHead`, `DrawMixin`, `DrawTail` the parts of `dot_infraclass`/`dot_metaclass` |
| `FrameDump` | the frame counter and its files | one `pc` per thread; `TakeNumber` is the atomic increment |
| `HtmlDump` | pages, links, stylesheet, open failures | `files` is the directory; `VisitUniverse`, `VisitInfra`, `VisitOther` are `callback`; `WriteCss`, `SkipCss`, `CssFopenFails` are `write_css_if_needed` |
| `HtmlPage` | the sections of a class page | one action per section, `n` is the local variable |
| `HtmlTable` | a call of a table renderer | `call` is the renderer with its arguments, `at` and `k` the place in it, `rows`/`heap` the collected strings, `read` how far the header array was read, `out` the markup; `Header`, `ColumnHeader`, `FixedPart`, `DirectRow` (written at once) or `CollectRow`, `SortRows`, `EmitRow`, then `Close` |
| `DotFiles` | the files of the universe and class dot dumps | `loaded` is the class table, `pc` the file the dump is at, `files` the directory; `BeginUniverse`, `DumpOverview`, `DumpUniverse`, `Enumerate`, `DumpClass`, `End` are `mulle_objc_universe_dotdump_to_directory`, `DumpOneClass` is `mulle_objc_class_dotdump_to_directory`, `Load` another thread |
| `GdbLookup` | the debugger's lookups | `LookupClass`, `LookupSelector`, `SelGetAnyUid`, `LookupImplementation`; `errno`, `filled` (caches written), `answer` |
| `DebugSession` | composition of `DotFiles` and `GdbLookup` in a program that is stopped and resumed | `Call` is the program, `Stop` and `Resume` the debugger; `Dump`, `AskForImplementation`, `AskForName` are the actions of the two modules (`INSTANCE`), sharing `loaded` and `errno` |
| `CSet_proofs`, `DotHierarchy_proofs`, `DotDump_proofs`, `FrameDump_proofs`, `HtmlDump_proofs`, `HtmlPage_proofs`, `HtmlTable_proofs`, `DebugSession_proofs` | theorems | - |
| `MCCSet`, `MCDotHierarchy`, `MCDotDump`, `MCFrameDump`, `MCHtmlDump`, `MCHtmlTable`, `MCDebugSession` | values of the constants | - |

`CSet` implements `PointerSet` (`ImplementsSet`). The dump modules take the
set's answer as a constant operator `IsMember(added, p)`. The MC modules give
it the value `Found`, the answer of `CSetAnswer` on addresses of the classes, and
`cset_mixed` checks `CSetAnswer` against `CSet` step by step
(`StepsAgreeWithAnswer`, proved for every heap). The proofs about the dumps take
the set to be exact (`MemberExact`). `ObjectsAreFound` in `CSet_proofs` shows that
this is what `CSetAnswer` answers, for any number of objects at addresses of their
own on one side of the sign bit: the addresses of the runs, and user space.

Definitions under a comment "faulty variant" are not part of a specification.
Each is a plausible mistake in the definition after it; replacing the definition
by the variant must make TLC report the property paired with it under "mutants"
in `PROJECT.json`.

### What is abstracted

* The runtime: `super`, `mixins` and `closed` are chosen in `Init` and never
  change; in `DebugSession` they are constants, and classes are loaded one by one
  in the order the runtime allows. Superclasses have no cycle (a class is loaded after its superclass);
  mixins are root classes and may adopt each other in cycles. A metaclass's
  superclass is the superclass's metaclass, at the root the root infraclass.
  `get_metaclass` and `get_infraclass` return the other half of a pair or NULL.
* The walkers: `mulle_objc_universe_walk` meets the universe, then each pair;
  `mulle_objc_classpair_walk` the pair, its infraclass, its metaclass. After
  "don't descend" on an infraclass `DotDump` lets the walker go on to the
  metaclass or not (`HtmlDump` does nothing for a metaclass). Methods, properties and ivars, for which both callbacks do
  nothing but remember the pointer, are left out.
* The tables hanging off a class are one node per kind in `DotDump`; in
  `HtmlPage` a list is its number of entries, and in `DotFiles` a file is what it
  is about and what it links to. Styles, wording and layout of the nodes are left
  out.
* Markup is a sequence of tokens in `HtmlTable`: a table with its columns, a row
  with the widths of its cells and what Graphviz would not take, an end tag. Only
  the names are texts (character codes), because rows are sorted as texts.
* The runtime's lookups, called by `GdbLookup`, may set errno to anything; those
  without "nofill" in their name may fill a cache.
* Machine words are numbers below `2 * Half`; int of the frame number below
  `2 * IntHalf`; both wrap as in C.
* A failing `realloc` aborts (`AddAborts`); a failing `fopen` is an alternative
  of every action that opens a file.
* The deadlock check is off in all runs: a dump ends, or aborts, and then there
  is no next step.

## Runs

| Run | Question | Bounds |
| --- | --- | --- |
| `cset` | Does c_set answer like a set, and implement one, below the sign bit? | 4 addresses, 4 adds (duplicates included), so scan, sort and searches of depth 3 occur, and adds between searches |
| `cset_mixed` | What remains true on any heap? Does `CSetAnswer` describe it? Does each turn of the search at least halve what is left? | 2 addresses below and 2 above the sign bit, one with a zero first word, 4 adds |
| `dot_hierarchy` | Is the output one complete, ordered tree? Does the dump end? | all graphs over 2 classes and 2 mixins, up to 2 mixins each: chains, diamonds, 2-cycles; every start class |
| `dot_dump` | Are the graphs closed, without duplicates, with the right things in full? Does every step leave less to do, and the dump end? | all graphs over 3 pairs with 2 mixins, 7 option sets, all dumps |
| `frame_dump` | Do threads get their own frames, and the first ones only? | 3 threads, 3-bit ints, 9 calls: the number turns negative at the fifth and repeats at the ninth |
| `frame_dump_directory` | finding: the directory is ignored | as above |
| `html_dump` | Do links land, does a failure stay local? Does the dump end? | all graphs over 3 pairs with 2 mixins, one name with markup, any subset of files failing |
| `html_dump_crash` | finding: an unchecked `fopen` | 2 pairs |
| `html_page` | Which lists does a page show? | up to 2 lists of up to 1 entry for each of 4 sections: own list and one category's |
| `html_page_methods` | finding: method lists are skipped by another section's count | as above |
| `html_table` | Is every table well formed, complete, in order, and in the dialect of its reader? | every use of a renderer by the two dumpers and with a caller's table, all sets of four flags (terse, fields, category, metaclass), lists of up to 3 of 5 names, 2 slots in a cache or a fast class table, up to 2 classes in each list of classes to load |
| `debug_session` | Do the links between the dot files of a universe dump land, do lookups return what is loaded, do implementation lookups leave no trace? | 4 classes, among them a mixin with markup in its name and a class named "overview"; classes loaded between any two steps; 2 dumps, 1 failing `fopen`, 1 stop, 1 method id, 1 watched cache, 2 values of errno, which are symmetric: no code compares them |

Four classes are enough for every shape the traversals distinguish: a class
reached as superclass and as mixin, a mixin of a mixin, a cycle through two
mixins, a superclass of a superclass. A longer chain or cycle repeats the same
steps on the stack, and the theorems cover it for the properties proved. The
five names of `html_table` are one that continues another with a character below
`<`, one that does so above, and two that are escaped to the same text; three of
them make every outcome of the sort. A list of classes to load starts with the
name of its first class, which differs from list to list, so the names behind it
do not matter to the order and the list is a number of rows; none, one and two
are the cases. Two dumps let a class dump follow, or precede, a universe
dump and replace one of its files. One failure is enough:
what a failure does to a page does not depend on another failure.

### The set and its two conditions

`MemberCorrect` holds under `OneHalf` (all addresses on one side of the sign
bit) and `NonzeroFirst` (no object starts with a zero word). The passing dump
runs place all addresses below the sign bit, as on 64-bit systems, where user
space lies there. What remains without the conditions is `NoFalseMember`: a dump may
repeat an object, it never leaves one out.

`DeclaredOnce` has one exception, `MayRepeat`: the metaclass of a mixin is drawn
next to its infraclass without entering the set (lines 531-532), so a walker
that comes by later draws it again. `EdgesLand` excludes two kinds of nodes in
a class dump (`MayBeMissing`): the universe, if `MULLE_OBJC_SHOW_UNIVERSE` is asked
for, since the walk of a class dump never meets it; and with metaclasses and mixins
shown but no infraclasses, the infraclass of a mixin, which enters the set when the
walk passes over it (894-903) and is taken for known when a class it is a mixin of
points at it (525-533). Edges to all other nodes land in these dumps, too. The
attempt to prove `EdgesLand` found the second.

### Exceptions named in the properties

A property that the code does not keep everywhere names the places where it does
not, as narrowly as TLC lets it.

* `DotFiles!LinksLand` excuses files that could not be opened and names that are
  shared, through `html_escape` or with `overview.dot` and `universe.dot`; and the
  class table in `universe.dot`, whose rows link to `<name>.html` (`ToHtmlPage`;
  `mulle-objc-dotdump.c:424-438`, `mulle-objc-html.c:331-336`). Nothing is claimed of
  a dump with classes loaded while it enumerated the class table: what the
  enumeration does then is up to the hash map of mulle-concurrent, another
  repository, and `DumpClass` and `End` leave it open (`Undisturbed`).
* `HtmlDump!LinksLand`: the page of a class pair stands alone. Its superclass
  links need not land, and it has no stylesheet (`mulle-objc-htmldump.c:788`),
  against `dox/api/toc/index.md:133`.
* `ListsShown` is the other side of the finding of `html_page_methods`: it pins
  down the only case in which a list is missing from the page: the ivar section
  counted one list, and the method list at the front is empty.
* `WellFormed`: without a style the property list closes a table that it did not
  open (`mulle-objc-html.c:804`); the index page puts a TABLE directly into a
  TABLE (`mulle-objc-htmldump.c:345` and after), and so do the classes to load;
  the first two rows of a cache are one column wider than the table (829, 833).
* `GraphvizDialect`: the selectors' table has CSS classes and TH cells in a DOT
  label, the classes' table has links to HTML pages.
* `EdgesLand`: two kinds of nodes in class dumps, see above.
* `NamesInOrder`: rows are sorted as markup, so "foo:" stands above "foo": a name
  comes before one it continues with a character below what follows the name, a
  `<`, in the links of classes a `.`, after an id in quotes a `"`. The attempt to
  prove it found the last two.
* `StepsAgreeWithAnswer` pins down what c_set answers on a heap that spans the
  sign bit: it sorts signed and searches unsigned (`c-set.inc:80-83` against
  `103-105`), so members may be overlooked there and "output each class only
  once" (`mulle-objc-dotdump.c:1312`) does not hold.

### Findings

1. **Frames ignore their directory** (`mulle-objc-dotdump.c:1254`), against the
   example in `patterns.md:59`.
2. **`write_css_if_needed` does not check `fopen`** (`mulle-objc-htmldump.c:236`),
   against "we happy if we don't crash" (`test/30-dump/dump-html.m:44`).
3. **The method sections test the ivar section's count**
   (`mulle-objc-htmldump.c:580, 607`): a category's methods can be missing from
   the page, against `howto/coder/mulle-objc-debug/index.md:4`.

Seen while modelling, without a run:

* The implementation column of a method list and `mulle_objc_methodlist_dump`
  print the address of the slot, `&list->methods[ j].value`
  (`mulle-objc-html.c:907, 1011`), where `dox/api/toc/index.md:268` speaks of
  "implementation pointers".
* The lookup's guard tests the constant `MULLE_OBJC_NO_METHODID`
  (`mulle-objc-gdb.c:87`), so every id is searched for.
* The class table in `universe.dot` links each class to an HTML page. A DOT dump
  writes no such page, so the links lead nowhere unless an HTML dump went to the
  directory the pictures are read from.
* `dox/api/toc/index.md:178` and `497` say that header arrays are
  NULL-terminated. Those in the code are not; `HeadersRead` shows that the count
  of columns keeps the loop inside them.

### Fairness

Liveness (`Terminates`, and the liveness part of `ImplementsSet`) assumes weak
fairness of the whole next-state relation of a dump, or of the lookup's steps: one
thread runs the code and nothing in it blocks. `FrameDump`, `HtmlPage`, `HtmlTable` and `DebugSession` state no
liveness and assume nothing; an enumeration of a table into which others keep
loading may take as long as they do.

## Proofs

`tlapm` checks the modules named `_proofs`. The theorems hold for every set of
addresses, classes or threads and every bound.

* `CSet_proofs`. `TypeCorrect` (types). `ProbesStayInBounds` and
  `NoLookupInvents` need no assumption on memory. `LookupIsCorrect`
  (`MemberCorrect`) and `CSetIsASet` (every step is a step of `PointerSet` or a
  stutter) assume `OneHalf` and `NonzeroFirst`. `MemberCorrect` is not
  inductive: the invariant adds that the sorted flag means order, that the
  search interval lies within the array, and `Narrowed`, that everything outside
  the interval differs from the pointer looked up. The last follows from the
  order only if signed and unsigned comparison agree: this is where `OneHalf`
  enters. `SearchHalves` (`LookupHalves`) holds on any heap and in any order of the
  array.
  The second half of the module is about `CSetAnswer`, again without assumption on
  memory. `AnswerIsExact`: it never invents a member, and misses none on one side
  of the sign bit. Every rank is taken by one word (`RankTaken`, `RanksDiffer`), so
  the sorted array is in order and keeps the words added (`SortedSlots`,
  `SortSorts`); and a search through an array that is in order by the comparison it
  makes finds what is there (`ProbesFind`), or there would be a smallest interval in
  which it does not.
  `AnswerIgnoresOrder`: the order of the adds makes no difference, since a rank is
  a number of words. `LookupAgreesWithAnswer` (`StepsAgreeWithAnswer`) rests on the
  invariant `Agreeing`: what is left of the array to look at decides what the whole
  array decides, and a sorted array is the one `CSetAnswer` speaks of.
* `DotHierarchy_proofs`. `EachClassOnce` (`EachOnce`) and `HierarchyTypes`
  assume `MemberExact`. The invariant says that the stack is a chain of distinct
  classes, all in the set and none printed, and that every printed class is in
  the set; a class enters the set exactly when it enters the stack. The second
  half of the module builds on it, under the same assumption. `SuperclassesAbove` (`SuperAbove`) and `HierarchyComplete` (`AllDumped`) need
  the shape of the class graph: superclasses are well-founded and mixins are
  roots (`ClassGraph`). The set does not tell an active class from a printed one,
  so a superclass that is in the set could be one whose output is still to come.
  The heart of the proof is that it never is (`NoWayBack`, `SuperNotActive`): the
  superclasses that are followed do not lead back to an active class, whatever
  cycles the mixins make, and across the step from the root metaclass to the
  root infraclass. The invariant adds for each activation whether its superclass
  and the mixins below its counter are in the set, and that every class in the
  set is active or printed. `HierarchyIsATree` (`OneTree`) adds where the edges
  go: a class printed is tied to one that is printed or on the stack, and the
  counter of an activation is one ahead of the mixin edges into its class
  (`TreeInv`); no edge goes to a class that is not in the set yet, so a new
  activation counts from one. `HierarchyDumpEnds` (`WorkShrinks`) also assumes that
  there are finitely many classes. What is left to do (`StepsLeft`) is every part of
  a class that is not in the set and the parts before the activations on the stack;
  a class that is called was not in the set, so its parts had been counted.
* `FrameDump_proofs`, without assumption. `FramesStay` (`NeverOverwritten`): as
  long as the counter has not gone round it equals the number of calls, and every
  number below it belongs to at most one thread or file (`Ownership`).
  `FilmComplete` (`FilmHasNoHoles`): each number up to the maximum is with a
  thread that has yet to open its file, in a file, or skipped (`Film`).
  `FrameTypes`: types.
* `HtmlDump_proofs` assumes `MemberExact` and `NamesDiffer`: the page names are
  distinct and none is the index's. `HtmlLinksLand` (`LinksLand`),
  `UniverseComplete` (`OnlyFailedMissing`) and `PagesStay` (`NoPageReplaced`) come
  from one invariant: every file is the page its name says, what is in the set
  has its page or its failure, and what is not has yet to be visited. In a class
  dump the loop is one superclass ahead of the pages. `HtmlDumpEnds`
  (`WorkShrinks`) needs neither of the two assumptions, only finitely many classes:
  it follows from the class graph and the walk (`Walkable`), whatever the set
  answers and whichever files fail to open. The classes ahead of the loop are the
  least set that is closed under going up (`Upwards`); a superclass has a smaller
  one, because superclasses have no cycle.
* `DotDump_proofs` assumes `MemberExact`. `DotDeclaredOnce`,
  `DotOnlyRequestedInFull`, `DotEdgesLand`, `DotAllShown` and `DotTypes` follow
  from one invariant (`DotInductive`) with a part for each: what is in the set is
  drawn, on the stack, or was passed over on purpose; every edge has a target
  that is declared, on the stack, or still promised by the mixin counter of an
  activation, by the walker or by the loop over superclasses; the options are
  those of the argument but for the changes between two pairs; and what the
  walker and the loop have behind them. Walker and recursion share one set, so
  the part about the set is what makes the others inductive. `DotDumpEnds`
  (`WorkShrinks`) assumes finitely many classes, too. Here an activation does not
  mean that the class enters the set, since the metaclass of a mixin does not. A
  mixin pays for two activations, its own and its metaclass's, by entering the set;
  a callback pays for the class it may draw with its place in the walk, and a
  step of the walker for its three callbacks with a pair or with a superclass.
* `HtmlPage_proofs`, without assumption. `PageComplete` (`ListsShown`): while the
  method sections are next `n` is still the number of ivar lists, and each
  section passed is complete or is the exception. `PageInOrder`
  (`TablesBelowHeading`): each section adds one block of a kind that is not on
  the page yet, its heading first and each of its items once.
* `HtmlTable_proofs`, without assumption. `RowsOnce` (`EveryRowOnce`),
  `RowsInOrder` (`NamesInOrder`), `HeadersRight` (`HeadersRead`), `Dialect`
  (`GraphvizDialect`) and `TableTypes` come from the invariant `TableInductive`:
  as many headers were read as the loop has gone round; the strings on the heap
  are those of the rows collected and not yet put out; the collected rows are one
  for each element, which the sort keeps because an injection of a finite set
  into itself is onto; and the elements put out so far have their rows, one each or
  those of a list together, the last ones behind all others (`PutRow`). Order of texts becomes order of names in
  `OrderOfTexts`. What the callers pass is a finite table: `UsesFit` says what
  goes together in it. `TablesWellFormed` (`WellFormed`) needs an invariant more,
  `Shape`: without induction over the output, the depth of the tags behind each
  token, and that each row fits the columns of the header and each table is the
  header's, the index page's or one around classes to load, are kept in the
  invariant, so that a step looks only at the tokens it puts out (`RowsPut`,
  `NestedPut`, `HeaderShape`, `CloseShape`). The table a row stands in then
  follows from the depths alone (`WhatIsAround`).
* `DebugSession_proofs`, without assumption. `NoTrace` (`LookupsLeaveNoTrace`) is
  inductive as it stands: a lookup of an implementation puts errno back whatever
  the runtime sets it to and fills nothing, and all other calls give up the claim.
  `FileLinksLand` (`LinksLand`) and `SessionTypes` need more. The classes that are
  loaded, and those loaded when the enumeration began, are closed under
  superclasses and mixins, because of the order in which classes are loaded; every
  file has the name of what it is about and links to its own class's family;
  links of the overview are covered by the enumeration that follows it; and what
  the dump has dealt with stays written or failed. What is above a class is a
  recursive function over the class graph; that it exists is shown without
  induction, from the least set that is closed under going up (`Reach`).

The invariants of `HtmlDump_proofs` and `HtmlPage_proofs` contain `TypeOK`; the theorems
`HtmlTypes` and `PageTypes` state it.

`WorkShrinks` is the part of termination that is safety: `StepsLeft` is a natural
number, and every step makes it smaller, so that no dump of a finite universe
takes infinitely many steps. `LookupHalves` says the like of a search. The theorems
need no fairness. That the programs do take their steps needs it, and ENABLED;
this is out of the prover's reach, and `Terminates` and the liveness of
`ImplementsSet` stay with TLC. TLC also checks `WorkShrinks` in `dot_dump`, the
largest of the three; in the others the theorem stands by itself.

The library's induction theorems take an operator as a parameter, which none of
the provers used can instantiate. Where a proof needs an induction it argues with
sets: a smallest member of a family of sets (`SmallestMember` in `CSet_proofs`) or
the least set that is closed under something (`Upwards`, and `Reach` in
`DebugSession_proofs`).

## Not modelled

* Type info and method list dumps: they print one structure, keep nothing and
  decide nothing.
* lldb lookups: compiled out by `#if 0`.
* `mulle_buffer_html_universe` and the other parts of a page that are one print
  statement, beyond the table they belong to.
* Parsing of environment variables beyond set, unset and the number it holds;
  the wording of log messages.

## Plan

Done, in this order: `PointerSet`, `CSet`, `CSetAnswer`, `DotHierarchy`, `DotDump`,
`FrameDump`, `HtmlDump`, `HtmlPage` and the first two proof modules; then
`HtmlTable`, `DotFiles`, `GdbLookup`, their composition `DebugSession`, and the
proofs about frames, order of the hierarchy, HTML files and the class page; then
the proofs about the dot dumps, the table renderers and the debug session; last what
termination rests on and the exactness of `CSetAnswer`.

Every invariant and every action property of a passing run is a theorem now. What
remains with TLC alone are the liveness properties, under the fairness above, and
the three findings.
