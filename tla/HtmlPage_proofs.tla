---------------------------- MODULE HtmlPage_proofs ----------------------------
(***************************************************************************)
(* Proofs about the class page, for any number of lists and entries.       *)
(***************************************************************************)
EXTENDS HtmlPage, TLAPS

Item == [kind : {"heading", "table"},
         of : Sections \union {"protocols", "categories", "cache", "metacache"}, nr : Nat]

\* the order of the sections
Passed(s) == CASE s = "properties"      -> at # "properties"
               [] s = "ivars"           -> at \notin {"properties", "ivars"}
               [] s = "classmethods"    -> at \notin {"properties", "ivars", "classmethods"}
               [] s = "instancemethods" -> at \notin Sections

\* a section that was printed is complete, or skipped by the count of the ivar section
Complete(s) == \/ Shown(s)
               \/ /\ s \in {"classmethods", "instancemethods"}
                  /\ Len(lists["ivars"]) = 1 /\ lists[s][1] = 0

Inv == /\ TypeOK
       /\ page \in Seq(Item)
       /\ at \in {"classmethods", "instancemethods"} => n = Len(lists["ivars"])
       /\ \A s \in Sections : Passed(s) => Complete(s)

-------------------------------------------------------------------------------
LEMMA RangeOfConcat ==
  ASSUME NEW S, NEW s \in Seq(S), NEW t \in Seq(S)
  PROVE  s \o t \in Seq(S) /\ Range(s \o t) = Range(s) \union Range(t)
<1>1. /\ Len(s) \in Nat /\ Len(t) \in Nat
      /\ DOMAIN s = 1 .. Len(s) /\ DOMAIN t = 1 .. Len(t)
      /\ s \o t \in Seq(S) /\ DOMAIN (s \o t) = 1 .. Len(s) + Len(t)
      /\ \A i \in 1 .. Len(s) : (s \o t)[i] = s[i]
      /\ \A i \in 1 .. Len(t) : (s \o t)[Len(s) + i] = t[i]
  OBVIOUS
<1>2. Range(s \o t) \subseteq Range(s) \union Range(t)
  <2> SUFFICES ASSUME NEW i \in 1 .. Len(s) + Len(t)
               PROVE  (s \o t)[i] \in Range(s) \union Range(t)
    BY <1>1 DEF Range
  <2>1. CASE i <= Len(s)
    BY <1>1, <2>1 DEF Range
  <2>2. CASE i > Len(s)
    <3>1. i - Len(s) \in 1 .. Len(t) /\ Len(s) + (i - Len(s)) = i
      BY <1>1, <2>2
    <3>2. (s \o t)[i] = t[i - Len(s)]
      BY <1>1, <3>1
    <3> QED BY <1>1, <3>1, <3>2 DEF Range
  <2> QED BY <1>1, <2>1, <2>2
<1>3. Range(s) \subseteq Range(s \o t)
  <2> SUFFICES ASSUME NEW i \in 1 .. Len(s) PROVE s[i] \in Range(s \o t)
    BY <1>1 DEF Range
  <2>1. i \in DOMAIN (s \o t) /\ (s \o t)[i] = s[i]
    BY <1>1
  <2> QED BY <2>1 DEF Range
<1>4. Range(t) \subseteq Range(s \o t)
  <2> SUFFICES ASSUME NEW i \in 1 .. Len(t) PROVE t[i] \in Range(s \o t)
    BY <1>1 DEF Range
  <2>1. Len(s) + i \in DOMAIN (s \o t) /\ (s \o t)[Len(s) + i] = t[i]
    BY <1>1
  <2> QED BY <2>1 DEF Range
<1> QED BY <1>1, <1>2, <1>3, <1>4

LEMMA ListsAreSequences ==
  ASSUME TypeOK, NEW s \in Sections
  PROVE  lists[s] \in Seq(Nat) /\ Len(lists[s]) \in 0 .. MaxLists
<1>1. lists[s] \in Lists
  BY DEF TypeOK
<1>2. PICK k \in 0 .. MaxLists : lists[s] \in [1 .. k -> 0 .. MaxEntries]
  BY <1>1 DEF Lists
<1>3. lists[s] \in Seq(Nat) /\ Len(lists[s]) = k
  BY <1>2, HtmlPageAssumption
<1> QED BY <1>3

\* What a section adds to the page: all its tables, unless it is skipped.
LEMMA SectionItemsRange ==
  ASSUME TypeOK, NEW s \in Sections, NEW count
  PROVE  /\ SectionItems(s, count) \in Seq(Item)
         /\ ~ Skips(lists[s], count) =>
              \A k \in DOMAIN lists[s] : ListTable(s, k) \in Range(SectionItems(s, count))
<1> DEFINE l == lists[s]
           tables == [k \in DOMAIN l |-> ListTable(s, k)]
<1>1. l \in Seq(Nat) /\ DOMAIN l = 1 .. Len(l) /\ Len(l) \in Nat
  BY ListsAreSequences
<1>2. <<Heading(s)>> \in Seq(Item) /\ \A k \in Nat : ListTable(s, k) \in Item
  BY DEF Heading, ListTable, Item
<1>3. tables \in Seq(Item)
  BY <1>1, <1>2
<1>4. \A k \in DOMAIN l : ListTable(s, k) \in Range(tables)
  BY DEF Range
<1>5. CASE l = <<>>
  BY <1>5 DEF SectionItems
<1>6. CASE l # <<>> /\ Skips(l, count)
  <2>1. SectionItems(s, count) = <<Heading(s)>> \o <<>>
    BY <1>6 DEF SectionItems
  <2> QED BY <1>2, <1>6, <2>1
<1>7. CASE l # <<>> /\ ~ Skips(l, count)
  <2>1. SectionItems(s, count) = <<Heading(s)>> \o tables
    BY <1>7 DEF SectionItems
  <2> HIDE DEF tables, l
  <2>2. /\ <<Heading(s)>> \o tables \in Seq(Item)
        /\ Range(<<Heading(s)>> \o tables) = Range(<<Heading(s)>>) \union Range(tables)
    BY <1>2, <1>3, RangeOfConcat
  <2> QED BY <1>4, <2>1, <2>2 DEF l
<1> QED BY <1>5, <1>6, <1>7

(***************************************************************************)
(* A step that adds items to the page: what was complete stays so.         *)
(***************************************************************************)
LEMMA PageGrows ==
  ASSUME Inv, NEW items \in Seq(Item), page' = page \o items, UNCHANGED lists
  PROVE  /\ page' \in Seq(Item)
         /\ Items' = Items \union Range(items)
         /\ \A s \in Sections : Complete(s) => Complete(s)'
<1>1. page' \in Seq(Item) /\ Range(page') = Range(page) \union Range(items)
  BY RangeOfConcat DEF Inv
<1> QED BY <1>1 DEF Items, Complete, Shown

LEMMA SectionStep ==
  ASSUME Inv, NEW s \in Sections, NEW count, NEW next, PrintSection(s, count, next),
         \/ count = Len(lists[s])
         \/ s \in {"classmethods", "instancemethods"} /\ count = Len(lists["ivars"])
  PROVE  /\ page' \in Seq(Item) /\ Complete(s)'
         /\ \A r \in Sections : Complete(r) => Complete(r)'
<1>1. page' = page \o SectionItems(s, count) /\ UNCHANGED lists
  BY DEF PrintSection
<1>2. SectionItems(s, count) \in Seq(Item)
  BY SectionItemsRange DEF Inv
<1>3. /\ page' \in Seq(Item)
      /\ Items' = Items \union Range(SectionItems(s, count))
      /\ \A r \in Sections : Complete(r) => Complete(r)'
  BY <1>1, <1>2, PageGrows
<1>4. CASE ~ Skips(lists[s], count)
  <2>1. \A k \in DOMAIN lists[s] : ListTable(s, k) \in Items'
    BY <1>3, <1>4, SectionItemsRange DEF Inv
  <2> QED BY <1>1, <1>3, <2>1 DEF Complete, Shown
<1>5. CASE Skips(lists[s], count)
  <2>1. count = 1 /\ lists[s][1] = 0
    BY <1>5 DEF Skips
  <2>2. CASE count = Len(lists[s])
    <3>1. DOMAIN lists[s] = {1}
      <4>1. lists[s] \in Seq(Nat) /\ Len(lists[s]) = 1
        BY <2>1, <2>2, ListsAreSequences DEF Inv
      <4> QED BY <4>1
    <3> QED BY <1>1, <1>3, <2>1, <3>1 DEF Complete, Shown
  <2>3. CASE s \in {"classmethods", "instancemethods"} /\ count = Len(lists["ivars"])
    BY <1>1, <1>3, <2>1, <2>3 DEF Complete
  <2> QED BY <2>2, <2>3
<1> QED BY <1>3, <1>4, <1>5

LEMMA InitInv == Init => Inv
<1> SUFFICES ASSUME Init PROVE Inv
  OBVIOUS
<1>1. DOMAIN page = {} /\ page \in Seq(Item)
  BY DEF Init
<1>2. TypeOK
  BY <1>1, HtmlPageAssumption DEF Init, TypeOK, Sections
<1> QED BY <1>1, <1>2 DEF Init, Inv, Passed, Sections

LEMMA NextInv == Inv /\ [Next]_vars => Inv'
<1> SUFFICES ASSUME Inv, [Next]_vars PROVE Inv'
  OBVIOUS
<1>0. \A s \in Sections : Len(lists[s]) \in 0 .. MaxLists
  BY ListsAreSequences DEF Inv
<1>7. ASSUME page' \in Seq(Item) PROVE \A i \in DOMAIN page' : page'[i].kind \in {"heading", "table"}
  <2>1. \A i \in DOMAIN page' : page'[i] \in Item
    BY <1>7
  <2>2. \A x \in Item : x.kind \in {"heading", "table"}
    BY DEF Item
  <2> QED BY <2>1, <2>2
<1>1. CASE Properties
  <2>1. /\ PrintSection("properties", Len(lists["properties"]), "ivars")
        /\ n' = Len(lists["properties"]) /\ "properties" \in Sections
    BY <1>1 DEF Properties, Sections
  <2>2. /\ page' \in Seq(Item) /\ Complete("properties")'
        /\ \A r \in Sections : Complete(r) => Complete(r)'
    BY <2>1, SectionStep
  <2> QED BY <1>0, <1>7, <2>1, <2>2 DEF Inv, TypeOK, PrintSection, Passed, Sections
<1>2. CASE Ivars
  <2>1. /\ PrintSection("ivars", Len(lists["ivars"]), "classmethods")
        /\ n' = Len(lists["ivars"]) /\ "ivars" \in Sections
    BY <1>2 DEF Ivars, Sections
  <2>2. /\ page' \in Seq(Item) /\ Complete("ivars")'
        /\ \A r \in Sections : Complete(r) => Complete(r)'
    BY <2>1, SectionStep
  <2> QED BY <1>0, <1>7, <2>1, <2>2 DEF Inv, TypeOK, PrintSection, Passed, Sections
<1>3. CASE ClassMethods
  <2>1. /\ PrintSection("classmethods", n, "instancemethods") /\ n' = n
        /\ n = Len(lists["ivars"]) /\ "classmethods" \in Sections
    BY <1>3 DEF ClassMethods, PrintSection, Inv, Sections
  <2>2. /\ page' \in Seq(Item) /\ Complete("classmethods")'
        /\ \A r \in Sections : Complete(r) => Complete(r)'
    BY <2>1, SectionStep
  <2> QED BY <1>7, <2>1, <2>2 DEF Inv, TypeOK, PrintSection, Passed, Sections
<1>4. CASE InstanceMethods
  <2>1. /\ PrintSection("instancemethods", n, "protocols") /\ n' = n
        /\ n = Len(lists["ivars"]) /\ "instancemethods" \in Sections
    BY <1>4 DEF InstanceMethods, PrintSection, Inv, Sections
  <2>2. /\ page' \in Seq(Item) /\ Complete("instancemethods")'
        /\ \A r \in Sections : Complete(r) => Complete(r)'
    BY <2>1, SectionStep
  <2> QED BY <1>7, <2>1, <2>2 DEF Inv, TypeOK, PrintSection, Passed, Sections
<1>5. CASE Protocols \/ Categories \/ Caches
  <2>1. PICK items \in Seq(Item) : page' = page \o items
    <3>1. \A s \in {"protocols", "categories", "cache", "metacache"} :
            Heading(s) \in Item /\ ListTable(s, 1) \in Item
      BY DEF Heading, ListTable, Item
    <3>2. \A s \in {"protocols", "categories"} :
            <<>> \in Seq(Item) /\ <<Heading(s), ListTable(s, 1)>> \in Seq(Item)
      BY <3>1
    <3>3. <<Heading("cache"), ListTable("cache", 1),
            Heading("metacache"), ListTable("metacache", 1)>> \in Seq(Item)
      BY <3>1
    <3> QED BY <1>5, <3>2, <3>3 DEF Protocols, Categories, PrintIds, Caches
  <2>2. UNCHANGED <<lists, ids, n>> /\ at \in {"protocols", "categories", "caches"}
        /\ at' \in {"categories", "caches", "end"}
    BY <1>5 DEF Protocols, Categories, PrintIds, Caches
  <2>3. page' \in Seq(Item) /\ \A r \in Sections : Complete(r) => Complete(r)'
    BY <2>1, <2>2, PageGrows
  <2> QED BY <1>7, <2>2, <2>3 DEF Inv, TypeOK, Passed, Sections
<1>6. CASE UNCHANGED vars
  BY <1>6 DEF vars, Inv, TypeOK, Passed, Complete, Shown, Items
<1> QED BY <1>1, <1>2, <1>3, <1>4, <1>5, <1>6 DEF Next

(***************************************************************************)
(* However many lists there are: a finished page lacks no list, but method *)
(* lists when the ivar section's count is 1 and the first of them is empty.*)
(***************************************************************************)
THEOREM PageComplete == Spec => []ListsShown
<1>1. Inv => ListsShown
  BY DEF Inv, ListsShown, Passed, Complete, Sections
<1> QED BY <1>1, InitInv, NextInv, PTL DEF Spec

(***************************************************************************)
(* The state of a class page stays in its types, for any number of lists.  *)
(***************************************************************************)
THEOREM PageTypes == Spec => []TypeOK
<1>1. Inv => TypeOK
  BY DEF Inv
<1> QED BY <1>1, InitInv, NextInv, PTL DEF Spec
-------------------------------------------------------------------------------
(***************************************************************************)
(* The order of the page.  Each section adds one block, or two: a heading  *)
(* and its tables, of a kind that is not on the page yet.                  *)
(***************************************************************************)
Neat(p) == /\ IsInjective(p)
           /\ \A i \in DOMAIN p : p[i].kind = "table" =>
                \E j \in 1 .. i - 1 : /\ p[j] = Heading(p[i].of)
                                      /\ \A m \in j .. i : p[m].of = p[i].of

Over == CASE at = "properties"      -> {}
          [] at = "ivars"           -> {"properties"}
          [] at = "classmethods"    -> {"properties", "ivars"}
          [] at = "instancemethods" -> {"properties", "ivars", "classmethods"}
          [] at = "protocols"       -> Sections
          [] at = "categories"      -> Sections \union {"protocols"}
          [] at = "caches"          -> Sections \union {"protocols", "categories"}
          [] OTHER                  -> Sections \union {"protocols", "categories", "cache", "metacache"}

OrderInv == Inv /\ Neat(page) /\ \A i \in DOMAIN page : page[i].of \in Over

\* Neat pages about different things make a neat page.
LEMMA NeatJoin ==
  ASSUME NEW p \in Seq(Item), NEW q \in Seq(Item), Neat(p), Neat(q),
         \A i \in DOMAIN p, j \in DOMAIN q : p[i].of # q[j].of
  PROVE  Neat(p \o q)
<1>1. /\ Len(p) \in Nat /\ Len(q) \in Nat
      /\ DOMAIN p = 1 .. Len(p) /\ DOMAIN q = 1 .. Len(q)
      /\ DOMAIN (p \o q) = 1 .. Len(p) + Len(q)
      /\ \A i \in 1 .. Len(p) : (p \o q)[i] = p[i]
      /\ \A i \in 1 .. Len(q) : (p \o q)[Len(p) + i] = q[i]
  OBVIOUS
<1>2. \A i \in 1 .. Len(p) + Len(q) :
        \/ i \in 1 .. Len(p) /\ (p \o q)[i] = p[i]
        \/ /\ i - Len(p) \in 1 .. Len(q) /\ i > Len(p)
           /\ (p \o q)[i] = q[i - Len(p)]
  <2> SUFFICES ASSUME NEW i \in 1 .. Len(p) + Len(q), i > Len(p)
               PROVE  i - Len(p) \in 1 .. Len(q) /\ (p \o q)[i] = q[i - Len(p)]
    BY <1>1
  <2>1. i - Len(p) \in 1 .. Len(q) /\ Len(p) + (i - Len(p)) = i
    BY <1>1
  <2> QED BY <1>1, <2>1
<1>3. IsInjective(p \o q)
  <2> SUFFICES ASSUME NEW i \in 1 .. Len(p) + Len(q), NEW j \in 1 .. Len(p) + Len(q),
                      (p \o q)[i] = (p \o q)[j]
               PROVE  i = j
    BY <1>1 DEF IsInjective
  <2>1. CASE i \in 1 .. Len(p) /\ j \in 1 .. Len(p)
    BY <1>1, <2>1 DEF Neat, IsInjective
  <2>2. CASE i > Len(p) /\ j > Len(p)
    <3>1. /\ i - Len(p) \in DOMAIN q /\ j - Len(p) \in DOMAIN q
          /\ q[i - Len(p)] = q[j - Len(p)]
      BY <1>1, <1>2, <2>2
    <3>2. i - Len(p) = j - Len(p)
      BY <3>1 DEF Neat, IsInjective
    <3> QED BY <1>1, <3>2
  <2>3. CASE i \in 1 .. Len(p) /\ j > Len(p)
    <3>1. j - Len(p) \in DOMAIN q /\ (p \o q)[j] = q[j - Len(p)] /\ i \in DOMAIN p /\ (p \o q)[i] = p[i]
      BY <1>1, <1>2, <2>3
    <3> QED BY <3>1
  <2>4. CASE i > Len(p) /\ j \in 1 .. Len(p)
    <3>1. i - Len(p) \in DOMAIN q /\ (p \o q)[i] = q[i - Len(p)] /\ j \in DOMAIN p /\ (p \o q)[j] = p[j]
      BY <1>1, <1>2, <2>4
    <3> QED BY <3>1
  <2> QED BY <1>2, <2>1, <2>2, <2>3, <2>4
<1>4. ASSUME NEW i \in 1 .. Len(p) + Len(q), (p \o q)[i].kind = "table"
      PROVE  \E j \in 1 .. i - 1 : /\ (p \o q)[j] = Heading((p \o q)[i].of)
                                   /\ \A m \in j .. i : (p \o q)[m].of = (p \o q)[i].of
  <2>1. CASE i \in 1 .. Len(p)
    <3>1. PICK j \in 1 .. i - 1 : p[j] = Heading(p[i].of) /\ \A m \in j .. i : p[m].of = p[i].of
      BY <1>1, <1>4, <2>1 DEF Neat
    <3>2. j \in 1 .. Len(p) /\ \A m \in j .. i : m \in 1 .. Len(p)
      BY <1>1, <2>1
    <3> QED BY <1>1, <2>1, <3>1, <3>2
  <2>2. CASE i > Len(p)
    <3>1. i - Len(p) \in DOMAIN q /\ (p \o q)[i] = q[i - Len(p)]
      BY <1>1, <1>2, <2>2
    <3>2. PICK j \in 1 .. (i - Len(p)) - 1 :
            q[j] = Heading((p \o q)[i].of) /\ \A m \in j .. i - Len(p) : q[m].of = (p \o q)[i].of
      BY <1>4, <3>1 DEF Neat
    <3>3. Len(p) + j \in 1 .. i - 1 /\ j \in 1 .. Len(q)
      BY <1>1, <3>1, <3>2
    <3>4. (p \o q)[Len(p) + j] = Heading((p \o q)[i].of)
      BY <1>1, <3>2, <3>3
    <3>5. ASSUME NEW m \in Len(p) + j .. i PROVE (p \o q)[m].of = (p \o q)[i].of
      <4>1. m - Len(p) \in j .. i - Len(p) /\ m \in 1 .. Len(p) + Len(q) /\ m > Len(p)
        BY <1>1, <3>3
      <4>2. (p \o q)[m] = q[m - Len(p)]
        BY <1>2, <4>1
      <4> QED BY <3>2, <4>1, <4>2
    <3> QED BY <3>3, <3>4, <3>5
  <2> QED BY <1>2, <2>1, <2>2
<1> QED BY <1>1, <1>3, <1>4 DEF Neat

\* A heading with the tables of its section is neat.
LEMMA NeatBlock ==
  ASSUME NEW s, NEW tables \in Seq(Item),
         \A m \in DOMAIN tables : tables[m] = ListTable(s, m)
  PROVE  /\ Neat(<<Heading(s)>> \o tables)
         /\ \A i \in DOMAIN (<<Heading(s)>> \o tables) : (<<Heading(s)>> \o tables)[i].of = s
<1> DEFINE b == <<Heading(s)>> \o tables
<1>1. /\ Len(tables) \in Nat /\ DOMAIN tables = 1 .. Len(tables)
      /\ DOMAIN b = 1 .. 1 + Len(tables) /\ b[1] = Heading(s)
      /\ \A i \in 2 .. 1 + Len(tables) : b[i] = tables[i - 1] /\ i - 1 \in 1 .. Len(tables)
  OBVIOUS
<1>2. /\ b[1].kind = "heading" /\ b[1].of = s
      /\ \A i \in 2 .. 1 + Len(tables) : b[i].kind = "table" /\ b[i].of = s /\ b[i].nr = i - 1
  BY <1>1 DEF Heading, ListTable
<1> HIDE DEF b
<1>3. \A i \in DOMAIN b : i = 1 \/ i \in 2 .. 1 + Len(tables)
  BY <1>1
<1>4. IsInjective(b)
  <2> SUFFICES ASSUME NEW i \in DOMAIN b, NEW j \in DOMAIN b, b[i] = b[j] PROVE i = j
    BY DEF IsInjective
  <2>1. CASE i = 1 \/ j = 1
    BY <1>2, <1>3, <2>1
  <2>2. CASE i \in 2 .. 1 + Len(tables) /\ j \in 2 .. 1 + Len(tables)
    <3>1. i - 1 = j - 1
      BY <1>2, <2>2
    <3> QED BY <1>1, <2>2, <3>1
  <2> QED BY <1>3, <2>1, <2>2
<1>5. \A i \in DOMAIN b : b[i].of = s
  BY <1>2, <1>3
<1>6. ASSUME NEW i \in DOMAIN b, b[i].kind = "table"
      PROVE  1 \in 1 .. i - 1 /\ \A m \in 1 .. i : b[m].of = b[i].of
  <2>1. i \in 2 .. 1 + Len(tables)
    BY <1>2, <1>3, <1>6
  <2>2. \A m \in 1 .. i : m \in DOMAIN b
    BY <1>1, <2>1
  <2> QED BY <1>1, <1>5, <2>1, <2>2
<1>7. Neat(b)
  BY <1>1, <1>4, <1>5, <1>6 DEF Neat
<1> QED BY <1>5, <1>7 DEF b

LEMMA NeatEmpty == Neat(<<>>)
BY DEF Neat, IsInjective
\* What a section adds is neat, and about that section.
LEMMA NeatSection ==
  ASSUME TypeOK, NEW s \in Sections, NEW count
  PROVE  /\ SectionItems(s, count) \in Seq(Item) /\ Neat(SectionItems(s, count))
         /\ \A i \in DOMAIN SectionItems(s, count) : SectionItems(s, count)[i].of = s
<1> DEFINE l == lists[s]
           tables == [m \in DOMAIN l |-> ListTable(s, m)]
<1>1. l \in Seq(Nat) /\ DOMAIN l = 1 .. Len(l) /\ Len(l) \in Nat
  BY ListsAreSequences
<1>2. \A m \in Nat : ListTable(s, m) \in Item
  BY DEF ListTable, Item
<1>3. tables \in Seq(Item) /\ \A m \in DOMAIN tables : tables[m] = ListTable(s, m)
  BY <1>1, <1>2
<1>4. <<>> \in Seq(Item) /\ \A m \in DOMAIN <<>> : <<>>[m] = ListTable(s, m)
  OBVIOUS
<1>5. \/ SectionItems(s, count) = <<>>
      \/ SectionItems(s, count) = <<Heading(s)>> \o <<>>
      \/ SectionItems(s, count) = <<Heading(s)>> \o tables
  BY DEF SectionItems
<1> HIDE DEF tables
<1>6. CASE SectionItems(s, count) = <<>>
  BY <1>4, <1>6, NeatEmpty
<1>7. CASE SectionItems(s, count) = <<Heading(s)>> \o <<>>
  BY <1>4, <1>7, NeatBlock, SectionItemsRange
<1>8. CASE SectionItems(s, count) = <<Heading(s)>> \o tables
  BY <1>3, <1>8, NeatBlock, SectionItemsRange
<1> QED BY <1>5, <1>6, <1>7, <1>8

\* So is what the sections add that have one table.
LEMMA NeatPair ==
  ASSUME NEW s \in {"protocols", "categories", "cache", "metacache"}
  PROVE  /\ <<Heading(s), ListTable(s, 1)>> \in Seq(Item)
         /\ Neat(<<Heading(s), ListTable(s, 1)>>)
         /\ \A i \in DOMAIN <<Heading(s), ListTable(s, 1)>> :
              <<Heading(s), ListTable(s, 1)>>[i].of = s
<1>1. Heading(s) \in Item /\ ListTable(s, 1) \in Item
  BY DEF Heading, ListTable, Item
<1>2. <<ListTable(s, 1)>> \in Seq(Item) /\ \A m \in DOMAIN <<ListTable(s, 1)>> :
                                             <<ListTable(s, 1)>>[m] = ListTable(s, m)
  BY <1>1
<1>3. <<Heading(s), ListTable(s, 1)>> = <<Heading(s)>> \o <<ListTable(s, 1)>>
  BY <1>1
<1> DEFINE t == <<ListTable(s, 1)>>
<1>4. /\ <<Heading(s), ListTable(s, 1)>> = <<Heading(s)>> \o t
      /\ t \in Seq(Item) /\ \A m \in DOMAIN t : t[m] = ListTable(s, m)
  BY <1>2, <1>3
<1>5. <<Heading(s), ListTable(s, 1)>> \in Seq(Item)
  BY <1>1
<1> HIDE DEF t
<1>6. /\ Neat(<<Heading(s)>> \o t)
      /\ \A i \in DOMAIN (<<Heading(s)>> \o t) : (<<Heading(s)>> \o t)[i].of = s
  <2>1. t \in Seq(Item) /\ \A m \in DOMAIN t : t[m] = ListTable(s, m)
    BY <1>4
  <2> QED BY <2>1, NeatBlock
<1>7. PICK b : b = <<Heading(s)>> \o t
  OBVIOUS
<1>8. Neat(b) /\ (\A i \in DOMAIN b : b[i].of = s) /\ b = <<Heading(s), ListTable(s, 1)>>
  BY <1>4, <1>6, <1>7
<1> QED BY <1>5, <1>8

\* A block of a kind that is not on the page yet keeps it neat.
LEMMA BlockStep ==
  ASSUME OrderInv, NEW items \in Seq(Item), Neat(items), page' = page \o items,
         NEW kinds, \A i \in DOMAIN items : items[i].of \in kinds,
         kinds \intersect Over = {}, Over' = Over \union kinds
  PROVE  Neat(page)' /\ \A i \in DOMAIN page' : page'[i].of \in Over'
<1>1. page \in Seq(Item) /\ Neat(page) /\ \A i \in DOMAIN page : page[i].of \in Over
  BY DEF OrderInv, Inv
<1>2. Neat(page \o items)
  BY <1>1, NeatJoin
<1>3. Neat(page)'
  BY <1>2 DEF Neat
<1>4. ASSUME NEW i \in DOMAIN (page \o items) PROVE (page \o items)[i].of \in Over \union kinds
  <2>1. /\ Len(page) \in Nat /\ Len(items) \in Nat
        /\ DOMAIN page = 1 .. Len(page) /\ DOMAIN items = 1 .. Len(items)
        /\ DOMAIN (page \o items) = 1 .. Len(page) + Len(items)
    BY <1>1
  <2>2. CASE i <= Len(page)
    <3>1. (page \o items)[i] = page[i] /\ i \in DOMAIN page
      BY <1>1, <2>1, <2>2
    <3> QED BY <1>1, <3>1
  <2>3. CASE i > Len(page)
    <3>1. (page \o items)[i] = items[i - Len(page)] /\ i - Len(page) \in DOMAIN items
      BY <1>1, <2>1, <2>3
    <3> QED BY <3>1
  <2> QED BY <2>1, <2>2, <2>3
<1> QED BY <1>3, <1>4

LEMMA OrderNext == OrderInv /\ [Next]_vars => OrderInv'
<1> SUFFICES ASSUME OrderInv, [Next]_vars PROVE OrderInv'
  OBVIOUS
<1>0. Inv' /\ TypeOK
  BY NextInv DEF OrderInv, Inv
<1>1. ASSUME NEW s \in Sections, NEW count, NEW next, PrintSection(s, count, next),
             s \notin Over, Over' = Over \union {s}
      PROVE  OrderInv'
  <2>1. page' = page \o SectionItems(s, count)
    BY <1>1 DEF PrintSection
  <2>2. SectionItems(s, count) \in Seq(Item) /\ Neat(SectionItems(s, count))
    BY <1>0, NeatSection
  <2>3. \A i \in DOMAIN SectionItems(s, count) : SectionItems(s, count)[i].of \in {s}
    BY <1>0, NeatSection
  <2>4. Neat(page)' /\ \A i \in DOMAIN page' : page'[i].of \in Over'
    BY <1>1, <2>1, <2>2, <2>3, BlockStep
  <2> QED BY <1>0, <2>4 DEF OrderInv
<1>2. ASSUME NEW s \in {"protocols", "categories"}, NEW next, PrintIds(s, next),
             s \notin Over, Over' = Over \union {s}
      PROVE  OrderInv'
  <2>1. PICK items : /\ items \in {<<>>, <<Heading(s), ListTable(s, 1)>>}
                     /\ page' = page \o items
    BY <1>2 DEF PrintIds
  <2>2. items \in Seq(Item) /\ Neat(items) /\ \A i \in DOMAIN items : items[i].of \in {s}
    <3>1. CASE items = <<>>
      BY <3>1, NeatEmpty
    <3>2. CASE items = <<Heading(s), ListTable(s, 1)>>
      <4>1. s \in {"protocols", "categories", "cache", "metacache"}
        OBVIOUS
      <4> QED BY <3>2, <4>1, NeatPair
    <3> QED BY <2>1, <3>1, <3>2
  <2>3. Neat(page)' /\ \A i \in DOMAIN page' : page'[i].of \in Over'
    BY <1>2, <2>1, <2>2, BlockStep
  <2> QED BY <1>0, <2>3 DEF OrderInv
<1>3. CASE Properties
  <2>1. PrintSection("properties", n', "ivars") /\ at = "properties" /\ at' = "ivars"
    BY <1>3 DEF Properties, PrintSection
  <2> QED BY <1>1, <2>1 DEF Over, Sections
<1>4. CASE Ivars
  <2>1. PrintSection("ivars", n', "classmethods") /\ at = "ivars" /\ at' = "classmethods"
    BY <1>4 DEF Ivars, PrintSection
  <2> QED BY <1>1, <2>1 DEF Over, Sections
<1>5. CASE ClassMethods
  <2>1. /\ PrintSection("classmethods", n, "instancemethods")
        /\ at = "classmethods" /\ at' = "instancemethods"
    BY <1>5 DEF ClassMethods, PrintSection
  <2> QED BY <1>1, <2>1 DEF Over, Sections
<1>6. CASE InstanceMethods
  <2>1. /\ PrintSection("instancemethods", n, "protocols")
        /\ at = "instancemethods" /\ at' = "protocols"
    BY <1>6 DEF InstanceMethods, PrintSection
  <2> QED BY <1>1, <2>1 DEF Over, Sections
<1>7. CASE Protocols
  <2>1. PrintIds("protocols", "categories") /\ at = "protocols" /\ at' = "categories"
    BY <1>7 DEF Protocols, PrintIds
  <2> QED BY <1>2, <2>1 DEF Over, Sections
<1>8. CASE Categories
  <2>1. PrintIds("categories", "caches") /\ at = "categories" /\ at' = "caches"
    BY <1>8 DEF Categories, PrintIds
  <2> QED BY <1>2, <2>1 DEF Over, Sections
<1>9. CASE Caches
  <2> DEFINE a == <<Heading("cache"), ListTable("cache", 1)>>
             b == <<Heading("metacache"), ListTable("metacache", 1)>>
  <2>1. at = "caches" /\ at' = "end" /\ page' = page \o (a \o b)
    BY <1>9 DEF Caches
  <2>2. /\ a \in Seq(Item) /\ Neat(a) /\ \A i \in DOMAIN a : a[i].of = "cache"
        /\ b \in Seq(Item) /\ Neat(b) /\ \A i \in DOMAIN b : b[i].of = "metacache"
    <3>1. /\ "cache" \in {"protocols", "categories", "cache", "metacache"}
          /\ "metacache" \in {"protocols", "categories", "cache", "metacache"}
      OBVIOUS
    <3> QED BY <3>1, NeatPair
  <2>3. \A i \in DOMAIN (a \o b) : (a \o b)[i].of \in {"cache", "metacache"}
    BY DEF Heading, ListTable
  <2> HIDE DEF a, b
  <2>4. a \o b \in Seq(Item) /\ Neat(a \o b)
    BY <2>2, NeatJoin
  <2>5. /\ {"cache", "metacache"} \intersect Over = {}
        /\ Over' = Over \union {"cache", "metacache"}
    BY <2>1 DEF Over, Sections
  <2>6. Neat(page)' /\ \A i \in DOMAIN page' : page'[i].of \in Over'
    BY <2>1, <2>3, <2>4, <2>5, BlockStep
  <2> QED BY <1>0, <2>6 DEF OrderInv
<1>10. CASE UNCHANGED vars
  BY <1>0, <1>10 DEF vars, OrderInv, Neat, Over
<1> QED BY <1>3, <1>4, <1>5, <1>6, <1>7, <1>8, <1>9, <1>10 DEF Next

(***************************************************************************)
(* However many lists there are: every table on the page stands below the  *)
(* heading of its section, and nothing is there twice.                     *)
(***************************************************************************)
THEOREM PageInOrder == Spec => []TablesBelowHeading
<1>1. Init => OrderInv
  <2> SUFFICES ASSUME Init PROVE OrderInv
    OBVIOUS
  <2>1. Inv /\ page = <<>>
    BY InitInv DEF Init
  <2>2. DOMAIN page = {}
    BY <2>1
  <2> QED BY <2>1, <2>2, NeatEmpty DEF OrderInv
<1>2. OrderInv => TablesBelowHeading
  BY DEF OrderInv, Neat, TablesBelowHeading
<1> QED BY <1>1, <1>2, OrderNext, PTL DEF Spec
===============================================================================
