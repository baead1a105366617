------------------------------- MODULE HtmlPage -------------------------------
(***************************************************************************)
(* _mulle_buffer_print_infraclass_html of mulle-objc-htmldump.c: the       *)
(* sections of a class page that show the lists of the class, one after    *)
(* the other.  Each section prints its heading if there are lists at all,  *)
(* and may skip the tables if there is one list and it is empty.           *)
(*                                                                         *)
(* The sections share the local variable n.  The property and the ivar     *)
(* section assign it, the two method sections only read it.                *)
(***************************************************************************)
EXTENDS Integers, Sequences, Functions

CONSTANTS MaxLists,    \* bound on the lists of one kind: the class's own and its categories'
          MaxEntries   \* bound on the entries of one list

ASSUME HtmlPageAssumption == MaxLists \in Nat /\ MaxEntries \in Nat

Sections == {"properties", "ivars", "classmethods", "instancemethods"}

VARIABLES lists,   \* of each section: the number of entries of each of its lists
          ids,     \* the number of protocols and of categories of the pair
          n,       \* the local variable; not assigned before the first section
          at,      \* the section that is next
          page     \* what the page shows, in order

vars == <<lists, ids, n, at, page>>

Lists == UNION {[1 .. k -> 0 .. MaxEntries] : k \in 0 .. MaxLists}

Init == /\ lists \in [Sections -> Lists]
        /\ ids \in [{"protocols", "categories"} -> {0, 1}]
        /\ n = 0
        /\ at = "properties"
        /\ page = <<>>

Heading(section)   == [kind |-> "heading", of |-> section, nr |-> 0]
ListTable(section, k) == [kind |-> "table", of |-> section, nr |-> k]

\* faulty variant: an empty list at the front is taken for the only one
SkipsFirstEmpty(l, count) == l[1] = 0

(***************************************************************************)
(* The section for the lists l: count is what its test "n == 1" looks at.  *)
(***************************************************************************)
Skips(l, count) == count = 1 /\ l[1] = 0

\* faulty variant: the heading only stands above a lone list
HeadingIfLone(section, count) ==
  LET l == lists[section]
  IN  (IF count = 1 THEN <<Heading(section)>> ELSE <<>>)
      \o [k \in DOMAIN l |-> ListTable(section, k)]

SectionItems(section, count) ==
  LET l == lists[section]
  IN  IF l = <<>> THEN <<>>
      ELSE <<Heading(section)>>
           \o (IF Skips(l, count) THEN <<>> ELSE [k \in DOMAIN l |-> ListTable(section, k)])

PrintSection(section, count, next) ==
  /\ at = section
  /\ page' = page \o SectionItems(section, count)
  /\ at' = next
  /\ UNCHANGED <<lists, ids>>

\* faulty variant: one too many
PropertiesPlusOne ==
  n' = Len(lists["properties"]) + 1 /\ PrintSection("properties", n', "ivars")

Properties == n' = Len(lists["properties"]) /\ PrintSection("properties", n', "ivars")

Ivars == n' = Len(lists["ivars"]) /\ PrintSection("ivars", n', "classmethods")

ClassMethods == PrintSection("classmethods", n, "instancemethods") /\ UNCHANGED n

InstanceMethods == PrintSection("instancemethods", n, "protocols") /\ UNCHANGED n

\* the identifiers of the pair, in one table
PrintIds(section, next) ==
  /\ at = section
  /\ page' = page \o IF ids[section] = 0 THEN <<>>
                     ELSE <<Heading(section), ListTable(section, 1)>>
  /\ at' = next
  /\ UNCHANGED <<lists, ids, n>>

Protocols  == PrintIds("protocols", "categories")
Categories == PrintIds("categories", "caches")

Caches == /\ at = "caches"
          /\ page' = page \o <<Heading("cache"), ListTable("cache", 1),
                               Heading("metacache"), ListTable("metacache", 1)>>
          /\ at' = "end"
          /\ UNCHANGED <<lists, ids, n>>

Next == \/ Properties \/ Ivars \/ ClassMethods \/ InstanceMethods
        \/ Protocols \/ Categories \/ Caches

Spec == Init /\ [][Next]_vars

-------------------------------------------------------------------------------
TypeOK == /\ lists \in [Sections -> Lists]
          /\ ids \in [{"protocols", "categories"} -> Nat]
          /\ n \in 0 .. MaxLists
          /\ at \in Sections \union {"protocols", "categories", "caches", "end"}
          /\ \A i \in DOMAIN page : page[i].kind \in {"heading", "table"}

Items == Range(page)
Shown(section) == \A k \in DOMAIN lists[section] :
                    lists[section][k] > 0 => ListTable(section, k) \in Items

(***************************************************************************)
(* "Dumps runtime structures (classes, methods, ...) as HTML files": the   *)
(* page shows every method list that has something in it, the categories'  *)
(* lists included.                                                         *)
(***************************************************************************)
MethodsShown == at = "end" => Shown("classmethods") /\ Shown("instancemethods")

(***************************************************************************)
(* What can be trusted of it: the page shows every property list and every *)
(* ivar list that has something in it, and a method list is lost only if   *)
(* the n of the ivar section is 1 and the class's own list is empty.       *)
(***************************************************************************)
ListsShown ==
  at = "end" =>
    \A s \in Sections :
      \/ Shown(s)
      \/ /\ s \in {"classmethods", "instancemethods"}
         /\ Len(lists["ivars"]) = 1 /\ lists[s][1] = 0

(***************************************************************************)
(* A table stands below the heading of its own section, and no table or    *)
(* heading is there twice.                                                 *)
(***************************************************************************)
TablesBelowHeading ==
  /\ IsInjective(page)
  /\ \A i \in DOMAIN page : page[i].kind = "table" =>
       \E j \in 1 .. i - 1 : /\ page[j] = Heading(page[i].of)
                             /\ \A k \in j .. i : page[k].of = page[i].of
===============================================================================
