------------------------------ MODULE HtmlTable ------------------------------
(***************************************************************************)
(* The table renderers of mulle-objc-html.c, one call at a time: the header*)
(* row, the column headers, the fixed rows, the rows of the elements - at  *)
(* once, or as strings that are collected, sorted and freed - and the end  *)
(* tag.  The calls are those the DOT and the HTML dump make.               *)
(*                                                                         *)
(* The markup is a sequence of tokens: a table opened with its number of   *)
(* columns, a row with the widths of its cells, a table closed.  A name is *)
(* the sequence of its character codes, since the rows are sorted as text. *)
(***************************************************************************)
EXTENDS Integers, Sequences, FiniteSets, Functions

CONSTANTS Names,        \* the names of methods, classes, ... : sequences of character codes
          MaxElements,  \* bound on the elements of a list or a hash table
          Slots,        \* the number of entries of a cache and of the fast class table
          MaxWaiting    \* bound on the classes that wait for one class

ASSUME HtmlTableAssumption ==
  /\ Names \subseteq Seq(33 .. 126) \ {<<>>}
  /\ MaxElements \in Nat /\ Slots \in Nat /\ MaxWaiting \in Nat

VARIABLES call,   \* the call: which renderer, for what, with which flags
          at,     \* the part of the table that is next
          k,      \* the loop variable
          read,   \* the number of entries of styling->headers that were read
          rows,   \* the pointer array of collected strings
          heap,   \* the collected strings not freed yet
          out     \* the tokens

vars == <<call, at, k, read, rows, heap, out>>

Quote == 34
Amp   == 38
Dot   == 46
Lt    == 60

\* stands for the text "bad-html"
BadHtml == <<98, 97, 100>>
html_escape(s) == IF {Amp, Lt} \intersect Range(s) = {} THEN s ELSE BadHtml

-------------------------------------------------------------------------------
(***************************************************************************)
(* Styles.  With a class prefix (css) a header cell is a TH, and rows carry*)
(* CSS classes; headers is the length of the array of column headers, which*)
(* has no NULL behind its last entry.                                      *)
(***************************************************************************)
Style(css, colspan, headers) == [css |-> css, colspan |-> colspan, headers |-> headers]
Inline   == Style(FALSE, 0, 0)
Css      == Style(TRUE, 0, 0)
Headed   == Style(TRUE, 4, 4)   \* descriptortable_style, ivartable_style
CssCache == Style(TRUE, 6, 0)
NoStyle  == [null |-> TRUE]

Use(page, of, row, style) == [page |-> page, of |-> of, row |-> row, style |-> style]

DotUniverseTables ==
  {Use("dot", "universe", "none", Inline),
   Use("dot", "hashmap", "descriptor_entry", Headed),
   Use("dot", "pointerarray", "staticstring_element", Inline),
   Use("dot", "fastclasstable", "fastclass_element", Inline),
   Use("dot", "hashtable", "loadclasslist_entry", Inline),
   Use("dot", "hashtable", "loadcategory_entry", Inline)}
  \union {Use("dot", "hashmap", row, Inline) :
            row \in {"protocol_entry", "loadcategory_entry", "super_entry", "class_entry"}}

DotClassTables ==
  {Use("dot", of, "none", Inline) : of \in {"class", "class_tiny", "methodlist", "cache"}}

DotInfraclassTables ==
  {Use("dot", of, "none", Inline) : of \in {"ivarlist_hor", "propertylist"}}

DotClasspairTables == {Use("dot", "uniqueidarray", "id_element", Inline)}

\* "wrapped": the index page puts a TABLE around the table, without row or cell
HtmlIndexTables ==
  {Use("html", "universe", "none", Css), Use("html", "hashmap", "class_entry", Css),
   Use("wrapped", "hashmap", "descriptor_entry", Headed),
   Use("wrapped", "staticstring", "none", Css)}
  \union {Use("wrapped", "hashmap", row, Css) : row \in {"protocol_entry", "loadcategory_entry"}}

HtmlClassTables ==
  {Use("html", of, "none", Css) : of \in {"class", "propertylist", "methodlist_hor"}}
  \union {Use("html", "ivarlist_hor", "none", Headed), Use("html", "cache", "none", CssCache),
          Use("html", "uniqueidarray", "id_element", Css)}

\* these test styling for NULL, for a caller that has a table open already
CallerTables ==
  {Use("caller", "propertylist", "none", NoStyle), Use("caller", "hashmap", "protocol_entry", NoStyle),
   Use("caller", "pointerarray", "staticstring_element", NoStyle),
   Use("caller", "fastclasstable", "fastclass_element", NoStyle),
   Use("caller", "hashtable", "loadcategory_entry", NoStyle),
   Use("caller", "uniqueidarray", "id_element", NoStyle)}

Uses == DotUniverseTables \union DotClassTables \union DotInfraclassTables
        \union DotClasspairTables \union HtmlIndexTables \union HtmlClassTables
        \union CallerTables

\* what is in the element's place when an entry is empty
Null == <<42>>
Lists == {l \in UNION {[1 .. n -> Names] : n \in 0 .. MaxElements} : IsInjective(l)}

\* an element is shown by its name; a table of fixed size has empty entries
ElementsOf(use) ==
  IF use.of \in {"universe", "staticstring", "class", "class_tiny"} THEN {<<>>}
  ELSE IF use.of \in {"cache", "fastclasstable"} THEN [1 .. Slots -> Names \union {Null}]
  ELSE Lists

\* how many classes are in each list of classes to load; the element is named after
\* the first of them
WaitingOf(use) ==
  IF use.row = "loadclasslist_entry" THEN [1 .. MaxElements -> 0 .. MaxWaiting] ELSE {<<>>}

\* TERSE: MULLE_OBJC_TERSE_TABLE; FIELDS: show_fields; CATEGORY: the list has a
\* category name; META: the class is a metaclass
Flags == SUBSET {"TERSE", "FIELDS", "CATEGORY", "META"}

-------------------------------------------------------------------------------
(***************************************************************************)
(* Tokens.  A row has the widths of its cells, what Graphviz may not like  *)
(* in it (TH, CLASS, A), and the number of the element it shows, or 0.     *)
(***************************************************************************)
Open(columns, marks)  == [tag |-> "table", columns |-> columns, marks |-> marks]
Row(cells, marks, of) == [tag |-> "row", cells |-> cells, marks |-> marks, of |-> of]
Closing               == [tag |-> "end", marks |-> {}]

Terse    == "TERSE" \in call.flags
HasStyle == call.use.style # NoStyle

\* faulty variant: the style is looked at, not its classprefix
HasCssIfStyled == HasStyle

HasCss   == HasStyle /\ call.use.style.css
HeadMark == IF HasCss THEN {"TH"} ELSE {}    \* th = classprefix ? "TH" : "TD"
Pair     == <<1, 1>>
Name(e)  == call.elements[e]

\* a row and the text it starts with, behind what all rows of the table start with
Text(cells, marks, e, text) == [of |-> e, toks |-> <<Row(cells, marks, e)>>, text |-> text]

\* super_entry, and the entries of categories and protocols
NameEntry(e) == Text(Pair, {}, e, Append(html_escape(Name(e)), Lt))

\* the name is first in the link
ClassEntry(e) == Text(Pair, {"A"}, e, Append(html_escape(Name(e)), Dot))

\* protocolid_element, categoryid_element: in quotes and not escaped
IdElement(e) == Text(Pair, {}, e, Append(Name(e), Quote))

\* faulty variant: a cell too many
DescriptorEntryWide(e) == Text(<<1, 1, 1, 1, 1>>, {}, e, Append(html_escape(Name(e)), Lt))

DescriptorEntry(e) ==
  Text(IF Terse THEN <<1>> ELSE <<1, 1, 1, 1>>, {}, e, Append(html_escape(Name(e)), Lt))

StaticstringElement(e) == Text(<<2>>, {}, e, Append(html_escape(Name(e)), Lt))
FastclassElement(e)    == Text(Pair, {}, e, Append(html_escape(Name(e)), Lt))
LoadclassElement(e)    == Row(Pair, {}, e)

\* a list of classes that wait: a table of its own, in the place of a row, which reads
\* like the class it begins with; an empty list goes on with "</TABLE>", before any "<TR>"
LoadclasslistEntry(e) ==
  [of   |-> e,
   toks |-> <<Open(2, {})>> \o [i \in 1 .. call.waiting[e] |-> LoadclassElement(e)] \o <<Closing>>,
   text |-> IF call.waiting[e] = 0 THEN <<>> ELSE Append(Name(e), Lt)]

IvarRow(e) == Text(IF Terse THEN <<1>> ELSE <<1, 1, 1, 1>>, {}, e, Append(html_escape(Name(e)), Lt))

\* unless terse, the second cell of a property or a method holds a table of its fields
PropertyRow(e) == Text(IF Terse THEN <<1>> ELSE Pair, {}, e, Append(html_escape(Name(e)), Lt))
MethodRow(e) ==
  Text(IF "FIELDS" \in call.flags THEN Pair ELSE <<2>>, {}, e, Append(html_escape(Name(e)), Lt))
MethodHorRow(e) ==
  Text(IF Terse THEN <<5>> ELSE <<1, 1, 1, 1, 1>>, {}, e, Append(html_escape(Name(e)), Lt))
CacheRow(e) == Text(<<1, 1, 1, 1, 1>>, {}, e, Append(Name(e), Lt))

\* the row_description callback, or the renderer's own format
Rendered(e) ==
  LET use == call.use
  IN  CASE use.row \in {"super_entry", "loadcategory_entry", "protocol_entry"} -> NameEntry(e)
        [] use.row = "class_entry"          -> ClassEntry(e)
        [] use.row = "id_element"           -> IdElement(e)
        [] use.row = "descriptor_entry"     -> DescriptorEntry(e)
        [] use.row = "staticstring_element" -> StaticstringElement(e)
        [] use.row = "fastclass_element"    -> FastclassElement(e)
        [] use.row = "loadclasslist_entry"  -> LoadclasslistEntry(e)
        [] use.of = "ivarlist_hor"   -> IvarRow(e)
        [] use.of = "propertylist"   -> PropertyRow(e)
        [] use.of = "methodlist"     -> MethodRow(e)
        [] use.of = "methodlist_hor" -> MethodHorRow(e)
        [] use.of = "cache"          -> CacheRow(e)

-------------------------------------------------------------------------------
(***************************************************************************)
(* The rows above those of the elements.                                   *)
(***************************************************************************)
UniverseRows     == <<Row(Pair, {}, 0)>>
StaticstringRows == <<Row(Pair, HeadMark, 0), Row(Pair, HeadMark, 0)>>
ClassRows ==
  IF "FIELDS" \notin call.flags THEN <<>>
  ELSE [i \in 1 .. (IF "META" \in call.flags THEN 3 ELSE 5) |-> Row(Pair, {}, 0)]
CategoryRow == IF "CATEGORY" \in call.flags THEN <<Row(Pair, {}, 0)>> ELSE <<>>

\* n and mask: a cell, and a cell as wide as the whole table
CacheHeadRows == <<Row(<<1, 5>>, {}, 0), Row(<<1, 5>>, {}, 0)>>

MethodHorHeadRow ==
  IF call.elements = <<>> THEN <<>>
  ELSE IF Terse THEN <<Row(IF HasCss THEN <<5>> ELSE <<1>>, HeadMark, 0)>>
  ELSE <<Row(<<1, 1, 1, 1, 1>>, HeadMark, 0)>>

FixedRows == CASE call.use.of = "universe"       -> UniverseRows
               [] call.use.of = "staticstring"   -> StaticstringRows
               [] call.use.of = "class"          -> ClassRows
               [] call.use.of = "methodlist"     -> CategoryRow
               [] call.use.of = "cache"          -> CacheHeadRows
               [] call.use.of = "methodlist_hor" -> MethodHorHeadRow
               [] OTHER                          -> <<>>

(***************************************************************************)
(* mulle_buffer_add_table_header_colspan: the columns of the table.        *)
(***************************************************************************)
Colspan == CASE call.use.of = "ivarlist_hor" -> 4
             [] call.use.of \in {"methodlist_hor", "cache"} -> 5
             [] OTHER -> call.use.style.colspan
Columns == IF Colspan = 0 THEN 2 ELSE Colspan

-------------------------------------------------------------------------------
\* the TABLE the index page puts around some of the tables
WrapperStart == IF call.use.page = "wrapped" THEN <<Open(0, {"CLASS"})>> ELSE <<>>
WrapperEnd   == IF call.use.page = "wrapped" THEN <<Closing>> ELSE <<>>

Calls == UNION {[use : {use}, elements : ElementsOf(use), flags : Flags, waiting : WaitingOf(use)] :
                  use \in Uses}

Init == /\ call \in Calls
        /\ at = "header"
        /\ k = 0 /\ read = 0
        /\ rows = <<>> /\ heap = {}
        /\ out = WrapperStart

Put(tokens) == out' = out \o tokens

\* faulty variant: the loop variable is not set again
GoOnFrom(part) == at' = part /\ UNCHANGED k

GoOn(part) == at' = part /\ k' = 0

\* without a style there is no header
Header ==
  /\ at = "header"
  /\ IF HasStyle
       THEN /\ Put(<<Open(Columns, IF HasCss THEN {"CLASS", "TH"} ELSE {})>>)
            /\ GoOn("columns")
       ELSE GoOn("fixed") /\ UNCHANGED out
  /\ UNCHANGED <<call, read, rows, heap>>

\* faulty variant: *header && i < num_columns
ReadsHeaderFirst(i) == TRUE

\* i < num_columns && *header: the entry is read only if the first part holds
ReadsHeader(i) == i < Columns

HasHeaders == call.use.style.headers # 0 /\ Columns > 2

(***************************************************************************)
(* One turn of the loop of mulle_buffer_add_column_headers, or its end.    *)
(***************************************************************************)
ColumnHeader ==
  /\ at = "columns"
  /\ read' = IF HasHeaders /\ ReadsHeader(k) THEN k + 1 ELSE read
  /\ IF HasHeaders /\ k < Columns
       THEN k' = k + 1 /\ UNCHANGED <<at, out>>
       ELSE /\ GoOn("fixed")
            /\ Put(IF HasHeaders
                       THEN <<Row([i \in 1 .. k |-> 1], HeadMark \union {"CLASS"}, 0)>>
                       ELSE <<>>)
  /\ UNCHANGED <<call, rows, heap>>

Sorts == call.use.of \in {"propertylist", "methodlist", "hashmap", "hashtable", "uniqueidarray"}

FixedPart == /\ at = "fixed"
             /\ Put(FixedRows)
             /\ GoOn(IF Sorts THEN "collect" ELSE "rows")
             /\ UNCHANGED <<call, read, rows, heap>>

Left == k < Len(call.elements)

\* the row of the next element goes straight into the buffer
DirectRow == /\ at = "rows" /\ Left
             /\ Put(Rendered(k + 1).toks)
             /\ k' = k + 1
             /\ UNCHANGED <<call, at, read, rows, heap>>

\* the row goes into a string of its own, which mulle_buffer_do_string allocates
CollectRow == /\ at = "collect" /\ Left
              /\ rows' = Append(rows, Rendered(k + 1))
              /\ heap' = heap \union {k + 1}
              /\ k' = k + 1
              /\ UNCHANGED <<call, at, read, out>>

\* strcmp(a, b) <= 0
AtMost(a, b) ==
  \/ Len(a) <= Len(b) /\ \A i \in DOMAIN a : a[i] = b[i]
  \/ \E i \in DOMAIN a \intersect DOMAIN b :
       a[i] < b[i] /\ \A j \in 1 .. i - 1 : a[j] = b[j]

\* faulty variant: the rows stay as collected
SortNothing == /\ at = "collect" /\ ~ Left
               /\ GoOn("emit")
               /\ UNCHANGED <<call, read, rows, heap, out>>

\* mulle_qsort_r by the text of the rows; equal rows end up in any order
Sorted(r) == {s \in {[i \in DOMAIN r |-> r[p[i]]] :
                       p \in {q \in [DOMAIN r -> DOMAIN r] : IsInjective(q)}} :
                \A i, j \in DOMAIN s : i < j => AtMost(s[i].text, s[j].text)}

SortRows == /\ at = "collect" /\ ~ Left
            /\ rows' \in Sorted(rows)
            /\ GoOn("emit")
            /\ UNCHANGED <<call, read, heap, out>>

\* faulty variant: a row that reads like the one before it is left out, and not freed
EmitRowUnlessSame == /\ at = "emit" /\ k < Len(rows)
                     /\ IF k > 0 /\ rows[k].text = rows[k + 1].text
                          THEN UNCHANGED <<heap, out>>
                          ELSE Put(rows[k + 1].toks) /\ heap' = heap \ {rows[k + 1].of}
                     /\ k' = k + 1
                     /\ UNCHANGED <<call, at, read, rows>>

\* the string is added to the buffer and freed
EmitRow == /\ at = "emit" /\ k < Len(rows)
           /\ Put(rows[k + 1].toks)
           /\ heap' = heap \ {rows[k + 1].of}
           /\ k' = k + 1
           /\ UNCHANGED <<call, at, read, rows>>

\* those that test styling for the header test it for the end tag, all but one
Closes == HasStyle \/ call.use.of = "propertylist"

Close == /\ \/ at = "rows" /\ ~ Left
            \/ at = "emit" /\ k = Len(rows)
         /\ Put((IF Closes THEN <<Closing>> ELSE <<>>) \o WrapperEnd)
         /\ GoOn("end")
         /\ UNCHANGED <<call, read, rows, heap>>

Next == Header \/ ColumnHeader \/ FixedPart \/ DirectRow
        \/ CollectRow \/ SortRows \/ EmitRow \/ Close

Spec == Init /\ [][Next]_vars

-------------------------------------------------------------------------------
TypeOK == /\ call \in Calls
          /\ at \in {"header", "columns", "fixed", "rows", "collect", "emit", "end"}
          /\ k \in 0 .. (IF at = "columns" THEN Columns ELSE Len(call.elements))
          /\ read \in Nat
          /\ \A i \in DOMAIN rows : rows[i].of \in DOMAIN call.elements
          /\ heap \subseteq DOMAIN call.elements
          /\ \A i \in DOMAIN out : out[i].tag \in {"table", "row", "end"}

Tagged(tag, i, j) == {t \in i .. j : out[t].tag = tag}
Depth(i, j) == Cardinality(Tagged("table", i, j)) - Cardinality(Tagged("end", i, j))

\* the table that token i stands in: the last one before i still open at i
Around(i) == {t \in Tagged("table", 1, i - 1) :
                /\ Depth(t, i - 1) = 1
                /\ \A u \in t + 1 .. i - 1 : Depth(t, u) >= 1}

(***************************************************************************)
(* Every table is closed once, and no row stands outside of a table.  A    *)
(* caller without a style gets bare rows for a table of its own; of these  *)
(* the property list alone closes the table for it (mulle-objc-html.c:804).*)
(***************************************************************************)
TablesBalanced ==
  IF HasStyle
    THEN /\ \A i \in DOMAIN out : Depth(1, i) >= (IF out[i].tag = "row" THEN 1 ELSE 0)
         /\ at = "end" => Depth(1, Len(out)) = 0
    ELSE /\ Tagged("table", 1, Len(out)) = {}
         /\ at = "end" => (Tagged("end", 1, Len(out)) # {} <=> call.use.of = "propertylist")

(***************************************************************************)
(* A table in a table stands in a cell, except where the index page wraps  *)
(* a table and where classes to load are listed: there a TABLE is directly *)
(* in a TABLE.                                                             *)
(***************************************************************************)
TablesInCells ==
  \A i \in Tagged("table", 1, Len(out)) :
    Around(i) # {} => call.use.page = "wrapped" \/ call.use.row = "loadclasslist_entry"

(***************************************************************************)
(* The rows of a table are as wide as its header says.  Under              *)
(* MULLE_OBJC_TERSE_TABLE they may be narrower, never wider.  The first    *)
(* two rows of a cache are one column wider than the table: their second   *)
(* cell alone spans all of it (lines 829 and 833).                         *)
(***************************************************************************)
Width(row) == LET upTo[i \in 0 .. Len(row.cells)] ==
                    IF i = 0 THEN 0 ELSE upTo[i - 1] + row.cells[i]
              IN  upTo[Len(row.cells)]
RowsFit ==
  \A i \in Tagged("row", 1, Len(out)) : \A t \in Around(i) :
    \/ Width(out[i]) = out[t].columns
    \/ Terse /\ Width(out[i]) < out[t].columns
    \/ call.use.of = "cache" /\ out[i].of = 0 /\ Width(out[i]) = out[t].columns + 1

WellFormed == TablesBalanced /\ TablesInCells /\ RowsFit

(***************************************************************************)
(* However the rows are collected and sorted, the finished table shows each*)
(* element in one row, a list of classes to load in one row for each class *)
(* and these together, and every collected string has been freed.          *)
(***************************************************************************)
ElementRows == {i \in DOMAIN out : out[i].tag = "row" /\ out[i].of # 0}
RowsOf(e) == IF call.use.row = "loadclasslist_entry" THEN call.waiting[e] ELSE 1
EveryRowOnce ==
  at = "end" =>
    /\ heap = {}
    /\ \A i \in ElementRows : out[i].of \in DOMAIN call.elements
    /\ \A e \in DOMAIN call.elements : \E i \in DOMAIN out :
         {j \in ElementRows : out[j].of = e} = i .. i + RowsOf(e) - 1

(***************************************************************************)
(* "sort by name" (mulle-objc-html.c:923): where rows are sorted, they are *)
(* in the order of the names they show.  The text compared goes on behind  *)
(* the name: a name comes before one it continues with a character below   *)
(* what follows, so where that is a '<' a method "foo:" stands above "foo".*)
(* A list of classes to load stands where its first class belongs.         *)
(***************************************************************************)
Shown(e) == IF call.use.row \in {"id_element", "loadclasslist_entry"}
              THEN Name(e) ELSE html_escape(Name(e))
Follows == CASE call.use.row = "class_entry" -> Dot
             [] call.use.row = "id_element"  -> Quote
             [] OTHER                        -> Lt
Overtakes(a, b) ==    \* a is b and more, and goes on with a character below what follows b
  /\ Len(b) < Len(a) /\ \A i \in DOMAIN b : a[i] = b[i]
  /\ a[Len(b) + 1] < Follows

NamesInOrder ==
  Sorts /\ at = "end" =>
    \A i, j \in ElementRows :
      LET a == Shown(out[i].of)
          b == Shown(out[j].of)
      IN  i < j => \/ Overtakes(a, b)
                   \/ AtMost(a, b) /\ ~ Overtakes(b, a)

(***************************************************************************)
(* "NULL = inline style (graphviz mode)" (toc/index.md:174), "graphviz     *)
(* don't like CLASS, can't deal with TH" (mulle-objc-html.c:178): a label  *)
(* of a DOT node has no CSS class, no TH and no link.  Two tables break    *)
(* this: the selectors, whose style in mulle-objc-dotdump.c has a class    *)
(* prefix, and the classes, whose rows are links to HTML pages.            *)
(***************************************************************************)
Marks == UNION {out[i].marks : i \in DOMAIN out}
GraphvizDialect ==
  call.use.page = "dot" => CASE call.use.row = "descriptor_entry" -> "A" \notin Marks
                             [] call.use.row = "class_entry"      -> Marks \subseteq {"A"}
                             [] OTHER                             -> Marks = {}

(***************************************************************************)
(* The arrays of column headers end without a NULL, so only the number of  *)
(* columns keeps the loop from reading behind their last entry; and it     *)
(* does not stop short of it.                                              *)
(***************************************************************************)
HeadersRead ==
  HasStyle => /\ read <= call.use.style.headers
              /\ at = "end" => read = call.use.style.headers
=============================================================================
