--------------------------- MODULE HtmlTable_proofs ---------------------------
(***************************************************************************)
(* Proofs about the table renderers, for any set of names, any lists of    *)
(* them and caches of any size.                                            *)
(***************************************************************************)
EXTENDS HtmlTable, FiniteSetTheorems, TLAPS

-------------------------------------------------------------------------------
(***************************************************************************)
(* The uses of the renderers: which styles, rows and pages there are, and  *)
(* what goes together.                                                     *)
(***************************************************************************)
RowNames == {"descriptor_entry", "staticstring_element", "fastclass_element", "loadclasslist_entry",
             "protocol_entry", "loadcategory_entry", "super_entry", "class_entry", "id_element"}
OwnRows  == {"ivarlist_hor", "propertylist", "methodlist", "methodlist_hor", "cache"}
NoRows   == {"universe", "staticstring", "class", "class_tiny"}

Fits(use) ==
  /\ use.style \in {Inline, Css, Headed, CssCache, NoStyle}
  /\ use.row \in RowNames \/ (use.row = "none" /\ use.of \in OwnRows \union NoRows)
  /\ use.row \in RowNames => use.of \notin OwnRows \union NoRows
  /\ use.style = Headed => use.of = "ivarlist_hor" \/ (use.of = "hashmap" /\ use.row = "descriptor_entry")
  /\ use.style = CssCache => use.of = "cache"
  /\ use.page = "dot" => use.style = Inline \/ use.row = "descriptor_entry"
  /\ use.page = "caller" <=> use.style = NoStyle
  /\ use.page = "wrapped" => use.style = Css \/ use.row = "descriptor_entry"
  /\ use.row = "descriptor_entry" => use.style = Headed
  /\ use.row = "loadclasslist_entry" =>
       use.page = "dot" /\ use.style = Inline /\ use.of = "hashtable"

LEMMA StylesDiffer ==
  /\ \A css, colspan, headers : Style(css, colspan, headers) # NoStyle
  /\ Inline # NoStyle /\ Css # NoStyle /\ Headed # NoStyle /\ CssCache # NoStyle
  /\ ~ Inline.css /\ Inline.colspan = 0 /\ Inline.headers = 0
  /\ Css.css /\ Css.colspan = 0 /\ Css.headers = 0
  /\ Headed.css /\ Headed.colspan = 4 /\ Headed.headers = 4
  /\ CssCache.css /\ CssCache.colspan = 6 /\ CssCache.headers = 0
<1>1. ASSUME NEW css, NEW colspan, NEW headers PROVE Style(css, colspan, headers) # NoStyle
  <2>1. DOMAIN Style(css, colspan, headers) = {"css", "colspan", "headers"}
    BY DEF Style
  <2>2. DOMAIN NoStyle = {"null"}
    BY DEF NoStyle
  <2>3. "css" # "null"
    OBVIOUS
  <2> QED BY <2>1, <2>2, <2>3
<1>2. /\ Inline # NoStyle /\ Css # NoStyle /\ Headed # NoStyle /\ CssCache # NoStyle
  BY <1>1 DEF Inline, Css, Headed, CssCache
<1> QED BY <1>1, <1>2 DEF Inline, Css, Headed, CssCache, Style

LEMMA StylesApart ==
  /\ Inline # Css /\ Inline # Headed /\ Inline # CssCache
  /\ Css # Headed /\ Css # CssCache /\ Headed # CssCache
BY StylesDiffer

LEMMA UsesFit == \A use \in Uses : Fits(use)
<1> USE StylesDiffer, StylesApart
<1>1. \A page, of, row, style :
        /\ Use(page, of, row, style).page = page /\ Use(page, of, row, style).of = of
        /\ Use(page, of, row, style).row = row /\ Use(page, of, row, style).style = style
  BY DEF Use
<1>2. \A use \in DotUniverseTables : Fits(use)
  BY <1>1 DEF DotUniverseTables, Fits, RowNames, OwnRows, NoRows
<1>3. \A use \in DotClassTables \union DotInfraclassTables \union DotClasspairTables : Fits(use)
  BY <1>1 DEF DotClassTables, DotInfraclassTables, DotClasspairTables, Fits, RowNames, OwnRows, NoRows
<1>4. \A use \in HtmlIndexTables : Fits(use)
  BY <1>1 DEF HtmlIndexTables, Fits, RowNames, OwnRows, NoRows
<1>5. \A use \in HtmlClassTables : Fits(use)
  BY <1>1 DEF HtmlClassTables, Fits, RowNames, OwnRows, NoRows
<1>6. \A use \in CallerTables : Fits(use)
  BY <1>1 DEF CallerTables, Fits, RowNames, OwnRows, NoRows
<1> QED BY <1>2, <1>3, <1>4, <1>5, <1>6 DEF Uses
-------------------------------------------------------------------------------
(***************************************************************************)
(* Tokens with marks of M only, and the marks each kind of table has.      *)
(***************************************************************************)
Token(M) == [tag : {"table"}, columns : Nat, marks : SUBSET M]
            \union [tag : {"row"}, cells : Seq(Nat), marks : SUBSET M, of : Nat]
            \union {Closing}

\* the elements are lists of classes to load
Nested == call.use.row = "loadclasslist_entry"

Allowed == IF call.use.page # "dot" THEN {"TH", "CLASS", "A"}
           ELSE CASE call.use.row = "descriptor_entry" -> {"TH", "CLASS"}
                  [] call.use.row = "class_entry"      -> {"A"}
                  [] OTHER                             -> {}

LEMMA TokenFields ==
  ASSUME NEW M, NEW t \in Token(M)
  PROVE  t.tag \in {"table", "row", "end"} /\ t.marks \subseteq M /\ (t.tag = "row" => t.of \in Nat)
BY DEF Token, Closing

LEMMA TokensMade ==
  ASSUME NEW M
  PROVE  /\ Closing \in Token(M) /\ Closing.tag = "end"
         /\ \A columns \in Nat, marks \in SUBSET M :
              Open(columns, marks) \in Token(M) /\ Open(columns, marks).tag = "table"
         /\ \A cells \in Seq(Nat), marks \in SUBSET M, e \in Nat :
              /\ Row(cells, marks, e) \in Token(M)
              /\ Row(cells, marks, e).tag = "row" /\ Row(cells, marks, e).of = e
BY DEF Token, Closing, Open, Row

\* The cells the renderers write.
LEMMA CellsMade ==
  /\ Pair \in Seq(Nat) /\ <<1>> \in Seq(Nat) /\ <<2>> \in Seq(Nat) /\ <<5>> \in Seq(Nat)
  /\ <<1, 5>> \in Seq(Nat) /\ <<1, 1, 1, 1>> \in Seq(Nat) /\ <<1, 1, 1, 1, 1>> \in Seq(Nat)
  /\ \A m \in Nat : [i \in 1 .. m |-> 1] \in Seq(Nat)
BY DEF Pair

(***************************************************************************)
(* Which of the tokens show elements.                                      *)
(***************************************************************************)
IsElement(t)  == t.tag = "row" /\ t.of # 0
Plain(toks)   == \A i \in DOMAIN toks : ~ IsElement(toks[i])
Shows(toks, e, n) ==    \* n rows, from the r-th token on
  \E r \in DOMAIN toks :
    /\ n \in Nat /\ r .. r + n - 1 \subseteq DOMAIN toks
    /\ \A i \in DOMAIN toks : /\ IsElement(toks[i]) <=> i \in r .. r + n - 1
                              /\ IsElement(toks[i]) => toks[i].of = e

\* What a call is about: a sequence of names, and none for the tables without rows.
LEMMA CallFacts ==
  ASSUME call \in Calls
  PROVE  /\ Fits(call.use)
         /\ call.elements \in Seq(Names \union {Null})
         /\ Len(call.elements) \in Nat /\ DOMAIN call.elements = 1 .. Len(call.elements)
         /\ call.use.of \in NoRows => call.elements = <<>>
         /\ Sorts => call.elements \in Seq(Names)
         /\ call.use.row = "loadclasslist_entry" =>
              \A e \in DOMAIN call.elements : call.waiting[e] \in Nat
<1>1. PICK use \in Uses :
        call \in [use : {use}, elements : ElementsOf(use), flags : Flags, waiting : WaitingOf(use)]
  BY DEF Calls
<1>2. call.use = use /\ call.elements \in ElementsOf(use)
  BY <1>1
<1>3. \A l \in Lists : l \in Seq(Names)
  <2> SUFFICES ASSUME NEW m \in 0 .. MaxElements, NEW l \in [1 .. m -> Names] PROVE l \in Seq(Names)
    BY DEF Lists
  <2>1. m \in Nat
    BY HtmlTableAssumption
  <2> QED BY <2>1
<1>4. \A l \in [1 .. Slots -> Names \union {Null}] : l \in Seq(Names \union {Null})
  BY HtmlTableAssumption
<1>5. \A l \in Seq(Names) : l \in Seq(Names \union {Null})
  OBVIOUS
<1>6. ASSUME use.row = "loadclasslist_entry", NEW e \in DOMAIN call.elements
      PROVE  call.waiting[e] \in Nat
  <2>1. use.of = "hashtable"
    BY <1>6, UsesFit DEF Fits
  <2>2. PICK m \in 0 .. MaxElements : call.elements \in [1 .. m -> Names]
    BY <1>2, <2>1 DEF ElementsOf, Lists
  <2>3. e \in 1 .. MaxElements
    BY <1>6, <2>2, HtmlTableAssumption
  <2>4. call.waiting \in [1 .. MaxElements -> 0 .. MaxWaiting]
    BY <1>1, <1>6 DEF WaitingOf
  <2>5. call.waiting[e] \in 0 .. MaxWaiting
    BY <2>3, <2>4
  <2> QED BY <2>5, HtmlTableAssumption
<1>7. CASE use.of \in NoRows
  <2>1. call.elements = <<>>
    BY <1>2, <1>7 DEF ElementsOf, NoRows
  <2>2. ~ Sorts
    BY <1>2, <1>7 DEF Sorts, NoRows
  <2>3. /\ <<>> \in Seq(Names \union {Null}) /\ Len(<<>>) \in Nat
        /\ DOMAIN <<>> = 1 .. Len(<<>>)
    OBVIOUS
  <2> QED BY <1>2, <1>6, <2>1, <2>2, <2>3, UsesFit
<1>8. CASE use.of \in {"cache", "fastclasstable"}
  <2>1. use.of \notin NoRows
    BY <1>8 DEF NoRows
  <2>2. call.elements \in Seq(Names \union {Null})
    BY <1>2, <1>4, <1>8, <2>1 DEF ElementsOf, NoRows
  <2> QED BY <1>2, <1>8, <1>6, <2>1, <2>2, UsesFit DEF Sorts
<1>9. CASE use.of \notin NoRows \union {"cache", "fastclasstable"}
  <2>1. call.elements \in Seq(Names)
    BY <1>2, <1>3, <1>9 DEF ElementsOf, NoRows
  <2> QED BY <1>2, <1>5, <1>9, <1>6, <2>1, UsesFit
<1> QED BY <1>7, <1>8, <1>9

LEMMA TextMade ==
  ASSUME NEW M, NEW cells, cells \in Seq(Nat), NEW marks, marks \subseteq M,
         NEW e, e \in Nat, e # 0, NEW text
  PROVE  /\ Text(cells, marks, e, text).of = e
         /\ Text(cells, marks, e, text).text = text
         /\ Text(cells, marks, e, text).toks \in Seq(Token(M))
         /\ Shows(Text(cells, marks, e, text).toks, e, 1)
         /\ Text(cells, marks, e, text).toks = <<Row(cells, marks, e)>>
<1>1. Row(cells, marks, e) \in Token(M) /\ Row(cells, marks, e).tag = "row" /\ Row(cells, marks, e).of = e
  BY TokensMade
<1>2. Text(cells, marks, e, text).toks = <<Row(cells, marks, e)>>
  BY DEF Text
<1>3. Shows(<<Row(cells, marks, e)>>, e, 1)
  <2>1. PICK t : t = Row(cells, marks, e)
    OBVIOUS
  <2>2. DOMAIN <<t>> = {1} /\ <<t>>[1] = t /\ t.tag = "row" /\ t.of = e
    BY <1>1, <2>1
  <2>3. 1 .. 1 + 1 - 1 = {1} /\ 1 \in Nat
    OBVIOUS
  <2> QED BY <2>1, <2>2, <2>3 DEF Shows, IsElement
<1> QED BY <1>1, <1>2, <1>3 DEF Text

\* A list of n classes: a table of its own with n rows.
ListTokens(n, e) == <<Open(2, {})>> \o [i \in 1 .. n |-> Row(Pair, {}, e)] \o <<Closing>>

LEMMA ListFacts ==
  ASSUME NEW M, NEW n \in Nat, NEW e \in Nat, e # 0
  PROVE  LET toks == ListTokens(n, e)
         IN  /\ toks \in Seq(Token(M)) /\ Len(toks) = n + 2 /\ DOMAIN toks = 1 .. n + 2
             /\ toks[1] = Open(2, {}) /\ toks[n + 2] = Closing
             /\ \A i \in 2 .. n + 1 : toks[i] = Row(Pair, {}, e)
             /\ Shows(toks, e, n)
<1>1. PICK T, a, b, c, toks : /\ T = Token(M) /\ a = Open(2, {}) /\ b = Row(Pair, {}, e) /\ c = Closing
                              /\ toks = <<a>> \o [i \in 1 .. n |-> b] \o <<c>>
  OBVIOUS
<1>2. /\ a \in T /\ b \in T /\ c \in T
      /\ a.tag = "table" /\ b.tag = "row" /\ b.of = e /\ c.tag = "end"
  <2>1. {} \in SUBSET M /\ 2 \in Nat
    OBVIOUS
  <2> QED BY <1>1, <2>1, TokensMade, CellsMade
<1>3. /\ toks \in Seq(T) /\ Len(toks) = n + 2 /\ DOMAIN toks = 1 .. n + 2
      /\ toks[1] = a /\ toks[n + 2] = c /\ \A i \in 2 .. n + 1 : toks[i] = b
  <2>1. PICK m : m = [i \in 1 .. n |-> b]
    OBVIOUS
  <2>2. m \in Seq(T) /\ Len(m) = n /\ \A i \in 1 .. n : m[i] = b
    BY <1>2, <2>1
  <2>3. PICK p : p = <<a>> \o m
    OBVIOUS
  <2>4. p \in Seq(T) /\ Len(p) = n + 1 /\ p[1] = a /\ \A i \in 1 .. n : p[1 + i] = m[i]
    BY <1>2, <2>2, <2>3
  <2>5. \A i \in 2 .. n + 1 : p[i] = b
    <3> SUFFICES ASSUME NEW i \in 2 .. n + 1 PROVE p[i] = b
      OBVIOUS
    <3>1. i - 1 \in 1 .. n /\ 1 + (i - 1) = i
      OBVIOUS
    <3> QED BY <2>2, <2>4, <3>1
  <2>6. toks = p \o <<c>>
    BY <1>1, <2>1, <2>3
  <2>7. /\ toks \in Seq(T) /\ Len(toks) = n + 2 /\ DOMAIN toks = 1 .. n + 2
        /\ \A i \in 1 .. n + 1 : toks[i] = p[i]
        /\ toks[n + 2] = c
    BY <1>2, <2>4, <2>6
  <2> QED BY <2>4, <2>5, <2>7
<1>4. Shows(toks, e, n)
  <2>1. 2 \in DOMAIN toks /\ 2 .. 2 + n - 1 = 2 .. n + 1 /\ 2 .. n + 1 \subseteq DOMAIN toks
    BY <1>3
  <2>2. ASSUME NEW i \in DOMAIN toks
        PROVE  /\ IsElement(toks[i]) <=> i \in 2 .. n + 1
               /\ IsElement(toks[i]) => toks[i].of = e
    <3>1. i = 1 \/ i = n + 2 \/ i \in 2 .. n + 1
      BY <1>3
    <3>2. CASE i = 1
      BY <1>2, <1>3, <3>2 DEF IsElement
    <3>3. CASE i = n + 2
      BY <1>2, <1>3, <3>3 DEF IsElement
    <3>4. CASE i \in 2 .. n + 1
      BY <1>2, <1>3, <3>4 DEF IsElement
    <3> QED BY <3>1, <3>2, <3>3, <3>4
  <2> QED BY <2>1, <2>2 DEF Shows
<1> QED BY <1>1, <1>3, <1>4 DEF ListTokens

\* What is rendered for an element are its rows, with no marks the table must not have, and
\* where they are sorted the text is the name shown and what follows it.
LEMMA RenderedFacts ==
  ASSUME call \in Calls, NEW e \in DOMAIN call.elements
  PROVE  /\ Rendered(e).of = e
         /\ RowsOf(e) \in Nat
         /\ Rendered(e).toks \in Seq(Token(Allowed)) /\ Shows(Rendered(e).toks, e, RowsOf(e))
         /\ Sorts /\ RowsOf(e) # 0 => Rendered(e).text = Append(Shown(e), Follows)
<1> DEFINE row == call.use.row
           of == call.use.of
<1>1. /\ e \in Nat \ {0} /\ of \notin NoRows
      /\ row \in RowNames \/ (row = "none" /\ of \in OwnRows)
      /\ row \in RowNames => of \notin OwnRows
  BY CallFacts DEF Fits
<1>2. ASSUME NEW cells \in Seq(Nat), NEW marks \in SUBSET Allowed, NEW text,
             Rendered(e) = Text(cells, marks, e, text),
             Sorts => text = Append(Shown(e), Follows), row # "loadclasslist_entry"
      PROVE  /\ Rendered(e).of = e
             /\ RowsOf(e) \in Nat
             /\ Rendered(e).toks \in Seq(Token(Allowed)) /\ Shows(Rendered(e).toks, e, RowsOf(e))
             /\ Sorts /\ RowsOf(e) # 0 => Rendered(e).text = Append(Shown(e), Follows)
  <2>1. /\ Text(cells, marks, e, text).of = e /\ Text(cells, marks, e, text).text = text
        /\ Text(cells, marks, e, text).toks \in Seq(Token(Allowed))
        /\ Shows(Text(cells, marks, e, text).toks, e, 1)
    <3>1. e \in Nat /\ e # 0
      BY <1>1
    <3>2. PICK M : M = Allowed
      OBVIOUS
    <3> HIDE DEF row, of
    <3>3. marks \subseteq M
      BY <3>2
    <3>4. Text(cells, marks, e, text).toks \in Seq(Token(M))
      BY <3>1, <3>3, TextMade
    <3>5. Text(cells, marks, e, text).of = e /\ Text(cells, marks, e, text).text = text
      BY DEF Text
    <3>6. Shows(Text(cells, marks, e, text).toks, e, 1)
      BY <3>1, <3>3, TextMade
    <3> QED BY <3>2, <3>4, <3>5, <3>6
  <2>2. RowsOf(e) = 1
    BY <1>2 DEF RowsOf
  <2> QED BY <1>2, <2>1, <2>2
<1>0. {} \in SUBSET Allowed
  OBVIOUS
<1> USE CellsMade
<1>3. CASE row \in {"super_entry", "loadcategory_entry", "protocol_entry"}
  <2>1. Rendered(e) = NameEntry(e)
    BY <1>1, <1>3 DEF Rendered, OwnRows
  <2>2. Shown(e) = html_escape(Name(e)) /\ Follows = Lt
    BY <1>3 DEF Shown, Follows
  <2>3. Rendered(e) = Text(Pair, {}, e, Append(Shown(e), Follows))
    BY <2>1, <2>2 DEF NameEntry
  <2> QED BY <1>2, <1>3, <1>0, <2>3
<1>4. CASE row = "class_entry"
  <2>1. Rendered(e) = ClassEntry(e)
    BY <1>1, <1>4 DEF Rendered, OwnRows
  <2>2. Shown(e) = html_escape(Name(e)) /\ Follows = Dot
    BY <1>4 DEF Shown, Follows
  <2>3. {"A"} \in SUBSET Allowed
    BY <1>4 DEF Allowed
  <2>4. Rendered(e) = Text(Pair, {"A"}, e, Append(Shown(e), Follows))
    BY <2>1, <2>2 DEF ClassEntry
  <2> QED BY <1>2, <1>4, <2>3, <2>4
<1>5. CASE row = "id_element"
  <2>1. Rendered(e) = IdElement(e)
    BY <1>1, <1>5 DEF Rendered, OwnRows
  <2>2. Shown(e) = Name(e) /\ Follows = Quote
    BY <1>5 DEF Shown, Follows
  <2>3. Rendered(e) = Text(Pair, {}, e, Append(Shown(e), Follows))
    BY <2>1, <2>2 DEF IdElement
  <2> QED BY <1>2, <1>5, <1>0, <2>3
<1>6. CASE row = "descriptor_entry"
  <2>1. Rendered(e) = DescriptorEntry(e)
    BY <1>1, <1>6 DEF Rendered, OwnRows
  <2>2. Shown(e) = html_escape(Name(e)) /\ Follows = Lt
    BY <1>6 DEF Shown, Follows
  <2>3. \E cells \in Seq(Nat) : Rendered(e) = Text(cells, {}, e, Append(Shown(e), Follows))
    BY <2>1, <2>2 DEF DescriptorEntry
  <2> QED BY <1>2, <1>6, <1>0, <2>3
<1>7. CASE row = "staticstring_element"
  <2>1. Rendered(e) = StaticstringElement(e)
    BY <1>1, <1>7 DEF Rendered, OwnRows
  <2>2. Shown(e) = html_escape(Name(e)) /\ Follows = Lt
    BY <1>7 DEF Shown, Follows
  <2>3. Rendered(e) = Text(<<2>>, {}, e, Append(Shown(e), Follows))
    BY <2>1, <2>2 DEF StaticstringElement
  <2> QED BY <1>2, <1>7, <1>0, <2>3
<1>8. CASE row = "fastclass_element"
  <2>1. Rendered(e) = FastclassElement(e)
    BY <1>1, <1>8 DEF Rendered, OwnRows
  <2>2. Shown(e) = html_escape(Name(e)) /\ Follows = Lt
    BY <1>8 DEF Shown, Follows
  <2>3. Rendered(e) = Text(Pair, {}, e, Append(Shown(e), Follows))
    BY <2>1, <2>2 DEF FastclassElement
  <2> QED BY <1>2, <1>8, <1>0, <2>3
<1>9. CASE row = "loadclasslist_entry"
  <2>1. PICK n, toks, text : /\ n = call.waiting[e] /\ toks = ListTokens(n, e)
                             /\ text = IF n = 0 THEN <<>> ELSE Append(Name(e), Lt)
    OBVIOUS
  <2>2. Rendered(e) = [of |-> e, toks |-> toks, text |-> text]
    <3>1. Rendered(e) = LoadclasslistEntry(e)
      BY <1>1, <1>9 DEF Rendered, OwnRows
    <3> QED BY <2>1, <3>1 DEF LoadclasslistEntry, LoadclassElement, ListTokens
  <2>3. RowsOf(e) = n /\ n \in Nat
    BY <1>9, <2>1, CallFacts DEF RowsOf
  <2>4. toks \in Seq(Token(Allowed)) /\ Shows(toks, e, n)
    BY <1>0, <1>1, <2>1, <2>3, ListFacts
  <2>5. n # 0 => text = Append(Shown(e), Follows)
    BY <1>9, <2>1 DEF Shown, Follows
  <2> QED BY <2>2, <2>3, <2>4, <2>5
<1>10. CASE row = "none" /\ of \in {"ivarlist_hor", "propertylist", "methodlist", "methodlist_hor"}
  <2>1. Shown(e) = html_escape(Name(e)) /\ Follows = Lt
    BY <1>10 DEF Shown, Follows
  <2>2. CASE of = "ivarlist_hor"
    <3>1. Rendered(e) = IvarRow(e)
      BY <1>10, <2>2 DEF Rendered
    <3>2. \E cells \in Seq(Nat) : Rendered(e) = Text(cells, {}, e, Append(Shown(e), Follows))
      BY <2>1, <3>1 DEF IvarRow
    <3> QED BY <1>2, <1>10, <1>0, <3>2
  <2>3. CASE of = "propertylist"
    <3>1. Rendered(e) = PropertyRow(e)
      BY <1>10, <2>3 DEF Rendered
    <3>2. \E cells \in Seq(Nat) : Rendered(e) = Text(cells, {}, e, Append(Shown(e), Follows))
      BY <2>1, <3>1 DEF PropertyRow
    <3> QED BY <1>2, <1>10, <1>0, <3>2
  <2>4. CASE of = "methodlist"
    <3>1. Rendered(e) = MethodRow(e)
      BY <1>10, <2>4 DEF Rendered
    <3>2. \E cells \in Seq(Nat) : Rendered(e) = Text(cells, {}, e, Append(Shown(e), Follows))
      BY <2>1, <3>1 DEF MethodRow
    <3> QED BY <1>2, <1>10, <1>0, <3>2
  <2>5. CASE of = "methodlist_hor"
    <3>1. Rendered(e) = MethodHorRow(e)
      BY <1>10, <2>5 DEF Rendered
    <3>2. \E cells \in Seq(Nat) : Rendered(e) = Text(cells, {}, e, Append(Shown(e), Follows))
      BY <2>1, <3>1 DEF MethodHorRow
    <3> QED BY <1>2, <1>10, <1>0, <3>2
  <2> QED BY <1>10, <2>2, <2>3, <2>4, <2>5
<1>11. CASE row = "none" /\ of = "cache"
  <2>1. Rendered(e) = CacheRow(e) /\ ~ Sorts
    BY <1>11 DEF Rendered, Sorts
  <2>2. Rendered(e) = Text(<<1, 1, 1, 1, 1>>, {}, e, Append(Name(e), Lt))
    BY <2>1 DEF CacheRow
  <2> QED BY <1>2, <1>11, <1>0, <2>1, <2>2
<1> QED BY <1>1, <1>3, <1>4, <1>5, <1>6, <1>7, <1>8, <1>9, <1>10, <1>11 DEF RowNames, OwnRows

\* The rows above those of the elements show none.
LEMMA FixedFacts ==
  ASSUME call \in Calls
  PROVE  FixedRows \in Seq(Token(Allowed)) /\ Plain(FixedRows)
<1> USE CellsMade
<1>1. HeadMark \in SUBSET Allowed
  <2>1. HasCss => call.use.page # "dot" \/ call.use.row = "descriptor_entry"
    BY CallFacts, StylesDiffer DEF HasCss, Fits
  <2> QED BY <2>1 DEF HeadMark, Allowed
<1>2. PICK M, mark : M = Allowed /\ mark = HeadMark /\ mark \in SUBSET M
  BY <1>1
<1>3. ASSUME NEW cells, cells \in Seq(Nat), NEW marks \in SUBSET M
      PROVE  Row(cells, marks, 0) \in Token(M) /\ ~ IsElement(Row(cells, marks, 0))
  <2>1. Row(cells, marks, 0) \in Token(M)
    BY <1>3, TokensMade
  <2> QED BY <2>1 DEF IsElement, Row
<1>4. \A t \in Token(M) : ~ IsElement(t) => /\ <<t>> \in Seq(Token(M)) /\ Plain(<<t>>)
                                            /\ <<t, t>> \in Seq(Token(M)) /\ Plain(<<t, t>>)
  BY DEF Plain
<1>5. <<>> \in Seq(Token(M)) /\ Plain(<<>>)
  BY DEF Plain
<1>6. UniverseRows \in Seq(Token(M)) /\ Plain(UniverseRows)
  BY <1>3, <1>4 DEF UniverseRows
<1>7. StaticstringRows \in Seq(Token(M)) /\ Plain(StaticstringRows)
  <2>1. Row(Pair, mark, 0) \in Token(M) /\ ~ IsElement(Row(Pair, mark, 0))
    BY <1>2, <1>3
  <2> QED BY <1>2, <1>4, <2>1 DEF StaticstringRows
<1>8. ClassRows \in Seq(Token(M)) /\ Plain(ClassRows)
  <2> DEFINE n == IF "META" \in call.flags THEN 3 ELSE 5
             r == Row(Pair, {}, 0)
  <2>1. r \in Token(M) /\ ~ IsElement(r)
    BY <1>3
  <2>2. n \in Nat
    OBVIOUS
  <2>3. ClassRows = <<>> \/ ClassRows = [i \in 1 .. n |-> r]
    BY DEF ClassRows
  <2> HIDE DEF n, r
  <2>4. [i \in 1 .. n |-> r] \in Seq(Token(M))
    BY <2>1, <2>2
  <2>5. Plain([i \in 1 .. n |-> r])
    BY <2>1 DEF Plain
  <2> QED BY <1>5, <2>3, <2>4, <2>5
<1>9. CategoryRow \in Seq(Token(M)) /\ Plain(CategoryRow)
  BY <1>3, <1>4, <1>5 DEF CategoryRow
<1>10. CacheHeadRows \in Seq(Token(M)) /\ Plain(CacheHeadRows)
  <2>1. Row(<<1, 5>>, {}, 0) \in Token(M) /\ ~ IsElement(Row(<<1, 5>>, {}, 0))
    BY <1>3
  <2> QED BY <1>4, <2>1 DEF CacheHeadRows
<1>11. MethodHorHeadRow \in Seq(Token(M)) /\ Plain(MethodHorHeadRow)
  <2>1. \A cells \in Seq(Nat) : /\ <<Row(cells, mark, 0)>> \in Seq(Token(M))
                                /\ Plain(<<Row(cells, mark, 0)>>)
    BY <1>2, <1>3, <1>4
  <2>2. \/ MethodHorHeadRow = <<>>
        \/ \E cells \in Seq(Nat) : MethodHorHeadRow = <<Row(cells, mark, 0)>>
    BY <1>2 DEF MethodHorHeadRow
  <2> QED BY <1>5, <2>1, <2>2
<1>12. FixedRows \in {UniverseRows, StaticstringRows, ClassRows, CategoryRow, CacheHeadRows,
                      MethodHorHeadRow, <<>>}
  BY DEF FixedRows
<1> QED BY <1>2, <1>5, <1>6, <1>7, <1>8, <1>9, <1>10, <1>11, <1>12

\* The number of columns, and the column headers: an array of them goes with a table of
\* as many columns.
LEMMA ColumnFacts ==
  ASSUME call \in Calls, HasStyle
  PROVE  /\ Columns \in Nat
         /\ IF HasHeaders THEN Columns = call.use.style.headers ELSE call.use.style.headers = 0
<1>1. Fits(call.use)
  BY CallFacts
<1>2. CASE call.use.style = Headed
  <2>1. Colspan = 4
    BY <1>1, <1>2, StylesDiffer, StylesApart DEF Colspan, Fits
  <2> QED BY <1>2, <2>1, StylesDiffer DEF Columns, HasHeaders
<1>3. CASE call.use.style \in {Inline, Css, CssCache}
  <2>1. Colspan \in Nat
    BY <1>3, StylesDiffer DEF Colspan
  <2> QED BY <1>3, <2>1, StylesDiffer DEF Columns, HasHeaders
<1> QED BY <1>1, <1>2, <1>3 DEF HasStyle, Fits

-------------------------------------------------------------------------------
(***************************************************************************)
(* Rows are compared by their text, names with what follows them.  Names   *)
(* come out in order but for the ones that go on with a smaller character. *)
(***************************************************************************)
LEMMA OrderOfTexts ==
  ASSUME NEW a \in Seq(Nat), NEW b \in Seq(Nat), Follows \in Nat,
         AtMost(Append(a, Follows), Append(b, Follows))
  PROVE  Overtakes(a, b) \/ (AtMost(a, b) /\ ~ Overtakes(b, a))
<1> DEFINE c == Follows
           x == Append(a, c)
           y == Append(b, c)
<1>1. /\ Len(a) \in Nat /\ Len(b) \in Nat /\ DOMAIN a = 1 .. Len(a) /\ DOMAIN b = 1 .. Len(b)
      /\ Len(x) = Len(a) + 1 /\ DOMAIN x = 1 .. Len(a) + 1
      /\ Len(y) = Len(b) + 1 /\ DOMAIN y = 1 .. Len(b) + 1
      /\ \A i \in 1 .. Len(a) : x[i] = a[i] /\ a[i] \in Nat
      /\ \A i \in 1 .. Len(b) : y[i] = b[i] /\ b[i] \in Nat
      /\ x[Len(a) + 1] = c /\ y[Len(b) + 1] = c /\ c \in Nat
  OBVIOUS
<1>2. \/ Len(x) <= Len(y) /\ \A i \in DOMAIN x : x[i] = y[i]
      \/ \E i \in DOMAIN x \intersect DOMAIN y : x[i] < y[i] /\ \A j \in 1 .. i - 1 : x[j] = y[j]
  BY DEF AtMost
<1>3. Overtakes(a, b) <=> /\ Len(b) < Len(a) /\ \A i \in 1 .. Len(b) : a[i] = b[i]
                          /\ a[Len(b) + 1] < c
  BY <1>1 DEF Overtakes
<1>4. Overtakes(b, a) <=> /\ Len(a) < Len(b) /\ \A i \in 1 .. Len(a) : b[i] = a[i]
                          /\ b[Len(a) + 1] < c
  BY <1>1 DEF Overtakes
<1> HIDE DEF c, x, y
<1>5. CASE Len(x) <= Len(y) /\ \A i \in DOMAIN x : x[i] = y[i]
  <2>0. Len(a) <= Len(b)
    BY <1>1, <1>5
  <2>1. ASSUME NEW i \in 1 .. Len(a) PROVE a[i] = b[i]
    <3>1. i \in DOMAIN x /\ i \in 1 .. Len(b)
      BY <1>1, <2>0
    <3>2. x[i] = y[i] /\ x[i] = a[i] /\ y[i] = b[i]
      BY <1>1, <1>5, <3>1
    <3> QED BY <3>2
  <2>2. AtMost(a, b)
    BY <1>1, <2>0, <2>1 DEF AtMost
  <2>3. ASSUME Len(a) < Len(b) PROVE b[Len(a) + 1] = c
    <3>1. Len(a) + 1 \in 1 .. Len(b) /\ Len(a) + 1 \in DOMAIN x
      BY <1>1, <2>3
    <3>2. x[Len(a) + 1] = y[Len(a) + 1] /\ y[Len(a) + 1] = b[Len(a) + 1]
      BY <1>1, <1>5, <3>1
    <3> QED BY <1>1, <3>2
  <2>4. ~ Overtakes(b, a)
    BY <1>1, <1>4, <2>3
  <2> QED BY <2>2, <2>4
<1>6. ASSUME NEW i \in DOMAIN x \intersect DOMAIN y, x[i] < y[i], \A j \in 1 .. i - 1 : x[j] = y[j]
      PROVE  Overtakes(a, b) \/ (AtMost(a, b) /\ ~ Overtakes(b, a))
  <2>1. i \in 1 .. Len(a) + 1 /\ i \in 1 .. Len(b) + 1
    BY <1>1
  <2>2. CASE i <= Len(a) /\ i <= Len(b)
    <3>1. a[i] < b[i] /\ \A j \in 1 .. i - 1 : a[j] = b[j]
      BY <1>1, <1>6, <2>1, <2>2
    <3>2. AtMost(a, b)
      <4>1. i \in DOMAIN a \intersect DOMAIN b
        BY <1>1, <2>1, <2>2
      <4> QED BY <3>1, <4>1 DEF AtMost
    <3>3. ~ Overtakes(b, a)
      BY <1>1, <1>4, <2>1, <2>2, <3>1
    <3> QED BY <3>2, <3>3
  <2>3. CASE i = Len(a) + 1 /\ i <= Len(b)
    <3>1. c < b[i] /\ \A j \in 1 .. Len(a) : a[j] = b[j]
      BY <1>1, <1>6, <2>1, <2>3
    <3>2. AtMost(a, b)
      BY <1>1, <2>3, <3>1 DEF AtMost
    <3>3. ~ Overtakes(b, a)
      BY <1>1, <1>4, <2>1, <2>3, <3>1
    <3> QED BY <3>2, <3>3
  <2>4. CASE i = Len(b) + 1 /\ i <= Len(a)
    <3>1. a[i] < c /\ \A j \in 1 .. Len(b) : a[j] = b[j]
      BY <1>1, <1>6, <2>1, <2>4
    <3> QED BY <1>1, <1>3, <2>4, <3>1
  <2>5. ~ (i = Len(a) + 1 /\ i = Len(b) + 1)
    BY <1>1, <1>6
  <2> QED BY <1>1, <2>1, <2>2, <2>3, <2>4, <2>5
<1> QED BY <1>2, <1>5, <1>6

-------------------------------------------------------------------------------
(***************************************************************************)
(* What is put out behind what there is already.                           *)
(***************************************************************************)
LEMMA PutFacts ==
  ASSUME NEW M, out \in Seq(M), NEW toks \in Seq(M), out' = out \o toks
  PROVE  /\ out' \in Seq(M)
         /\ DOMAIN out \subseteq DOMAIN out' /\ \A i \in DOMAIN out : out'[i] = out[i]
         /\ \A i \in DOMAIN toks : /\ Len(out) + i \in DOMAIN out' /\ out'[Len(out) + i] = toks[i]
                                   /\ Len(out) + i \notin DOMAIN out
         /\ \A j \in DOMAIN out' \ DOMAIN out : \E i \in DOMAIN toks : j = Len(out) + i
<1>1. /\ Len(out) \in Nat /\ Len(toks) \in Nat
      /\ DOMAIN out = 1 .. Len(out) /\ DOMAIN toks = 1 .. Len(toks)
      /\ DOMAIN (out \o toks) = 1 .. Len(out) + Len(toks)
      /\ \A i \in 1 .. Len(out) : (out \o toks)[i] = out[i]
      /\ \A i \in 1 .. Len(toks) : (out \o toks)[Len(out) + i] = toks[i]
      /\ out \o toks \in Seq(M)
  OBVIOUS
<1>2. ASSUME NEW j \in DOMAIN out' \ DOMAIN out PROVE \E i \in DOMAIN toks : j = Len(out) + i
  <2>1. j - Len(out) \in 1 .. Len(toks) /\ j = Len(out) + (j - Len(out))
    BY <1>1
  <2> QED BY <1>1, <2>1
<1>3. ASSUME NEW i \in DOMAIN toks
      PROVE  /\ Len(out) + i \in DOMAIN out' /\ out'[Len(out) + i] = toks[i]
             /\ Len(out) + i \notin DOMAIN out
  BY <1>1
<1> QED BY <1>1, <1>2, <1>3

LEMMA PutPlain ==
  ASSUME NEW M, out \in Seq(M), NEW toks \in Seq(M), out' = out \o toks, Plain(toks)
  PROVE  ElementRows' = ElementRows /\ \A i \in ElementRows : out'[i] = out[i]
<1>1. ElementRows' = {i \in DOMAIN out' : IsElement(out'[i])}
  BY DEF ElementRows, IsElement
<1>2. ElementRows = {i \in DOMAIN out : IsElement(out[i])}
  BY DEF ElementRows, IsElement
<1>3. \A i \in DOMAIN out' \ DOMAIN out : ~ IsElement(out'[i])
  BY PutFacts DEF Plain
<1>4. DOMAIN out \subseteq DOMAIN out' /\ \A i \in DOMAIN out : out'[i] = out[i]
  BY PutFacts
<1> QED BY <1>1, <1>2, <1>3, <1>4

LEMMA PutRow ==
  ASSUME NEW M, out \in Seq(M), NEW toks \in Seq(M), out' = out \o toks, NEW e, NEW n, Shows(toks, e, n)
  PROVE  /\ \A i \in ElementRows : out'[i] = out[i]
         /\ \E r \in DOMAIN out' :
              /\ n \in Nat /\ ElementRows' = ElementRows \union (r .. r + n - 1)
              /\ \A i \in r .. r + n - 1 : out'[i].of = e
              /\ \A i \in ElementRows : i < r
<1>1. ElementRows' = {i \in DOMAIN out' : IsElement(out'[i])}
  BY DEF ElementRows, IsElement
<1>2. ElementRows = {i \in DOMAIN out : IsElement(out[i])}
  BY DEF ElementRows, IsElement
<1>3. PICK s, w :
        /\ s \in DOMAIN toks /\ n \in Nat /\ w = s .. s + n - 1 /\ w \subseteq DOMAIN toks
        /\ \A i \in DOMAIN toks : IsElement(toks[i]) <=> i \in w
        /\ \A i \in DOMAIN toks : IsElement(toks[i]) => toks[i].of = e
  BY DEF Shows
<1>4. /\ DOMAIN out \subseteq DOMAIN out' /\ \A i \in DOMAIN out : out'[i] = out[i]
      /\ \A i \in DOMAIN toks : /\ Len(out) + i \in DOMAIN out' /\ out'[Len(out) + i] = toks[i]
                                /\ Len(out) + i \notin DOMAIN out
      /\ \A j \in DOMAIN out' \ DOMAIN out : \E i \in DOMAIN toks : j = Len(out) + i
  BY PutFacts
<1>5. PICK l, r : l = Len(out) /\ r = l + s
  OBVIOUS
<1>6. l \in Nat /\ s \in Nat /\ r \in Nat /\ DOMAIN out = 1 .. l /\ DOMAIN toks \subseteq Nat
  BY <1>3, <1>5
<1>7. \A j \in DOMAIN out' \ DOMAIN out :
        /\ IsElement(out'[j]) <=> j \in r .. r + n - 1
        /\ IsElement(out'[j]) => out'[j].of = e
  <2> SUFFICES ASSUME NEW j \in DOMAIN out' \ DOMAIN out
               PROVE  /\ IsElement(out'[j]) <=> j \in r .. r + n - 1
                      /\ IsElement(out'[j]) => out'[j].of = e
    OBVIOUS
  <2>1. PICK i \in DOMAIN toks : j = l + i
    BY <1>4, <1>5
  <2>2. out'[j] = toks[i]
    BY <1>4, <1>5, <2>1
  <2>3. i \in Nat /\ (i \in s .. s + n - 1 <=> j \in r .. r + n - 1)
    <3>1. i \in Nat /\ j = l + i /\ r = l + s /\ l \in Nat /\ s \in Nat /\ n \in Nat
      BY <1>3, <1>5, <1>6, <2>1
    <3> QED BY <3>1
  <2>4. (IsElement(toks[i]) <=> i \in w) /\ (IsElement(toks[i]) => toks[i].of = e)
    BY <1>3
  <2> QED BY <1>3, <2>2, <2>3, <2>4
<1>8. \A j \in r .. r + n - 1 : j \in DOMAIN out' \ DOMAIN out
  <2> SUFFICES ASSUME NEW j \in r .. r + n - 1 PROVE j \in DOMAIN out' \ DOMAIN out
    OBVIOUS
  <2>1. j - l \in s .. s + n - 1 /\ l + (j - l) = j
    BY <1>3, <1>5, <1>6
  <2>2. j - l \in DOMAIN toks
    BY <1>3, <2>1
  <2> QED BY <1>4, <1>5, <2>1, <2>2
<1>9. ElementRows' = ElementRows \union (r .. r + n - 1)
  <2>1. \A j \in DOMAIN out : IsElement(out'[j]) <=> IsElement(out[j])
    BY <1>4
  <2>2. \A j : j \in ElementRows' <=> j \in ElementRows \/ j \in r .. r + n - 1
    BY <1>1, <1>2, <1>4, <1>7, <1>8, <2>1
  <2> QED BY <2>2
<1>10. \A j \in r .. r + n - 1 : out'[j].of = e
  BY <1>7, <1>8
<1>11. r \in DOMAIN out' /\ \A i \in ElementRows : i < r
  BY <1>2, <1>3, <1>4, <1>5, <1>6
<1> QED BY <1>2, <1>3, <1>4, <1>9, <1>10, <1>11

-------------------------------------------------------------------------------
(***************************************************************************)
(* The invariant.                                                          *)
(***************************************************************************)
Count == Len(call.elements)
RowOf == [e \in DOMAIN call.elements |-> Rendered(e)]

Kinds == /\ call \in Calls
         /\ at \in {"header", "columns", "fixed", "rows", "collect", "emit", "end"}
         /\ k \in Nat /\ read \in Nat
         /\ out \in Seq(Token(Allowed))

\* The column headers: as many were read as the loop has gone round, and at the end all.
Headings ==
  /\ at \in {"header", "fixed"} => k = 0
  /\ at = "header" => read = 0
  /\ at = "columns" => HasStyle /\ k <= Columns /\ read = IF HasHeaders THEN k ELSE 0
  /\ HasStyle /\ at \notin {"header", "columns"} => read = call.use.style.headers

\* The collected rows: one for each element, and then in order; the strings of those that
\* were not put out are not freed.
Collected ==
  /\ DOMAIN rows = 1 .. Len(rows) /\ Len(rows) \in Nat
  /\ \A a \in DOMAIN rows : rows[a].of \in 1 .. Count /\ rows[a] = RowOf[rows[a].of]
  /\ at \in {"header", "columns", "fixed", "rows"} => rows = <<>> /\ heap = {}
  /\ at = "rows" => ~ Sorts /\ k <= Count
  /\ at = "collect" => /\ Sorts /\ k <= Count /\ Len(rows) = k /\ heap = 1 .. k
                       /\ rows \in Seq({RowOf[e] : e \in 1 .. Count})
                       /\ \A i \in 1 .. k : rows[i].of = i
  /\ at = "emit" => /\ Sorts /\ k <= Count /\ Len(rows) = Count
                    /\ heap = {rows[a].of : a \in k + 1 .. Count}
                    /\ \A a, b \in 1 .. Count : rows[a].of = rows[b].of => a = b
                    /\ \A e \in 1 .. Count : \E a \in 1 .. Count : rows[a].of = e
                    /\ \A a, b \in 1 .. Count : a < b => AtMost(rows[a].text, rows[b].text)
  /\ at = "end" => heap = {} /\ k = 0

\* The elements that were put out: each in its rows, and if rows are sorted in order.
Emitted == CASE at = "rows" -> 1 .. k
             [] at = "emit" -> {rows[a].of : a \in 1 .. k}
             [] at = "end"  -> 1 .. Count
             [] OTHER       -> {}
Output ==
  /\ \A i \in ElementRows : out[i].of \in Emitted
  /\ \A e \in Emitted : \E i \in DOMAIN out :
       {j \in ElementRows : out[j].of = e} = i .. i + RowsOf(e) - 1
  /\ Sorts /\ at \in {"emit", "end"} =>
       \A i, j \in ElementRows :
         i < j => out[i].of = out[j].of \/ AtMost(RowOf[out[i].of].text, RowOf[out[j].of].text)

Inv == Kinds /\ Headings /\ Collected /\ Output

\* What depends on the call alone.
LEMMA SameCall ==
  ASSUME call' = call
  PROVE  /\ Allowed' = Allowed /\ Count' = Count /\ RowOf' = RowOf /\ (Sorts <=> Sorts')
         /\ (HasStyle <=> HasStyle') /\ (HasHeaders <=> HasHeaders') /\ Columns' = Columns
         /\ \A e : RowsOf(e)' = RowsOf(e)
<1>1. RowOf' = RowOf
  BY DEF RowOf, Rendered, NameEntry, ClassEntry, IdElement, DescriptorEntry, StaticstringElement,
         FastclassElement, LoadclassElement, LoadclasslistEntry, IvarRow, PropertyRow, MethodRow,
         MethodHorRow, CacheRow, Name, Terse
<1> QED BY <1>1 DEF Allowed, Count, Sorts, HasStyle, HasHeaders, Columns, Colspan, RowsOf

\* The row of each element.
LEMMA RowFacts ==
  ASSUME call \in Calls
  PROVE  /\ Count \in Nat /\ DOMAIN call.elements = 1 .. Count /\ DOMAIN RowOf = 1 .. Count
         /\ \A e \in 1 .. Count :
              /\ RowOf[e] = Rendered(e) /\ RowOf[e].of = e
              /\ RowOf[e].toks \in Seq(Token(Allowed)) /\ Shows(RowOf[e].toks, e, RowsOf(e))
<1>1. Count \in Nat /\ DOMAIN call.elements = 1 .. Count /\ DOMAIN RowOf = 1 .. Count
  BY CallFacts DEF Count, RowOf
<1>2. ASSUME NEW e \in 1 .. Count
      PROVE  /\ RowOf[e] = Rendered(e) /\ RowOf[e].of = e
             /\ RowOf[e].toks \in Seq(Token(Allowed)) /\ Shows(RowOf[e].toks, e, RowsOf(e))
  <2>1. e \in DOMAIN call.elements /\ RowOf[e] = Rendered(e)
    BY <1>1 DEF RowOf
  <2> QED BY <2>1, RenderedFacts
<1> QED BY <1>1, <1>2

LEMMA InitInv == Init => Inv
<1> SUFFICES ASSUME Init PROVE Inv
  OBVIOUS
<1>1. /\ call \in Calls /\ at = "header" /\ k = 0 /\ read = 0 /\ rows = <<>> /\ heap = {}
      /\ out = WrapperStart
  BY DEF Init
<1>2. out \in Seq(Token(Allowed)) /\ ElementRows = {}
  <2>1. CASE call.use.page = "wrapped"
    <3>1. {"CLASS"} \in SUBSET Allowed /\ 0 \in Nat
      BY <2>1 DEF Allowed
    <3>2. Open(0, {"CLASS"}) \in Token(Allowed) /\ Open(0, {"CLASS"}).tag = "table"
      BY <3>1, TokensMade
    <3>3. out = <<Open(0, {"CLASS"})>>
      BY <1>1, <2>1 DEF WrapperStart
    <3>4. DOMAIN out = {1} /\ out[1].tag = "table"
      BY <3>2, <3>3
    <3> QED BY <3>2, <3>3, <3>4 DEF ElementRows
  <2>2. CASE call.use.page # "wrapped"
    <3>1. out = <<>>
      BY <1>1, <2>2 DEF WrapperStart
    <3> QED BY <3>1 DEF ElementRows
  <2> QED BY <2>1, <2>2
<1>3. Kinds
  BY <1>1, <1>2 DEF Kinds
<1>4. Headings
  BY <1>1 DEF Headings
<1>5. Collected
  BY <1>1 DEF Collected
<1>6. Output
  BY <1>1, <1>2 DEF Output, Emitted
<1> QED BY <1>3, <1>4, <1>5, <1>6 DEF Inv

-------------------------------------------------------------------------------
(***************************************************************************)
(* The steps.  A step that puts out rows of no element leaves what there is*)
(* to say about the elements' rows as it was.                              *)
(***************************************************************************)
LEMMA OutputKept ==
  ASSUME Output, call' = call, ElementRows' = ElementRows, DOMAIN out \subseteq DOMAIN out',
         \A i \in ElementRows : out'[i] = out[i],
         Emitted' = Emitted,
         Emitted = {} \/ (at \in {"emit", "end"} <=> at' \in {"emit", "end"}) \/ ~ Sorts
  PROVE  Output'
<1>1. RowOf' = RowOf /\ (Sorts <=> Sorts')
  BY SameCall
<1>2. /\ \A i \in ElementRows' : out'[i].of \in Emitted'
  BY DEF Output
<1>4. ASSUME NEW e \in Emitted'
      PROVE  \E i \in DOMAIN out' : {j \in ElementRows' : out'[j].of = e} = i .. i + RowsOf(e)' - 1
  <2>1. PICK i \in DOMAIN out : {j \in ElementRows : out[j].of = e} = i .. i + RowsOf(e) - 1
    BY <1>4 DEF Output
  <2>2. {j \in ElementRows' : out'[j].of = e} = {j \in ElementRows : out[j].of = e}
    OBVIOUS
  <2>3. RowsOf(e)' = RowsOf(e)
    BY SameCall
  <2> QED BY <2>1, <2>2, <2>3
<1>3. Sorts' /\ at' \in {"emit", "end"} =>
        \A i, j \in ElementRows' :
          i < j => \/ out'[i].of = out'[j].of
                   \/ AtMost(RowOf'[out'[i].of].text, RowOf'[out'[j].of].text)
  <2> SUFFICES ASSUME Sorts', at' \in {"emit", "end"}, NEW i \in ElementRows, NEW j \in ElementRows, i < j
               PROVE  out[i].of = out[j].of \/ AtMost(RowOf[out[i].of].text, RowOf[out[j].of].text)
    BY <1>1
  <2>1. Emitted # {}
    BY DEF Output
  <2> QED BY <1>1, <2>1 DEF Output
<1> QED BY <1>2, <1>3, <1>4 DEF Output

LEMMA PlainPut ==
  ASSUME Kinds, call' = call, NEW toks, toks \in Seq(Token(Allowed)), Plain(toks), out' = out \o toks
  PROVE  /\ out' \in Seq(Token(Allowed')) /\ ElementRows' = ElementRows
         /\ DOMAIN out \subseteq DOMAIN out' /\ \A i \in ElementRows : out'[i] = out[i]
<1>1. PICK M : M = Token(Allowed)
  OBVIOUS
<1>2. out \in Seq(M) /\ toks \in Seq(M) /\ Token(Allowed') = M
  BY <1>1, SameCall DEF Kinds
<1>3. out' \in Seq(M)
  BY <1>2
<1>4. /\ ElementRows' = ElementRows /\ \A i \in ElementRows : out'[i] = out[i]
      /\ DOMAIN out \subseteq DOMAIN out'
  BY <1>2, PutPlain, PutFacts
<1> QED BY <1>2, <1>3, <1>4

LEMMA NoMarks ==
  ASSUME call \in Calls
  PROVE  /\ HasStyle /\ HasCss => {"CLASS", "TH"} \in SUBSET Allowed
         /\ HasCss => HeadMark \union {"CLASS"} \in SUBSET Allowed
         /\ HasHeaders /\ HasStyle => HasCss
<1>1. Fits(call.use)
  BY CallFacts
<1>2. HasCss => call.use.page # "dot" \/ call.use.row = "descriptor_entry"
  BY <1>1, StylesDiffer DEF HasCss, Fits
<1>3. HasHeaders /\ HasStyle => HasCss
  BY <1>1, StylesDiffer DEF HasHeaders, HasStyle, HasCss, Fits
<1> QED BY <1>2, <1>3 DEF Allowed, HeadMark

LEMMA HeaderStep == Inv /\ Header => Inv'
<1> SUFFICES ASSUME Inv, Header PROVE Inv'
  OBVIOUS
<1>0. /\ Kinds /\ Headings /\ Collected /\ Output /\ call \in Calls /\ at = "header"
      /\ call' = call /\ read' = read /\ rows' = rows /\ heap' = heap /\ k' = 0
      /\ IF HasStyle THEN at' = "columns" ELSE at' = "fixed"
  BY DEF Inv, Kinds, Header, GoOn
<1> USE SameCall
<1>1. /\ out' \in Seq(Token(Allowed')) /\ ElementRows' = ElementRows
      /\ DOMAIN out \subseteq DOMAIN out' /\ \A i \in ElementRows : out'[i] = out[i]
  <2>1. CASE HasStyle
    <3>1. PICK toks : /\ toks = <<Open(Columns, IF HasCss THEN {"CLASS", "TH"} ELSE {})>>
                      /\ out' = out \o toks
      BY <1>0, <2>1 DEF Header, Put
    <3>2. toks \in Seq(Token(Allowed)) /\ Plain(toks)
      <4>1. Columns \in Nat
        BY <1>0, <2>1, ColumnFacts
      <4>2. (IF HasCss THEN {"CLASS", "TH"} ELSE {}) \in SUBSET Allowed
        BY <1>0, <2>1, NoMarks
      <4>3. /\ Open(Columns, IF HasCss THEN {"CLASS", "TH"} ELSE {}) \in Token(Allowed)
            /\ Open(Columns, IF HasCss THEN {"CLASS", "TH"} ELSE {}).tag = "table"
        <5>1. PICK c, marks : c = Columns /\ marks = IF HasCss THEN {"CLASS", "TH"} ELSE {}
          OBVIOUS
        <5>2. Open(c, marks) \in Token(Allowed) /\ Open(c, marks).tag = "table"
          BY <4>1, <4>2, <5>1, TokensMade
        <5> QED BY <5>1, <5>2
      <4> QED BY <3>1, <4>3 DEF Plain, IsElement
    <3> QED BY <1>0, <3>1, <3>2, PlainPut
  <2>2. CASE ~ HasStyle
    <3>1. out' = out
      BY <2>2 DEF Header
    <3> QED BY <1>0, <3>1 DEF Kinds, ElementRows
  <2> QED BY <2>1, <2>2
<1>2. Kinds'
  BY <1>0, <1>1 DEF Kinds
<1>3. Headings'
  BY <1>0, ColumnFacts DEF Headings
<1>4. Collected'
  BY <1>0 DEF Collected
<1>5. Output'
  BY <1>0, <1>1, OutputKept DEF Emitted
<1> QED BY <1>2, <1>3, <1>4, <1>5 DEF Inv

LEMMA ColumnHeaderStep == Inv /\ ColumnHeader => Inv'
<1> SUFFICES ASSUME Inv, ColumnHeader PROVE Inv'
  OBVIOUS
<1>0. /\ Kinds /\ Headings /\ Collected /\ Output /\ call \in Calls /\ at = "columns"
      /\ call' = call /\ rows' = rows /\ heap' = heap /\ k \in Nat /\ HasStyle /\ k <= Columns
      /\ read = IF HasHeaders THEN k ELSE 0
      /\ Columns \in Nat
      /\ IF HasHeaders THEN Columns = call.use.style.headers ELSE call.use.style.headers = 0
  BY ColumnFacts DEF Inv, Kinds, Headings, ColumnHeader
<1> USE SameCall
<1>1. CASE HasHeaders /\ k < Columns
  <2>1. at' = at /\ k' = k + 1 /\ read' = k + 1 /\ out' = out
    BY <1>1 DEF ColumnHeader, ReadsHeader
  <2>2. Kinds'
    BY <1>0, <2>1 DEF Kinds
  <2>3. Headings'
    BY <1>0, <1>1, <2>1 DEF Headings
  <2>4. Collected'
    BY <1>0, <2>1 DEF Collected
  <2>5. ElementRows' = ElementRows
    BY <2>1 DEF ElementRows
  <2>6. Output'
    BY <1>0, <2>1, <2>5, OutputKept DEF Emitted
  <2> QED BY <2>2, <2>3, <2>4, <2>6 DEF Inv
<1>2. CASE ~ (HasHeaders /\ k < Columns)
  <2>1. PICK toks : /\ out' = out \o toks
                    /\ toks = IF HasHeaders
                                THEN <<Row([i \in 1 .. k |-> 1], HeadMark \union {"CLASS"}, 0)>>
                                ELSE <<>>
    BY <1>2 DEF ColumnHeader, Put
  <2>2. at' = "fixed" /\ k' = 0 /\ read' = call.use.style.headers
    BY <1>0, <1>2 DEF ColumnHeader, ReadsHeader, GoOn
  <2>3. toks \in Seq(Token(Allowed)) /\ Plain(toks)
    <3>1. CASE HasHeaders
      <4>1. HeadMark \union {"CLASS"} \in SUBSET Allowed /\ [i \in 1 .. k |-> 1] \in Seq(Nat)
        BY <1>0, <3>1, NoMarks, CellsMade
      <4>2. /\ Row([i \in 1 .. k |-> 1], HeadMark \union {"CLASS"}, 0) \in Token(Allowed)
            /\ Row([i \in 1 .. k |-> 1], HeadMark \union {"CLASS"}, 0).of = 0
        BY <4>1, TokensMade
      <4>3. PICK row : row \in Token(Allowed) /\ row.of = 0 /\ toks = <<row>>
        BY <2>1, <3>1, <4>2
      <4> QED BY <4>3 DEF Plain, IsElement
    <3>2. CASE ~ HasHeaders
      BY <2>1, <3>2 DEF Plain
    <3> QED BY <3>1, <3>2
  <2>4. /\ out' \in Seq(Token(Allowed')) /\ ElementRows' = ElementRows
        /\ DOMAIN out \subseteq DOMAIN out' /\ \A i \in ElementRows : out'[i] = out[i]
    BY <1>0, <2>1, <2>3, PlainPut
  <2>5. Kinds'
    BY <1>0, <2>2, <2>4 DEF Kinds
  <2>6. Headings'
    BY <1>0, <2>2 DEF Headings
  <2>7. Collected'
    BY <1>0, <2>2 DEF Collected
  <2>8. Output'
    BY <1>0, <2>2, <2>4, OutputKept DEF Emitted
  <2> QED BY <2>5, <2>6, <2>7, <2>8 DEF Inv
<1> QED BY <1>1, <1>2

LEMMA FixedPartStep == Inv /\ FixedPart => Inv'
<1> SUFFICES ASSUME Inv, FixedPart PROVE Inv'
  OBVIOUS
<1>0. /\ Kinds /\ Headings /\ Collected /\ Output /\ call \in Calls /\ at = "fixed"
      /\ call' = call /\ read' = read /\ rows' = rows /\ heap' = heap /\ k' = 0
      /\ at' = (IF Sorts THEN "collect" ELSE "rows") /\ out' = out \o FixedRows
      /\ rows = <<>> /\ heap = {} /\ Count \in Nat
  BY RowFacts DEF Inv, Kinds, Collected, FixedPart, GoOn, Put
<1> USE SameCall
<1>1. /\ out' \in Seq(Token(Allowed')) /\ ElementRows' = ElementRows
      /\ DOMAIN out \subseteq DOMAIN out' /\ \A i \in ElementRows : out'[i] = out[i]
  BY <1>0, FixedFacts, PlainPut
<1>2. Kinds'
  BY <1>0, <1>1 DEF Kinds
<1>3. Headings'
  BY <1>0 DEF Headings
<1>4. Collected'
  BY <1>0 DEF Collected
<1>5. Emitted = {} /\ Emitted' = {}
  BY <1>0 DEF Emitted
<1>6. Output'
  BY <1>0, <1>1, <1>5, OutputKept
<1> QED BY <1>2, <1>3, <1>4, <1>6 DEF Inv

\* A step that puts out the rows of an element: they are the last ones so far.
LEMMA RowPut ==
  ASSUME Kinds, call' = call, NEW e \in 1 .. Count, out' = out \o RowOf[e].toks
  PROVE  /\ out' \in Seq(Token(Allowed')) /\ DOMAIN out \subseteq DOMAIN out'
         /\ \A i \in ElementRows : out'[i] = out[i]
         /\ \E r \in DOMAIN out' :
              /\ RowsOf(e) \in Nat /\ ElementRows' = ElementRows \union (r .. r + RowsOf(e) - 1)
              /\ \A i \in r .. r + RowsOf(e) - 1 : out'[i].of = e
              /\ \A i \in ElementRows : i < r
<1>1. PICK M, toks, n : M = Token(Allowed) /\ toks = RowOf[e].toks /\ n = RowsOf(e)
  OBVIOUS
<1>2. /\ out \in Seq(M) /\ toks \in Seq(M) /\ Shows(toks, e, n) /\ Token(Allowed') = M
      /\ out' = out \o toks
  BY <1>1, SameCall, RowFacts DEF Kinds
<1>3. out' \in Seq(M) /\ DOMAIN out \subseteq DOMAIN out'
  BY <1>2
<1>4. /\ \A i \in ElementRows : out'[i] = out[i]
      /\ \E r \in DOMAIN out' :
           /\ n \in Nat /\ ElementRows' = ElementRows \union (r .. r + n - 1)
           /\ \A i \in r .. r + n - 1 : out'[i].of = e
           /\ \A i \in ElementRows : i < r
  BY <1>2, PutRow
<1> QED BY <1>1, <1>2, <1>3, <1>4

LEMMA OutputGrown ==
  ASSUME Kinds, Output, call' = call, NEW e \in 1 .. Count, out' = out \o RowOf[e].toks,
         e \notin Emitted, Emitted' = Emitted \union {e}, at' = at,
         Sorts /\ at \in {"emit", "end"} =>
           \A f \in Emitted : AtMost(RowOf[f].text, RowOf[e].text)
  PROVE  Output'
<1>1. RowOf' = RowOf /\ (Sorts <=> Sorts') /\ \A f : RowsOf(f)' = RowsOf(f)
  BY SameCall
<1>2. DOMAIN out \subseteq DOMAIN out' /\ \A i \in ElementRows : out'[i] = out[i]
  BY RowPut
<1>2a. PICK r \in DOMAIN out' :
        /\ RowsOf(e) \in Nat /\ ElementRows' = ElementRows \union (r .. r + RowsOf(e) - 1)
        /\ \A i \in r .. r + RowsOf(e) - 1 : out'[i].of = e
        /\ \A i \in ElementRows : i < r
  BY RowPut
<1>3. PICK new, n :
        /\ n = RowsOf(e) /\ n \in Nat /\ new = r .. r + n - 1
        /\ ElementRows' = ElementRows \union new
        /\ \A i \in new : out'[i].of = e
        /\ \A i \in ElementRows : i < r
  BY <1>2a
<1>4. \A i \in ElementRows : i \in Nat /\ out'[i].of \in Emitted /\ i \notin new
  <2>1. \A i \in ElementRows : i \in Nat /\ out'[i].of \in Emitted
    BY <1>2 DEF Output, ElementRows, Kinds
  <2>2. \A i \in new : r <= i
    BY <1>3
  <2> QED BY <1>3, <2>1, <2>2
<1>5. \A i \in ElementRows' : out'[i].of \in Emitted'
  BY <1>3, <1>4
<1>6. ASSUME NEW f \in Emitted'
      PROVE  \E i \in DOMAIN out' : {j \in ElementRows' : out'[j].of = f} = i .. i + RowsOf(f)' - 1
  <2>1. CASE f \in Emitted
    <3>1. PICK i \in DOMAIN out : {j \in ElementRows : out[j].of = f} = i .. i + RowsOf(f) - 1
      BY <2>1 DEF Output
    <3>2. f # e
      BY <2>1
    <3>3. {j \in ElementRows' : out'[j].of = f} = {j \in ElementRows : out[j].of = f}
      BY <1>2, <1>3, <3>2
    <3> QED BY <1>1, <1>2, <3>1, <3>3
  <2>2. CASE f = e
    <3>1. \A j : j \in ElementRows' /\ out'[j].of = f <=> j \in new
      BY <1>3, <1>4, <2>2
    <3>2. {j \in ElementRows' : out'[j].of = f} = new
      BY <3>1
    <3> QED BY <1>1, <1>3, <2>2, <3>2
  <2> QED BY <2>1, <2>2
<1>7. ASSUME Sorts', at' \in {"emit", "end"}, NEW i \in ElementRows', NEW j \in ElementRows', i < j
      PROVE  out'[i].of = out'[j].of \/ AtMost(RowOf'[out'[i].of].text, RowOf'[out'[j].of].text)
  <2>1. CASE i \in ElementRows /\ j \in ElementRows
    BY <1>1, <1>2, <1>7, <2>1 DEF Output
  <2>2. CASE i \in ElementRows /\ j \in new
    BY <1>1, <1>3, <1>4, <1>7, <2>2
  <2>3. CASE i \in new /\ j \in new
    BY <1>3, <2>3
  <2>4. ~ (i \in new /\ j \in ElementRows)
    <3> SUFFICES ASSUME i \in new, j \in ElementRows PROVE FALSE
      OBVIOUS
    <3>1. r \in Nat /\ r <= i /\ j < r /\ j \in Nat /\ i \in Int
      BY <1>3, <1>4, RowPut
    <3> QED BY <1>7, <3>1
  <2> QED BY <1>3, <2>1, <2>2, <2>3, <2>4
<1> QED BY <1>5, <1>6, <1>7 DEF Output

LEMMA DirectRowStep == Inv /\ DirectRow => Inv'
<1> SUFFICES ASSUME Inv, DirectRow PROVE Inv'
  OBVIOUS
<1>0. /\ Kinds /\ Headings /\ Collected /\ Output /\ call \in Calls /\ at = "rows" /\ k \in Nat
      /\ call' = call /\ at' = at /\ read' = read /\ rows' = rows /\ heap' = heap /\ k' = k + 1
      /\ k < Count /\ Count \in Nat /\ k + 1 \in 1 .. Count /\ out' = out \o RowOf[k + 1].toks
      /\ ~ Sorts
  <2>1. /\ Kinds /\ Headings /\ Collected /\ Output /\ call \in Calls /\ at = "rows" /\ k \in Nat
        /\ call' = call /\ at' = at /\ read' = read /\ rows' = rows /\ heap' = heap /\ k' = k + 1
        /\ out' = out \o Rendered(k + 1).toks /\ ~ Sorts
    BY DEF Inv, Kinds, Collected, DirectRow, Put
  <2>2. k < Count /\ Count \in Nat /\ k + 1 \in 1 .. Count
    BY <2>1, RowFacts DEF DirectRow, Left, Count
  <2>3. RowOf[k + 1] = Rendered(k + 1)
    BY <2>1, <2>2, RowFacts
  <2> QED BY <2>1, <2>2, <2>3
<1> USE SameCall
<1>1. out' \in Seq(Token(Allowed'))
  BY <1>0, RowPut
<1>2. Kinds'
  BY <1>0, <1>1 DEF Kinds
<1>3. Headings'
  BY <1>0 DEF Headings
<1>4. Collected'
  BY <1>0 DEF Collected
<1>5. Emitted = 1 .. k /\ Emitted' = 1 .. k + 1
  BY <1>0 DEF Emitted
<1>6. Output'
  <2>1. k + 1 \notin Emitted /\ Emitted' = Emitted \union {k + 1}
    BY <1>0, <1>5
  <2> QED BY <1>0, <2>1, OutputGrown
<1> QED BY <1>2, <1>3, <1>4, <1>6 DEF Inv

LEMMA CollectRowStep == Inv /\ CollectRow => Inv'
<1> SUFFICES ASSUME Inv, CollectRow PROVE Inv'
  OBVIOUS
<1>0. /\ Kinds /\ Headings /\ Collected /\ Output /\ call \in Calls /\ at = "collect" /\ k \in Nat
      /\ call' = call /\ at' = at /\ read' = read /\ out' = out /\ heap' = heap \union {k + 1}
      /\ k' = k + 1 /\ rows' = Append(rows, Rendered(k + 1)) /\ Sorts
      /\ heap = 1 .. k /\ Len(rows) = k /\ DOMAIN rows = 1 .. k
      /\ rows \in Seq({RowOf[e] : e \in 1 .. Count}) /\ \A i \in 1 .. k : rows[i].of = i
      /\ \A i \in 1 .. k : rows[i].of \in 1 .. Count /\ rows[i] = RowOf[rows[i].of]
  BY DEF Inv, Kinds, Collected, CollectRow
<1>1. Count \in Nat /\ k < Count /\ k + 1 \in 1 .. Count
  BY <1>0, RowFacts DEF CollectRow, Left, Count
<1>2. Rendered(k + 1) = RowOf[k + 1] /\ RowOf[k + 1].of = k + 1
  BY <1>0, <1>1, RowFacts
<1> USE SameCall
<1>3. Kinds'
  BY <1>0 DEF Kinds
<1>4. Headings'
  BY <1>0 DEF Headings
<1>5. Collected'
  <2>1. PICK S, new : S = {RowOf[e] : e \in 1 .. Count} /\ new = RowOf[k + 1]
    OBVIOUS
  <2>2. rows \in Seq(S) /\ new \in S /\ rows' = Append(rows, new)
    BY <1>0, <1>1, <1>2, <2>1
  <2>3. /\ rows' \in Seq(S) /\ Len(rows') = k + 1 /\ DOMAIN rows' = 1 .. k + 1
        /\ \A i \in 1 .. k : rows'[i] = rows[i]
        /\ rows'[k + 1] = new
    BY <1>0, <2>2
  <2>4. \A i \in 1 .. k + 1 : i \in 1 .. k \/ i = k + 1
    BY <1>0
  <2>5. \A i \in 1 .. k + 1 : rows'[i].of = i
    BY <1>0, <1>2, <2>1, <2>3, <2>4
  <2>6. \A i \in 1 .. k + 1 : i \in 1 .. Count
    BY <1>0, <1>1
  <2>7. \A i \in 1 .. k + 1 : rows'[i] = RowOf[i]
    BY <1>0, <2>1, <2>3, <2>4
  <2>8. heap' = 1 .. k + 1
    BY <1>0
  <2>9. rows' \in Seq({RowOf'[e] : e \in 1 .. Count'})
    BY <1>0, <2>1, <2>3
  <2> HIDE <2>1
  <2>10. DOMAIN rows' = 1 .. Len(rows') /\ Len(rows') \in Nat
    BY <1>0, <2>3
  <2>11. \A a \in DOMAIN rows' : rows'[a].of \in 1 .. Count' /\ rows'[a] = RowOf'[rows'[a].of]
    BY <1>0, <2>3, <2>5, <2>6, <2>7
  <2> QED BY <1>0, <1>1, <2>3, <2>5, <2>8, <2>9, <2>10, <2>11 DEF Collected
<1>6. Emitted = {} /\ Emitted' = {} /\ ElementRows' = ElementRows
  BY <1>0 DEF Emitted, ElementRows
<1>7. Output'
  BY <1>0, <1>6, OutputKept
<1> QED BY <1>3, <1>4, <1>5, <1>7 DEF Inv

LEMMA SortRowsStep == Inv /\ SortRows => Inv'
<1> SUFFICES ASSUME Inv, SortRows PROVE Inv'
  OBVIOUS
<1>0. /\ Kinds /\ Headings /\ Collected /\ Output /\ call \in Calls /\ at = "collect" /\ k \in Nat
      /\ call' = call /\ at' = "emit" /\ read' = read /\ out' = out /\ heap' = heap
      /\ k' = 0 /\ rows' \in Sorted(rows) /\ Sorts
      /\ heap = 1 .. k /\ Len(rows) = k /\ DOMAIN rows = 1 .. k
      /\ \A i \in 1 .. k : rows[i].of = i
      /\ \A i \in 1 .. k : rows[i].of \in 1 .. Count /\ rows[i] = RowOf[rows[i].of]
  BY DEF Inv, Kinds, Collected, SortRows, GoOn
<1>1. Count \in Nat /\ k = Count
  BY <1>0, RowFacts DEF SortRows, Left, Count, Collected
<1>2. PICK n : n = Count
  OBVIOUS
<1>3. PICK p \in {q \in [1 .. n -> 1 .. n] : IsInjective(q)} : rows' = [i \in 1 .. n |-> rows[p[i]]]
  <2>1. PICK p \in {q \in [DOMAIN rows -> DOMAIN rows] : IsInjective(q)} :
          rows' = [i \in DOMAIN rows |-> rows[p[i]]]
    BY <1>0 DEF Sorted
  <2>2. PICK D, r : D = DOMAIN rows /\ r = rows
    OBVIOUS
  <2>3. D = 1 .. n /\ p \in {q \in [D -> D] : IsInjective(q)} /\ rows' = [i \in D |-> r[p[i]]]
    BY <1>0, <1>1, <1>2, <2>1, <2>2
  <2> QED BY <2>2, <2>3
<1>4. \A i, j \in 1 .. n : i < j => AtMost(rows'[i].text, rows'[j].text)
  BY <1>0, <1>3 DEF Sorted
<1>5. p \in [1 .. n -> 1 .. n] /\ \A i, j \in 1 .. n : p[i] = p[j] => i = j
  BY <1>3 DEF IsInjective
<1>6. \A e \in 1 .. n : \E i \in 1 .. n : p[i] = e
  <2>1. p \in Injection(1 .. n, 1 .. n)
    BY <1>5 DEF Injection, IsInjective
  <2>2. IsFiniteSet(1 .. n)
    BY <1>1, <1>2, FS_Interval
  <2>3. p \in Surjection(1 .. n, 1 .. n)
    BY <2>1, <2>2, FS_Injection
  <2> QED BY <2>3 DEF Surjection
<1>7. \A i \in 1 .. n : rows'[i] = rows[p[i]] /\ rows'[i].of = p[i] /\ p[i] \in 1 .. n
  BY <1>0, <1>1, <1>2, <1>3, <1>5
<1>8. DOMAIN rows' = 1 .. n /\ Len(rows') = n
  BY <1>1, <1>2, <1>3
<1> USE SameCall
<1>9. Kinds'
  BY <1>0 DEF Kinds
<1>10. Headings'
  BY <1>0 DEF Headings
<1>11. Collected'
  <2>1. \A a \in DOMAIN rows' : rows'[a].of \in 1 .. Count' /\ rows'[a] = RowOf'[rows'[a].of]
    BY <1>0, <1>1, <1>2, <1>7, <1>8
  <2>2. heap' = {rows'[a].of : a \in 1 .. n}
    <3>1. heap' = 1 .. n
      BY <1>0, <1>1, <1>2
    <3>2. \A a \in 1 .. n : rows'[a].of = p[a] /\ p[a] \in 1 .. n
      BY <1>7
    <3> QED BY <1>6, <3>1, <3>2
  <2>3. \A a, b \in 1 .. n : rows'[a].of = rows'[b].of => a = b
    BY <1>5, <1>7
  <2>4. \A e \in 1 .. n : \E a \in 1 .. n : rows'[a].of = e
    <3> SUFFICES ASSUME NEW e \in 1 .. n PROVE \E a \in 1 .. n : rows'[a].of = e
      OBVIOUS
    <3>1. PICK a \in 1 .. n : p[a] = e
      BY <1>6
    <3>2. rows'[a].of = e
      BY <1>7, <3>1
    <3> QED BY <3>2
  <2>5. k' + 1 .. Count' = 1 .. n /\ Count' = n /\ k' <= Count' /\ n \in Nat
    BY <1>0, <1>1, <1>2
  <2> QED BY <1>0, <1>4, <1>8, <2>1, <2>2, <2>3, <2>4, <2>5 DEF Collected
<1>12. Emitted = {} /\ Emitted' = {} /\ ElementRows' = ElementRows
  BY <1>0 DEF Emitted, ElementRows
<1>13. Output'
  BY <1>0, <1>12, OutputKept
<1> QED BY <1>9, <1>10, <1>11, <1>13 DEF Inv

LEMMA EmitRowStep == Inv /\ EmitRow => Inv'
<1> SUFFICES ASSUME Inv, EmitRow PROVE Inv'
  OBVIOUS
<1>0. /\ Kinds /\ Headings /\ Collected /\ Output /\ call \in Calls /\ at = "emit" /\ k \in Nat
      /\ call' = call /\ at' = at /\ read' = read /\ rows' = rows /\ k' = k + 1
      /\ out' = out \o rows[k + 1].toks /\ heap' = heap \ {rows[k + 1].of}
      /\ Sorts /\ k < Len(rows) /\ Len(rows) = Count /\ DOMAIN rows = 1 .. Count /\ Count \in Nat
      /\ heap = {rows[a].of : a \in k + 1 .. Count}
      /\ \A a, b \in 1 .. Count : rows[a].of = rows[b].of => a = b
      /\ \A e \in 1 .. Count : \E a \in 1 .. Count : rows[a].of = e
      /\ \A a, b \in 1 .. Count : a < b => AtMost(rows[a].text, rows[b].text)
      /\ \A a \in 1 .. Count : rows[a].of \in 1 .. Count /\ rows[a] = RowOf[rows[a].of]
  BY RowFacts DEF Inv, Kinds, Collected, EmitRow, Put
<1>1. PICK e, n, row : e = rows[k + 1].of /\ n = Count /\ row = rows[k + 1]
  OBVIOUS
<1>2. /\ e \in 1 .. Count /\ row = RowOf[e] /\ out' = out \o RowOf[e].toks
      /\ k + 1 \in 1 .. n
      /\ \A a \in 1 .. k : a \in 1 .. n /\ a # k + 1 /\ a < k + 1
      /\ \A a \in 1 .. k + 1 : a \in 1 .. k \/ a = k + 1
      /\ \A a \in k + 1 .. n : a \in 1 .. n /\ (a # k + 1 <=> a \in k + 2 .. n)
      /\ \A a \in k + 2 .. n : a \in k + 1 .. n
  <2>1. k + 1 \in 1 .. Count
    BY <1>0
  <2>2. e \in 1 .. Count /\ row = RowOf[e]
    BY <1>0, <1>1, <2>1
  <2>3. out' = out \o row.toks
    BY <1>0, <1>1
  <2>4. /\ \A a \in 1 .. k : a \in 1 .. n /\ a # k + 1 /\ a < k + 1
        /\ \A a \in 1 .. k + 1 : a \in 1 .. k \/ a = k + 1
        /\ \A a \in k + 1 .. n : a \in 1 .. n /\ (a # k + 1 <=> a \in k + 2 .. n)
        /\ \A a \in k + 2 .. n : a \in k + 1 .. n
    <3>1. k \in Nat /\ n \in Nat /\ k < n
      BY <1>0, <1>1
    <3> QED BY <3>1
  <2> QED BY <1>1, <2>1, <2>2, <2>3, <2>4
<1>3. Emitted = {rows[a].of : a \in 1 .. k} /\ Emitted' = {rows[a].of : a \in 1 .. k + 1}
  <2>1. Emitted = {rows[a].of : a \in 1 .. k}
    BY <1>0 DEF Emitted
  <2>2. Emitted' = {rows'[a].of : a \in 1 .. k'}
    BY <1>0 DEF Emitted
  <2> QED BY <1>0, <2>1, <2>2
<1>4. e \notin Emitted
  <2> SUFFICES ASSUME NEW a \in 1 .. k, rows[a].of = e PROVE FALSE
    BY <1>3
  <2>1. a \in 1 .. Count /\ k + 1 \in 1 .. Count /\ a # k + 1
    BY <1>1, <1>2
  <2>2. rows[a].of = rows[k + 1].of
    BY <1>1
  <2> QED BY <1>0, <2>1, <2>2
<1>5. Emitted' = Emitted \union {e}
  <2>1. \A a \in 1 .. k : a \in 1 .. k + 1
    BY <1>0
  <2>2. k + 1 \in 1 .. k + 1 /\ \A a \in 1 .. k + 1 : a \in 1 .. k \/ a = k + 1
    BY <1>0
  <2> QED BY <1>1, <1>3, <2>1, <2>2
<1> USE SameCall
<1>6. out' \in Seq(Token(Allowed'))
  BY <1>0, <1>2, RowPut
<1>7. Kinds'
  BY <1>0, <1>6 DEF Kinds
<1>8. Headings'
  BY <1>0 DEF Headings
<1>9. Collected'
  <2>1. heap' = {rows[a].of : a \in k + 2 .. n}
    <3>1. ASSUME NEW f \in heap' PROVE f \in {rows[a].of : a \in k + 2 .. n}
      <4>1. PICK a \in k + 1 .. n : f = rows[a].of
        BY <1>0, <1>1, <3>1
      <4>2. a # k + 1
        BY <1>0, <3>1, <4>1
      <4> QED BY <1>2, <4>1, <4>2
    <3>2. ASSUME NEW a \in k + 2 .. n PROVE rows[a].of \in heap'
      <4>1. a \in k + 1 .. n /\ a \in 1 .. n /\ a # k + 1
        BY <1>2
      <4>2. rows[a].of # rows[k + 1].of /\ rows[a].of \in heap
        BY <1>0, <1>1, <1>2, <4>1
      <4> QED BY <1>0, <4>2
    <3> QED BY <3>1, <3>2
  <2>2. heap' = {rows'[a].of : a \in k' + 1 .. Count'}
    <3>1. k' + 1 = k + 2 /\ Count' = n /\ rows' = rows
      BY <1>0, <1>1
    <3>2. k' + 1 .. Count' = k + 2 .. n
      BY <3>1
    <3> QED BY <2>1, <3>1, <3>2
  <2>3. k' <= Count' /\ Len(rows') = Count' /\ Sorts' /\ at' = "emit"
    BY <1>0, <1>1
  <2>4. /\ DOMAIN rows' = 1 .. Len(rows') /\ Len(rows') \in Nat
        /\ \A a \in DOMAIN rows' : rows'[a].of \in 1 .. Count' /\ rows'[a] = RowOf'[rows'[a].of]
    BY <1>0
  <2>5. /\ \A a, b \in 1 .. Count' : rows'[a].of = rows'[b].of => a = b
        /\ \A f \in 1 .. Count' : \E a \in 1 .. Count' : rows'[a].of = f
        /\ \A a, b \in 1 .. Count' : a < b => AtMost(rows'[a].text, rows'[b].text)
    BY <1>0
  <2> QED BY <2>2, <2>3, <2>4, <2>5 DEF Collected
<1>10. Output'
  <2>1. \A f \in Emitted : AtMost(RowOf[f].text, RowOf[e].text)
    <3> SUFFICES ASSUME NEW f \in Emitted PROVE AtMost(RowOf[f].text, RowOf[e].text)
      OBVIOUS
    <3>1. PICK a \in 1 .. k : f = rows[a].of
      BY <1>3
    <3>2. AtMost(rows[a].text, rows[k + 1].text)
      BY <1>0, <1>1, <1>2
    <3>3. rows[a] = RowOf[f] /\ rows[k + 1] = RowOf[e]
      BY <1>0, <1>1, <1>2, <3>1
    <3> QED BY <3>2, <3>3
  <2> QED BY <1>0, <1>2, <1>4, <1>5, <2>1, OutputGrown
<1> QED BY <1>7, <1>8, <1>9, <1>10 DEF Inv

LEMMA CloseStep == Inv /\ Close => Inv'
<1> SUFFICES ASSUME Inv, Close PROVE Inv'
  OBVIOUS
<1>0. /\ Kinds /\ Headings /\ Collected /\ Output /\ call \in Calls /\ k \in Nat /\ Count \in Nat
      /\ (at = "rows" /\ ~ Left) \/ (at = "emit" /\ k = Len(rows))
      /\ call' = call /\ at' = "end" /\ k' = 0 /\ read' = read /\ rows' = rows /\ heap' = heap
  BY RowFacts DEF Inv, Kinds, Close, GoOn
<1>1. PICK toks : /\ toks = (IF Closes THEN <<Closing>> ELSE <<>>) \o WrapperEnd
                  /\ out' = out \o toks
  BY DEF Close, Put
<1>2. toks \in Seq(Token(Allowed)) /\ Plain(toks)
  <2>1. PICK M : M = Token(Allowed)
    OBVIOUS
  <2>2. Closing \in M /\ ~ IsElement(Closing)
    <3>1. Closing.tag = "end"
      BY TokensMade
    <3> QED BY <2>1, <3>1, TokensMade DEF IsElement
  <2>3. PICK a, b : a = (IF Closes THEN <<Closing>> ELSE <<>>) /\ b = WrapperEnd
    OBVIOUS
  <2>4. /\ <<>> \in Seq(M) /\ <<Closing>> \in Seq(M)
        /\ Plain(<<>>) /\ Plain(<<Closing>>)
    BY <2>2 DEF Plain
  <2>5. a \in Seq(M) /\ b \in Seq(M) /\ Plain(a) /\ Plain(b)
    BY <2>3, <2>4 DEF WrapperEnd
  <2>6. toks = a \o b /\ toks \in Seq(M)
    BY <1>1, <2>3, <2>5
  <2>7. Plain(toks)
    <3> SUFFICES ASSUME NEW i \in DOMAIN toks PROVE ~ IsElement(toks[i])
      BY DEF Plain
    <3>1. \/ i \in DOMAIN a /\ toks[i] = a[i]
          \/ i - Len(a) \in DOMAIN b /\ toks[i] = b[i - Len(a)]
      BY <2>5, <2>6
    <3> QED BY <2>5, <3>1 DEF Plain
  <2> QED BY <2>1, <2>6, <2>7
<1>3. /\ out' \in Seq(Token(Allowed')) /\ ElementRows' = ElementRows
      /\ DOMAIN out \subseteq DOMAIN out' /\ \A i \in ElementRows : out'[i] = out[i]
  BY <1>0, <1>1, <1>2, PlainPut
<1> USE SameCall
<1>4. /\ heap = {} /\ Emitted = 1 .. Count /\ (at = "rows" => ~ Sorts)
  <2>1. CASE at = "rows" /\ ~ Left
    <3>1. k <= Count /\ ~ (k < Count) /\ heap = {} /\ ~ Sorts
      BY <1>0, <2>1 DEF Collected, Left, Count
    <3>2. k = Count
      BY <1>0, <3>1
    <3> QED BY <2>1, <3>1, <3>2 DEF Emitted
  <2>2. CASE at = "emit" /\ k = Len(rows)
    <3>1. /\ Len(rows) = Count /\ DOMAIN rows = 1 .. Count
          /\ heap = {rows[a].of : a \in k + 1 .. Count}
          /\ \A e \in 1 .. Count : \E a \in 1 .. Count : rows[a].of = e
          /\ \A a \in 1 .. Count : rows[a].of \in 1 .. Count
      BY <1>0, <2>2 DEF Collected
    <3>2. k + 1 .. Count = {}
      BY <1>0, <2>2, <3>1
    <3>3. heap = {}
      BY <3>1, <3>2
    <3>4. Emitted = {rows[a].of : a \in 1 .. Count}
      BY <2>2, <3>1 DEF Emitted
    <3>5. Emitted = 1 .. Count
      BY <3>1, <3>4
    <3> QED BY <2>2, <3>3, <3>5
  <2> QED BY <1>0, <2>1, <2>2
<1>5. Kinds'
  BY <1>0, <1>3 DEF Kinds
<1>6. Headings'
  BY <1>0 DEF Headings
<1>7. Collected'
  BY <1>0, <1>4 DEF Collected
<1>8. Emitted' = Emitted
  BY <1>0, <1>4 DEF Emitted
<1>9. Output'
  BY <1>0, <1>3, <1>4, <1>8, OutputKept
<1> QED BY <1>5, <1>6, <1>7, <1>9 DEF Inv

\* The invariant holds in every state: the table that is made, the rows that are collected and
\* what was put out agree at each step.
THEOREM TableInductive == Spec => []Inv
<1>1. ASSUME Inv, [Next]_vars PROVE Inv'
  <2>1. CASE UNCHANGED vars
    <3>1. call' = call /\ at' = at /\ k' = k /\ read' = read /\ rows' = rows /\ heap' = heap /\ out' = out
      BY <2>1 DEF vars
    <3>2. Kinds' /\ Headings'
      BY <1>1, <3>1, SameCall DEF Inv, Kinds, Headings
    <3>3. Collected'
      <4>1. Count' = Count /\ RowOf' = RowOf /\ Sorts' = Sorts
        BY <3>1, SameCall DEF Sorts
      <4>2. Collected
        BY <1>1 DEF Inv
      <4> QED BY <3>1, <4>1, <4>2 DEF Collected
    <3>4. ElementRows' = ElementRows /\ Emitted' = Emitted
      BY <3>1, SameCall DEF ElementRows, Emitted
    <3>5. Output'
      BY <1>1, <3>1, <3>4, OutputKept DEF Inv
    <3> QED BY <3>2, <3>3, <3>5 DEF Inv
  <2> QED BY <1>1, <2>1, HeaderStep, ColumnHeaderStep, FixedPartStep, DirectRowStep,
             CollectRowStep, SortRowsStep, EmitRowStep, CloseStep DEF Next
<1> QED BY InitInv, <1>1, PTL DEF Spec

-------------------------------------------------------------------------------
\* The types: the strings on the heap, the collected rows and the tokens are what the
\* renderers of mulle-objc-html.c make for the elements of the call.
THEOREM TableTypes == Spec => []TypeOK
<1>1. ASSUME Inv PROVE TypeOK
  <2>1. /\ Kinds /\ Headings /\ Collected /\ call \in Calls /\ k \in Nat
        /\ Count \in Nat /\ DOMAIN call.elements = 1 .. Count
    BY <1>1, RowFacts DEF Inv, Kinds
  <2>2. at \in {"header", "columns", "fixed", "rows", "collect", "emit", "end"}
    BY <2>1 DEF Kinds
  <2>3. k \in 0 .. (IF at = "columns" THEN Columns ELSE Len(call.elements))
    <3>1. CASE at = "columns"
      BY <2>1, <3>1, ColumnFacts DEF Headings
    <3>2. CASE at # "columns"
      <4>1. at \in {"header", "fixed", "end"} => k = 0
        BY <2>1 DEF Headings, Collected
      <4>2. at \in {"rows", "collect", "emit"} => k <= Count
        BY <2>1 DEF Collected
      <4> QED BY <2>1, <2>2, <3>2, <4>1, <4>2 DEF Count
    <3> QED BY <3>1, <3>2
  <2>4. \A i \in DOMAIN rows : rows[i].of \in DOMAIN call.elements
    BY <2>1 DEF Collected
  <2>5. heap \subseteq DOMAIN call.elements
    <3>1. CASE at = "collect"
      <4>1. heap = 1 .. k /\ k <= Count
        BY <2>1, <3>1 DEF Collected
      <4> QED BY <2>1, <4>1
    <3>2. CASE at = "emit"
      <4>1. heap = {rows[a].of : a \in k + 1 .. Count} /\ DOMAIN rows = 1 .. Count
        BY <2>1, <3>2 DEF Collected
      <4>2. \A a \in k + 1 .. Count : a \in DOMAIN rows
        BY <2>1, <4>1
      <4> QED BY <2>4, <4>1, <4>2
    <3>3. CASE at \notin {"collect", "emit"}
      BY <2>1, <2>2, <3>3 DEF Collected
    <3> QED BY <3>1, <3>2, <3>3
  <2>6. \A i \in DOMAIN out : out[i].tag \in {"table", "row", "end"}
    <3>1. \A i \in DOMAIN out : out[i] \in Token(Allowed)
      BY <2>1 DEF Kinds
    <3> QED BY <3>1, TokenFields
  <2> QED BY <2>1, <2>2, <2>3, <2>4, <2>5, <2>6 DEF TypeOK, Kinds
<1> QED BY <1>1, TableInductive, PTL

\* The loop over the column headers (mulle_buffer_add_column_headers) reads no entry behind
\* the last one of an array that has no NULL at its end, and every one before it.
THEOREM HeadersRight == Spec => []HeadersRead
<1>1. ASSUME Inv PROVE HeadersRead
  <2> SUFFICES ASSUME HasStyle
               PROVE  /\ read <= call.use.style.headers
                      /\ at = "end" => read = call.use.style.headers
    BY DEF HeadersRead
  <2>1. Headings /\ call \in Calls
    BY <1>1 DEF Inv, Kinds
  <2>2. /\ IF HasHeaders THEN Columns = call.use.style.headers ELSE call.use.style.headers = 0
        /\ Columns \in Nat
    BY <2>1, ColumnFacts
  <2> QED BY <2>1, <2>2 DEF Headings
<1> QED BY <1>1, TableInductive, PTL

\* "graphviz don't like CLASS, can't deal with TH": the labels of DOT nodes have neither, nor
\* links, but for the tables of the selectors and of the classes, whichever names they list.
THEOREM Dialect == Spec => []GraphvizDialect
<1>1. ASSUME Inv PROVE GraphvizDialect
  <2>1. \A i \in DOMAIN out : out[i] \in Token(Allowed)
    BY <1>1 DEF Inv, Kinds
  <2>2. Marks \subseteq Allowed
    BY <2>1, TokenFields DEF Marks
  <2> QED BY <2>2 DEF GraphvizDialect, Allowed
<1> QED BY <1>1, TableInductive, PTL

\* However the rows are collected and sorted, the finished table has one row for each element,
\* or one for each class of a list that waits, and no collected string is left on the heap.
THEOREM RowsOnce == Spec => []EveryRowOnce
<1>1. ASSUME Inv PROVE EveryRowOnce
  <2> SUFFICES ASSUME at = "end"
               PROVE  /\ heap = {}
                      /\ \A i \in ElementRows : out[i].of \in DOMAIN call.elements
                      /\ \A e \in DOMAIN call.elements : \E i \in DOMAIN out :
                           {j \in ElementRows : out[j].of = e} = i .. i + RowsOf(e) - 1
    BY DEF EveryRowOnce
  <2>1. Output /\ Collected /\ DOMAIN call.elements = 1 .. Count /\ Emitted = 1 .. Count
    BY <1>1, RowFacts DEF Inv, Kinds, Emitted
  <2>2. heap = {}
    BY <2>1 DEF Collected
  <2> QED BY <2>1, <2>2 DEF Output
<1> QED BY <1>1, TableInductive, PTL

\* "sort by name": the rows of a finished table that is sorted are in the order of the names
\* they show, but for a name that another one continues with a character below what follows it.
THEOREM RowsInOrder == Spec => []NamesInOrder
<1>1. ASSUME Inv PROVE NamesInOrder
  <2> SUFFICES ASSUME Sorts, at = "end", NEW i \in ElementRows, NEW j \in ElementRows, i < j
               PROVE  \/ Overtakes(Shown(out[i].of), Shown(out[j].of))
                      \/ /\ AtMost(Shown(out[i].of), Shown(out[j].of))
                         /\ ~ Overtakes(Shown(out[j].of), Shown(out[i].of))
    BY DEF NamesInOrder
  <2>1. /\ Output /\ call \in Calls /\ DOMAIN call.elements = 1 .. Count
        /\ out[i].of \in 1 .. Count /\ out[j].of \in 1 .. Count
        /\ out[i].of = out[j].of \/ AtMost(RowOf[out[i].of].text, RowOf[out[j].of].text)
    BY <1>1, RowFacts DEF Inv, Kinds, Output, Emitted
  <2>2. PICK e, f, a, b : e = out[i].of /\ f = out[j].of /\ a = Shown(e) /\ b = Shown(f)
    OBVIOUS
  <2>3. ASSUME NEW g \in 1 .. Count PROVE Shown(g) \in Seq(Nat)
    <3>1. Name(g) \in Names
      <4>1. call.elements \in Seq(Names) /\ g \in DOMAIN call.elements
        BY <2>1, CallFacts
      <4> QED BY <4>1 DEF Name
    <3>2. Name(g) \in Seq(33 .. 126)
      BY <3>1, HtmlTableAssumption
    <3>3. Name(g) \in Seq(Nat)
      <4>1. PICK R, s : R = 33 .. 126 /\ s = Name(g)
        OBVIOUS
      <4>2. s \in Seq(R)
        BY <3>2, <4>1
      <4>3. R \subseteq Nat
        BY <4>1
      <4> HIDE <4>1
      <4>4. /\ Len(s) \in Nat /\ s = [m \in 1 .. Len(s) |-> s[m]]
            /\ \A m \in 1 .. Len(s) : s[m] \in R
        BY <4>2
      <4>5. s \in Seq(Nat)
        BY <4>3, <4>4
      <4> QED BY <4>1, <4>5
    <3>4. BadHtml \in Seq(Nat)
      BY DEF BadHtml
    <3> QED BY <3>3, <3>4 DEF Shown, html_escape
  <2>4. a \in Seq(Nat) /\ b \in Seq(Nat)
    BY <2>1, <2>2, <2>3
  <2>5. Follows \in Nat
    BY DEF Follows, Dot, Quote, Lt
  <2>6. CASE e = f
    <3>1. a = b /\ Len(a) \in Nat
      BY <2>2, <2>4, <2>6
    <3>2. AtMost(a, b) /\ ~ Overtakes(b, a)
      BY <3>1 DEF AtMost, Overtakes
    <3> QED BY <2>2, <3>2
  <2>7. CASE e # f
    <3>1. RowsOf(e) # 0 /\ RowsOf(f) # 0
      <4>1. ASSUME NEW g \in ElementRows, RowsOf(out[g].of) = 0 PROVE FALSE
        <5>1. PICK h \in DOMAIN out : {m \in ElementRows : out[m].of = out[g].of} = h .. h + 0 - 1
          BY <1>1, <2>1, <4>1 DEF Output
        <5>2. h \in Nat
          BY <1>1, <5>1 DEF Inv, Kinds
        <5> QED BY <5>1, <5>2
      <4> QED BY <2>2, <4>1
    <3>2. RowOf[e].text = Append(a, Follows) /\ RowOf[f].text = Append(b, Follows)
      BY <2>1, <2>2, <3>1, RowFacts, RenderedFacts
    <3>3. AtMost(Append(a, Follows), Append(b, Follows))
      BY <2>1, <2>2, <2>7, <3>2
    <3>4. Overtakes(a, b) \/ (AtMost(a, b) /\ ~ Overtakes(b, a))
      BY <2>4, <2>5, <3>3, OrderOfTexts
    <3> QED BY <2>2, <3>4
  <2> QED BY <2>6, <2>7
<1> QED BY <1>1, TableInductive, PTL

-------------------------------------------------------------------------------
(***************************************************************************)
(* The width of a row, added up cell by cell.                              *)
(***************************************************************************)
LEMMA WidthSum ==
  ASSUME NEW row, NEW n \in 1 .. 5, Len(row.cells) = n,
         NEW g \in [0 .. n -> Int], g[0] = 0, \A i \in 1 .. n : g[i] = g[i - 1] + row.cells[i]
  PROVE  Width(row) = g[n]
<1> DEFINE Sums(f) == f = [i \in 0 .. n |-> IF i = 0 THEN 0 ELSE f[i - 1] + row.cells[i]]
           upTo == CHOOSE f : Sums(f)
<1>1. Sums(g)
  <2>1. \A i \in 0 .. n : g[i] = IF i = 0 THEN 0 ELSE g[i - 1] + row.cells[i]
    <3>1. \A i \in 0 .. n : i = 0 \/ i \in 1 .. n
      OBVIOUS
    <3> QED BY <3>1
  <2>2. g = [i \in 0 .. n |-> g[i]]
    OBVIOUS
  <2> QED BY <2>1, <2>2
<1>2. Sums(upTo)
  BY <1>1
<1>3. Width(row) = upTo[n]
  BY DEF Width
<1> HIDE DEF upTo
<1>4. upTo[0] = 0 /\ \A i \in 1 .. n : upTo[i] = upTo[i - 1] + row.cells[i]
  <2>1. \A i \in 0 .. n : upTo[i] = IF i = 0 THEN 0 ELSE upTo[i - 1] + row.cells[i]
    BY <1>2
  <2>2. 0 \in 0 .. n /\ \A i \in 1 .. n : i \in 0 .. n /\ i # 0
    OBVIOUS
  <2> QED BY <2>1, <2>2
<1> HIDE DEF Sums
<1>5. upTo[0] = g[0] /\ \A i \in 1 .. n : upTo[i - 1] = g[i - 1] => upTo[i] = g[i]
  BY <1>4
<1>6. upTo[1] = g[1] /\ 1 \in 1 .. n
  <2>1. 1 \in 1 .. n /\ 1 - 1 = 0
    OBVIOUS
  <2> QED BY <1>5, <2>1
<1>7. n >= 2 => upTo[2] = g[2]
  <2>1. n >= 2 => 2 \in 1 .. n /\ 2 - 1 = 1
    OBVIOUS
  <2> QED BY <1>5, <1>6, <2>1
<1>8. n >= 3 => upTo[3] = g[3]
  <2>1. n >= 3 => n >= 2 /\ 3 \in 1 .. n /\ 3 - 1 = 2
    OBVIOUS
  <2> QED BY <1>5, <1>7, <2>1
<1>9. n >= 4 => upTo[4] = g[4]
  <2>1. n >= 4 => n >= 3 /\ 4 \in 1 .. n /\ 4 - 1 = 3
    OBVIOUS
  <2> QED BY <1>5, <1>8, <2>1
<1>10. n >= 5 => upTo[5] = g[5]
  <2>1. n >= 5 => n >= 4 /\ 5 \in 1 .. n /\ 5 - 1 = 4
    OBVIOUS
  <2> QED BY <1>5, <1>9, <2>1
<1>11. n \in {1, 2, 3, 4, 5}
  OBVIOUS
<1> QED BY <1>3, <1>6, <1>7, <1>8, <1>9, <1>10, <1>11

\* The widths of the rows the renderers write.
LEMMA Widths ==
  ASSUME NEW marks, NEW e
  PROVE  /\ Width(Row(<<1>>, marks, e)) = 1 /\ Width(Row(<<2>>, marks, e)) = 2
         /\ Width(Row(<<5>>, marks, e)) = 5
         /\ Width(Row(Pair, marks, e)) = 2 /\ Width(Row(<<1, 5>>, marks, e)) = 6
         /\ Width(Row(<<1, 1, 1, 1>>, marks, e)) = 4
         /\ Width(Row(<<1, 1, 1, 1, 1>>, marks, e)) = 5
         /\ Width(Row([i \in 1 .. 4 |-> 1], marks, e)) = 4
<1>1. \A cells : Row(cells, marks, e).cells = cells
  BY DEF Row
<1>2. ASSUME NEW w \in Nat PROVE Width(Row(<<w>>, marks, e)) = w
  <2> DEFINE g == [i \in 0 .. 1 |-> IF i = 0 THEN 0 ELSE w]
  <2>1. PICK row : row = Row(<<w>>, marks, e)
    OBVIOUS
  <2>2. Len(row.cells) = 1 /\ row.cells[1] = w
    BY <1>1, <2>1
  <2>3. g \in [0 .. 1 -> Int] /\ g[0] = 0 /\ g[1] = w /\ \A i \in 1 .. 1 : g[i] = g[i - 1] + row.cells[i]
    BY <2>2
  <2> HIDE DEF g
  <2> QED BY <2>1, <2>2, <2>3, WidthSum
<1>3. ASSUME NEW v \in Nat, NEW w \in Nat PROVE Width(Row(<<v, w>>, marks, e)) = v + w
  <2> DEFINE g == [i \in 0 .. 2 |-> IF i = 0 THEN 0 ELSE IF i = 1 THEN v ELSE v + w]
  <2>1. PICK row : row = Row(<<v, w>>, marks, e)
    OBVIOUS
  <2>2. Len(row.cells) = 2 /\ row.cells[1] = v /\ row.cells[2] = w
    BY <1>1, <2>1
  <2>3. /\ g \in [0 .. 2 -> Int] /\ g[0] = 0 /\ g[1] = v /\ g[2] = v + w
        /\ \A i \in 1 .. 2 : i = 1 \/ i = 2
    OBVIOUS
  <2> HIDE DEF g
  <2>4. \A i \in 1 .. 2 : g[i] = g[i - 1] + row.cells[i]
    BY <2>2, <2>3
  <2> QED BY <2>1, <2>2, <2>3, <2>4, WidthSum
<1>4. ASSUME NEW n \in 4 .. 5, NEW cells, Len(cells) = n, \A i \in 1 .. n : cells[i] = 1
      PROVE  Width(Row(cells, marks, e)) = n
  <2> DEFINE g == [i \in 0 .. n |-> i]
  <2>1. PICK row : row = Row(cells, marks, e)
    OBVIOUS
  <2>2. Len(row.cells) = n /\ \A i \in 1 .. n : row.cells[i] = 1
    BY <1>1, <1>4, <2>1
  <2>3. g \in [0 .. n -> Int] /\ g[0] = 0 /\ g[n] = n /\ \A i \in 1 .. n : g[i] = g[i - 1] + 1
    OBVIOUS
  <2>4. n \in 1 .. 5
    OBVIOUS
  <2> HIDE DEF g
  <2>5. \A i \in 1 .. n : g[i] = g[i - 1] + row.cells[i]
    BY <2>2, <2>3
  <2>6. Len(row.cells) = n /\ g \in [0 .. n -> Int] /\ g[0] = 0
    BY <2>2, <2>3
  <2>7. Width(row) = g[n]
    BY <2>4, <2>5, <2>6, WidthSum
  <2> QED BY <2>1, <2>3, <2>7
<1>5. Width(Row(<<1, 1, 1, 1>>, marks, e)) = 4
  <2>1. /\ Len(<<1, 1, 1, 1>>) = 4 /\ 4 \in 4 .. 5
        /\ \A i \in 1 .. 4 : <<1, 1, 1, 1>>[i] = 1
    OBVIOUS
  <2> QED BY <1>4, <2>1
<1>6. Width(Row(<<1, 1, 1, 1, 1>>, marks, e)) = 5
  <2>1. /\ Len(<<1, 1, 1, 1, 1>>) = 5 /\ 5 \in 4 .. 5
        /\ \A i \in 1 .. 5 : <<1, 1, 1, 1, 1>>[i] = 1
    OBVIOUS
  <2> QED BY <1>4, <2>1
<1>7. Width(Row([i \in 1 .. 4 |-> 1], marks, e)) = 4
  <2>1. PICK cells : cells = [i \in 1 .. 4 |-> 1]
    OBVIOUS
  <2>2. /\ Len(cells) = 4 /\ 4 \in 4 .. 5
        /\ \A i \in 1 .. 4 : cells[i] = 1
    BY <2>1
  <2> QED BY <1>4, <2>1, <2>2
<1> QED BY <1>2, <1>3, <1>5, <1>6, <1>7 DEF Pair

(***************************************************************************)
(* The rows fit the table the header opened, and only the classes to load  *)
(* come with a table each.                                                 *)
(***************************************************************************)
Wrapped == call.use.page = "wrapped"

FitsIn(row, columns) == \/ Width(row) = columns
                        \/ Terse /\ Width(row) < columns
                        \/ call.use.of = "cache" /\ row.of = 0 /\ Width(row) = columns + 1

LEMMA ColumnsAre ==
  ASSUME call \in Calls, HasStyle
  PROVE  Columns = IF call.use.of = "ivarlist_hor" THEN 4
                   ELSE IF call.use.of \in {"methodlist_hor", "cache"} THEN 5
                   ELSE IF call.use.row = "descriptor_entry" THEN 4 ELSE 2
<1>1. Fits(call.use)
  BY CallFacts
<1>2. CASE call.use.of = "ivarlist_hor"
  BY <1>2 DEF Columns, Colspan
<1>3. CASE call.use.of \in {"methodlist_hor", "cache"}
  BY <1>3 DEF Columns, Colspan
<1>4. CASE call.use.of \notin {"ivarlist_hor", "methodlist_hor", "cache"}
  <2>1. Colspan = call.use.style.colspan
    BY <1>4 DEF Colspan
  <2>2. CASE call.use.row = "descriptor_entry"
    <3>1. Colspan = 4
      BY <1>1, <2>1, <2>2, StylesDiffer DEF Fits
    <3> QED BY <1>4, <2>2, <3>1 DEF Columns
  <2>3. CASE call.use.row # "descriptor_entry"
    <3>1. call.use.style \in {Inline, Css}
      BY <1>1, <1>4, <2>3 DEF Fits, HasStyle
    <3>2. Colspan = 0
      BY <2>1, <3>1, StylesDiffer
    <3> QED BY <1>4, <2>3, <3>2 DEF Columns
  <2> QED BY <2>2, <2>3
<1> QED BY <1>2, <1>3, <1>4

LEMMA NestedFacts ==
  ASSUME call \in Calls, Nested
  PROVE  /\ ~ Wrapped /\ HasStyle /\ ~ HasHeaders /\ FixedRows = <<>> /\ Columns = 2
         /\ \A e : Rendered(e).toks = ListTokens(RowsOf(e), e)
<1>1. /\ call.use.style = Inline /\ call.use.page = "dot" /\ call.use.row \in RowNames
      /\ call.use.of \notin OwnRows \union NoRows
  BY CallFacts DEF Nested, Fits, RowNames
<1>2. ~ Wrapped /\ HasStyle /\ ~ HasHeaders
  BY <1>1, StylesDiffer DEF Wrapped, HasStyle, HasHeaders
<1>3. Columns = 2
  BY <1>1, <1>2, ColumnsAre DEF Nested, OwnRows
<1>4. FixedRows = <<>>
  BY <1>1 DEF FixedRows, OwnRows, NoRows
<1>5. ASSUME NEW e PROVE Rendered(e).toks = ListTokens(RowsOf(e), e)
  <2>1. Rendered(e) = LoadclasslistEntry(e)
    BY <1>1 DEF Rendered, Nested, OwnRows
  <2>2. RowsOf(e) = call.waiting[e]
    BY DEF RowsOf, Nested
  <2>3. LoadclasslistEntry(e).toks =
          <<Open(2, {})>> \o [i \in 1 .. call.waiting[e] |-> LoadclassElement(e)] \o <<Closing>>
    BY DEF LoadclasslistEntry
  <2>4. PICK n : n = call.waiting[e]
    OBVIOUS
  <2>5. [i \in 1 .. n |-> LoadclassElement(e)] = [i \in 1 .. n |-> Row(Pair, {}, e)]
    BY DEF LoadclassElement
  <2> QED BY <2>1, <2>2, <2>3, <2>4, <2>5 DEF ListTokens
<1> QED BY <1>2, <1>3, <1>4, <1>5

LEMMA ElementRowFits ==
  ASSUME call \in Calls, ~ Nested, NEW e \in DOMAIN call.elements
  PROVE  \E r : /\ Rendered(e).toks = <<r>> /\ r.tag = "row"
                /\ HasStyle => FitsIn(r, Columns)
<1> DEFINE row == call.use.row
           of == call.use.of
<1>1. /\ of \notin NoRows
      /\ row \in RowNames \/ (row = "none" /\ of \in OwnRows)
      /\ row \in RowNames => of \notin OwnRows
      /\ row # "loadclasslist_entry"
  BY CallFacts DEF Fits, Nested
<1>2. ASSUME NEW cells, NEW marks, NEW text, Rendered(e) = Text(cells, marks, e, text),
             HasStyle => FitsIn(Row(cells, marks, e), Columns)
      PROVE  \E r : /\ Rendered(e).toks = <<r>> /\ r.tag = "row"
                    /\ HasStyle => FitsIn(r, Columns)
  <2>1. Rendered(e).toks = <<Row(cells, marks, e)>>
    BY <1>2 DEF Text
  <2>2. Row(cells, marks, e).tag = "row"
    BY DEF Row
  <2> QED BY <1>2, <2>1, <2>2
<1> USE Widths
<1>3. CASE row \in {"super_entry", "loadcategory_entry", "protocol_entry"}
  <2>1. Rendered(e) = NameEntry(e)
    BY <1>1, <1>3 DEF Rendered, OwnRows
  <2>2. HasStyle => Columns = 2
    BY <1>1, <1>3, ColumnsAre DEF OwnRows, RowNames
  <2> QED BY <1>2, <2>1, <2>2 DEF NameEntry, FitsIn
<1>4. CASE row = "class_entry"
  <2>1. Rendered(e) = ClassEntry(e)
    BY <1>1, <1>4 DEF Rendered, OwnRows
  <2>2. HasStyle => Columns = 2
    BY <1>1, <1>4, ColumnsAre DEF OwnRows, RowNames
  <2> QED BY <1>2, <2>1, <2>2 DEF ClassEntry, FitsIn
<1>5. CASE row = "id_element"
  <2>1. Rendered(e) = IdElement(e)
    BY <1>1, <1>5 DEF Rendered, OwnRows
  <2>2. HasStyle => Columns = 2
    BY <1>1, <1>5, ColumnsAre DEF OwnRows, RowNames
  <2> QED BY <1>2, <2>1, <2>2 DEF IdElement, FitsIn
<1>6. CASE row = "descriptor_entry"
  <2>1. Rendered(e) = DescriptorEntry(e)
    BY <1>1, <1>6 DEF Rendered, OwnRows
  <2>2. HasStyle => Columns = 4
    BY <1>1, <1>6, ColumnsAre DEF OwnRows, RowNames
  <2>3. HasStyle => FitsIn(Row(IF Terse THEN <<1>> ELSE <<1, 1, 1, 1>>, {}, e), Columns)
    BY <2>2 DEF FitsIn
  <2> QED BY <1>2, <2>1, <2>3 DEF DescriptorEntry
<1>7. CASE row = "staticstring_element"
  <2>1. Rendered(e) = StaticstringElement(e)
    BY <1>1, <1>7 DEF Rendered, OwnRows
  <2>2. HasStyle => Columns = 2
    BY <1>1, <1>7, ColumnsAre DEF OwnRows, RowNames
  <2> QED BY <1>2, <2>1, <2>2 DEF StaticstringElement, FitsIn
<1>8. CASE row = "fastclass_element"
  <2>1. Rendered(e) = FastclassElement(e)
    BY <1>1, <1>8 DEF Rendered, OwnRows
  <2>2. HasStyle => Columns = 2
    BY <1>1, <1>8, ColumnsAre DEF OwnRows, RowNames
  <2> QED BY <1>2, <2>1, <2>2 DEF FastclassElement, FitsIn
<1>9. CASE row = "none" /\ of = "ivarlist_hor"
  <2>1. Rendered(e) = IvarRow(e)
    BY <1>9 DEF Rendered
  <2>2. HasStyle => Columns = 4
    BY <1>9, ColumnsAre
  <2>3. HasStyle => FitsIn(Row(IF Terse THEN <<1>> ELSE <<1, 1, 1, 1>>, {}, e), Columns)
    BY <2>2 DEF FitsIn
  <2> QED BY <1>2, <2>1, <2>3 DEF IvarRow
<1>10. CASE row = "none" /\ of = "propertylist"
  <2>1. Rendered(e) = PropertyRow(e)
    BY <1>10 DEF Rendered
  <2>2. HasStyle => Columns = 2
    BY <1>10, ColumnsAre
  <2>3. HasStyle => FitsIn(Row(IF Terse THEN <<1>> ELSE Pair, {}, e), Columns)
    BY <2>2 DEF FitsIn
  <2> QED BY <1>2, <2>1, <2>3 DEF PropertyRow
<1>11. CASE row = "none" /\ of = "methodlist"
  <2>1. Rendered(e) = MethodRow(e)
    BY <1>11 DEF Rendered
  <2>2. HasStyle => Columns = 2
    BY <1>11, ColumnsAre
  <2>3. HasStyle => FitsIn(Row(IF "FIELDS" \in call.flags THEN Pair ELSE <<2>>, {}, e), Columns)
    BY <2>2 DEF FitsIn
  <2> QED BY <1>2, <2>1, <2>3 DEF MethodRow
<1>12. CASE row = "none" /\ of = "methodlist_hor"
  <2>1. Rendered(e) = MethodHorRow(e)
    BY <1>12 DEF Rendered
  <2>2. HasStyle => Columns = 5
    BY <1>12, ColumnsAre
  <2>3. HasStyle => FitsIn(Row(IF Terse THEN <<5>> ELSE <<1, 1, 1, 1, 1>>, {}, e), Columns)
    BY <2>2 DEF FitsIn
  <2> QED BY <1>2, <2>1, <2>3 DEF MethodHorRow
<1>13. CASE row = "none" /\ of = "cache"
  <2>1. Rendered(e) = CacheRow(e)
    BY <1>13 DEF Rendered
  <2>2. HasStyle => Columns = 5
    BY <1>13, ColumnsAre
  <2> QED BY <1>2, <2>1, <2>2 DEF CacheRow, FitsIn
<1> QED BY <1>1, <1>3, <1>4, <1>5, <1>6, <1>7, <1>8, <1>9, <1>10, <1>11, <1>12, <1>13
        DEF RowNames, OwnRows

LEMMA FixedRowsFit ==
  ASSUME call \in Calls, NEW i \in DOMAIN FixedRows
  PROVE  FixedRows[i].tag = "row" /\ (HasStyle => FitsIn(FixedRows[i], Columns))
<1>1. Fits(call.use) /\ (call.use.of \in NoRows => call.elements = <<>>)
  BY CallFacts
<1>2. \A cells, marks : Row(cells, marks, 0).tag = "row" /\ Row(cells, marks, 0).of = 0
  BY DEF Row
<1> USE Widths
<1>3. PICK mark : mark = HeadMark
  OBVIOUS
<1>4. CASE call.use.of \in {"universe", "staticstring", "class", "methodlist"}
  <2>1. HasStyle => Columns = 2
    BY <1>1, <1>4, ColumnsAre DEF Fits, NoRows, OwnRows, RowNames
  <2>2. \E marks : FixedRows[i] = Row(Pair, marks, 0)
    <3>1. CASE call.use.of = "universe"
      BY <3>1 DEF FixedRows, UniverseRows
    <3>2. CASE call.use.of = "staticstring"
      <4>1. FixedRows = <<Row(Pair, mark, 0), Row(Pair, mark, 0)>>
        BY <1>3, <3>2 DEF FixedRows, StaticstringRows
      <4>2. i = 1 \/ i = 2
        BY <4>1
      <4> QED BY <4>1, <4>2
    <3>3. CASE call.use.of = "class"
      <4>1. FixedRows = ClassRows
        BY <3>3 DEF FixedRows
      <4> QED BY <4>1 DEF ClassRows
    <3>4. CASE call.use.of = "methodlist"
      <4>1. FixedRows = CategoryRow
        BY <3>4 DEF FixedRows
      <4>2. FixedRows = <<Row(Pair, {}, 0)>> /\ i = 1
        BY <4>1 DEF CategoryRow
      <4> QED BY <4>2
    <3> QED BY <1>4, <3>1, <3>2, <3>3, <3>4
  <2> QED BY <1>2, <2>1, <2>2 DEF FitsIn
<1>5. CASE call.use.of = "cache"
  <2>1. HasStyle => Columns = 5
    BY <1>5, ColumnsAre
  <2>2. FixedRows[i] = Row(<<1, 5>>, {}, 0)
    BY <1>5 DEF FixedRows, CacheHeadRows
  <2> QED BY <1>2, <1>5, <2>1, <2>2 DEF FitsIn
<1>6. CASE call.use.of = "methodlist_hor"
  <2>1. HasStyle => Columns = 5
    BY <1>6, ColumnsAre
  <2>2. FixedRows = MethodHorHeadRow
    BY <1>6 DEF FixedRows
  <2>3. CASE Terse
    <3>1. FixedRows[i] = Row(<<5>>, mark, 0) \/ FixedRows[i] = Row(<<1>>, mark, 0)
      BY <1>3, <2>2, <2>3 DEF MethodHorHeadRow
    <3> QED BY <1>2, <2>1, <2>3, <3>1 DEF FitsIn
  <2>4. CASE ~ Terse
    <3>1. FixedRows[i] = Row(<<1, 1, 1, 1, 1>>, mark, 0)
      BY <1>3, <2>2, <2>4 DEF MethodHorHeadRow
    <3> QED BY <1>2, <2>1, <3>1 DEF FitsIn
  <2> QED BY <2>3, <2>4
<1>7. CASE call.use.of \notin {"universe", "staticstring", "class", "methodlist", "cache", "methodlist_hor"}
  BY <1>7 DEF FixedRows
<1> QED BY <1>4, <1>5, <1>6, <1>7

LEMMA HeaderRowFits ==
  ASSUME call \in Calls, HasStyle, HasHeaders, NEW marks
  PROVE  Columns = 4 /\ FitsIn(Row([i \in 1 .. 4 |-> 1], marks, 0), Columns)
<1>1. Columns = 4
  <2>1. call.use.style = Headed
    BY CallFacts, StylesDiffer DEF HasHeaders, HasStyle, Fits
  <2> QED BY <2>1, CallFacts, ColumnsAre DEF Fits, RowNames, OwnRows
<1> QED BY <1>1, Widths DEF FitsIn

-------------------------------------------------------------------------------
(***************************************************************************)
(* The depth of the tags in a sequence of tokens.                          *)
(***************************************************************************)
TaggedIn(o, tag, i, j) == {t \in i .. j : o[t].tag = tag}
DepthIn(o, i, j) == Cardinality(TaggedIn(o, "table", i, j)) - Cardinality(TaggedIn(o, "end", i, j))

LEMMA TaggedFinite ==
  ASSUME NEW o, NEW tag, NEW i \in Int, NEW j \in Int
  PROVE  /\ IsFiniteSet(TaggedIn(o, tag, i, j))
         /\ Cardinality(TaggedIn(o, tag, i, j)) \in Nat
<1>1. IsFiniteSet(i .. j)
  BY FS_Interval
<1>2. TaggedIn(o, tag, i, j) \subseteq i .. j
  BY DEF TaggedIn
<1> QED BY <1>1, <1>2, FS_Subset, FS_CardinalityType

LEMMA DepthType ==
  ASSUME NEW o, NEW i \in Int, NEW j \in Int
  PROVE  DepthIn(o, i, j) \in Int
BY TaggedFinite DEF DepthIn

LEMMA DepthEmpty ==
  ASSUME NEW o, NEW i \in Int, NEW j \in Int, j < i
  PROVE  DepthIn(o, i, j) = 0
<1>1. \A tag : TaggedIn(o, tag, i, j) = {}
  BY DEF TaggedIn
<1> QED BY <1>1, FS_EmptySet DEF DepthIn

\* What is tagged in a range in two parts.
LEMMA TaggedSplit ==
  ASSUME NEW o, NEW tag, NEW i \in Int, NEW t \in Int, NEW j \in Int, i <= t, t <= j + 1
  PROVE  Cardinality(TaggedIn(o, tag, i, j))
           = Cardinality(TaggedIn(o, tag, i, t - 1)) + Cardinality(TaggedIn(o, tag, t, j))
<1>1. PICK A, B, C : A = TaggedIn(o, tag, i, t - 1) /\ B = TaggedIn(o, tag, t, j) /\ C = TaggedIn(o, tag, i, j)
  OBVIOUS
<1>2. IsFiniteSet(A) /\ IsFiniteSet(B)
  BY <1>1, TaggedFinite
<1>3. C = A \union B /\ A \cap B = {}
  <2>1. \A x : x \in i .. j <=> x \in i .. t - 1 \/ x \in t .. j
    OBVIOUS
  <2>2. \A x : ~ (x \in i .. t - 1 /\ x \in t .. j)
    OBVIOUS
  <2> QED BY <1>1, <2>1, <2>2 DEF TaggedIn
<1>4. Cardinality(C) = Cardinality(A) + Cardinality(B) - Cardinality(A \cap B) /\ Cardinality(A \cap B) = 0
  BY <1>2, <1>3, FS_Union, FS_EmptySet
<1>5. Cardinality(A) \in Nat /\ Cardinality(B) \in Nat
  BY <1>2, FS_CardinalityType
<1> QED BY <1>1, <1>4, <1>5

LEMMA DepthSplit ==
  ASSUME NEW o, NEW i \in Int, NEW t \in Int, NEW j \in Int, i <= t, t <= j + 1
  PROVE  DepthIn(o, i, j) = DepthIn(o, i, t - 1) + DepthIn(o, t, j)
<1>1. PICK a, b, c, d, e, f :
        /\ a = Cardinality(TaggedIn(o, "table", i, j)) /\ b = Cardinality(TaggedIn(o, "end", i, j))
        /\ c = Cardinality(TaggedIn(o, "table", i, t - 1)) /\ d = Cardinality(TaggedIn(o, "end", i, t - 1))
        /\ e = Cardinality(TaggedIn(o, "table", t, j)) /\ f = Cardinality(TaggedIn(o, "end", t, j))
  OBVIOUS
<1>2. a \in Nat /\ b \in Nat /\ c \in Nat /\ d \in Nat /\ e \in Nat /\ f \in Nat
  BY <1>1, TaggedFinite
<1>3. a = c + e /\ b = d + f
  BY <1>1, TaggedSplit
<1>4. DepthIn(o, i, j) = a - b /\ DepthIn(o, i, t - 1) = c - d /\ DepthIn(o, t, j) = e - f
  BY <1>1 DEF DepthIn
<1> QED BY <1>2, <1>3, <1>4

\* One token more, by its tag.
LEMMA DepthNext ==
  ASSUME NEW o, NEW j \in Nat
  PROVE  LET before == DepthIn(o, 1, j)
             after  == DepthIn(o, 1, j + 1)
         IN  /\ before \in Int
             /\ o[j + 1].tag = "table" => after = before + 1
             /\ o[j + 1].tag = "end"   => after = before - 1
             /\ o[j + 1].tag = "row"   => after = before
<1>1. DepthIn(o, 1, j + 1) = DepthIn(o, 1, j) + DepthIn(o, j + 1, j + 1)
  <2>1. (j + 1) - 1 = j /\ 1 <= j + 1 /\ j + 1 <= (j + 1) + 1 /\ j + 1 \in Int
    OBVIOUS
  <2>2. DepthIn(o, 1, j + 1) = DepthIn(o, 1, (j + 1) - 1) + DepthIn(o, j + 1, j + 1)
    BY <2>1, DepthSplit
  <2> QED BY <2>1, <2>2
<1>2. \A tag : TaggedIn(o, tag, j + 1, j + 1) = IF o[j + 1].tag = tag THEN {j + 1} ELSE {}
  <2>1. j + 1 .. j + 1 = {j + 1}
    OBVIOUS
  <2> QED BY <2>1 DEF TaggedIn
<1>3. Cardinality({j + 1}) = 1 /\ Cardinality({}) = 0
  BY FS_Singleton, FS_EmptySet
<1>4. DepthIn(o, 1, j) \in Int
  BY DepthType
<1>5. CASE o[j + 1].tag = "table"
  <2>1. TaggedIn(o, "table", j + 1, j + 1) = {j + 1} /\ TaggedIn(o, "end", j + 1, j + 1) = {}
    BY <1>2, <1>5
  <2>2. DepthIn(o, j + 1, j + 1) = 1
    BY <1>3, <2>1 DEF DepthIn
  <2> QED BY <1>1, <1>4, <1>5, <2>2
<1>6. CASE o[j + 1].tag = "end"
  <2>1. TaggedIn(o, "table", j + 1, j + 1) = {} /\ TaggedIn(o, "end", j + 1, j + 1) = {j + 1}
    BY <1>2, <1>6
  <2>2. /\ Cardinality(TaggedIn(o, "table", j + 1, j + 1)) = 0
        /\ Cardinality(TaggedIn(o, "end", j + 1, j + 1)) = 1
    BY <1>3, <2>1
  <2>3. PICK a, b : /\ a = Cardinality(TaggedIn(o, "table", j + 1, j + 1)) /\ a = 0
                    /\ b = Cardinality(TaggedIn(o, "end", j + 1, j + 1)) /\ b = 1
    BY <2>2
  <2>4. DepthIn(o, j + 1, j + 1) = a - b
    BY <2>3 DEF DepthIn
  <2> QED BY <1>1, <1>4, <1>6, <2>3, <2>4
<1>7. CASE o[j + 1].tag = "row"
  <2>1. TaggedIn(o, "table", j + 1, j + 1) = {} /\ TaggedIn(o, "end", j + 1, j + 1) = {}
    BY <1>2, <1>7
  <2>2. PICK a : a = Cardinality({}) /\ a = 0
    BY <1>3
  <2>3. DepthIn(o, j + 1, j + 1) = a - a
    BY <2>1, <2>2 DEF DepthIn
  <2> QED BY <1>1, <1>4, <1>7, <2>2, <2>3
<1> QED BY <1>4, <1>5, <1>6, <1>7

LEMMA DepthSame ==
  ASSUME NEW o, NEW p, NEW j \in Int, \A m \in 1 .. j : p[m] = o[m]
  PROVE  DepthIn(p, 1, j) = DepthIn(o, 1, j)
<1>1. \A tag : TaggedIn(p, tag, 1, j) = TaggedIn(o, tag, 1, j)
  BY DEF TaggedIn
<1> QED BY <1>1 DEF DepthIn

LEMMA DepthOfRows ==
  ASSUME NEW o, NEW n \in Nat, NEW j \in Int, n <= j, \A m \in n + 1 .. j : o[m].tag = "row"
  PROVE  DepthIn(o, 1, j) = DepthIn(o, 1, n)
<1>1. ASSUME NEW tag \in {"table", "end"} PROVE TaggedIn(o, tag, 1, j) = TaggedIn(o, tag, 1, n)
  <2>1. \A m \in 1 .. j : m \in 1 .. n \/ m \in n + 1 .. j
    OBVIOUS
  <2>2. \A m \in 1 .. n : m \in 1 .. j
    OBVIOUS
  <2> QED BY <2>1, <2>2 DEF TaggedIn
<1> QED BY <1>1 DEF DepthIn

-------------------------------------------------------------------------------
(***************************************************************************)
(* The shape of the tables.  The depth after each token is part of the     *)
(* invariant, so a step has to look at its own tokens only.                *)
(***************************************************************************)
Outer == IF Wrapped THEN 1 ELSE 0
DepthNow == CASE at = "header" -> Outer
              [] at = "end"    -> 0
              [] OTHER         -> Outer + 1

\* A row is in the table that the header opened, or in the one around it alone.
RowShape(o, i) == /\ DepthIn(o, 1, i) = IF Nested THEN 2 ELSE Outer + 1
                  /\ FitsIn(o[i], Columns)

\* The page's own table, that of the header, or one around a row alone.
TableShape(o, t) == \/ t = 1 /\ Wrapped
                    \/ o[t].columns = Columns /\ (t = Outer + 1 \/ Nested)

TokenShape(o, i) == /\ DepthIn(o, 1, i) >= 0
                    /\ o[i].tag = "row" => RowShape(o, i)
                    /\ o[i].tag = "table" => TableShape(o, i)

Styled == DepthIn(out, 1, Len(out)) = DepthNow /\ \A i \in DOMAIN out : TokenShape(out, i)
Bare == /\ \A i \in DOMAIN out : out[i].tag # "table"
        /\ (\E i \in DOMAIN out : out[i].tag = "end") <=> (at = "end" /\ call.use.of = "propertylist")

Shape == /\ at = "header" => out = WrapperStart
         /\ IF HasStyle THEN Styled ELSE Bare

LEMMA SameTable ==
  ASSUME call' = call
  PROVE  /\ (HasStyle <=> HasStyle') /\ (Wrapped <=> Wrapped') /\ (Nested <=> Nested')
         /\ Outer' = Outer /\ Columns' = Columns
BY DEF HasStyle, Wrapped, Nested, Outer, Columns, Colspan

LEMMA StyledNext ==
  ASSUME call' = call, NEW p, p = out', DepthIn(p, 1, Len(p)) = DepthNow',
         \A i \in DOMAIN p : TokenShape(p, i)
  PROVE  Styled'
<1>1. DepthIn(out, 1, Len(out))' = DepthNow'
  OBVIOUS
<1>2. \A i \in DOMAIN p : TokenShape(out, i)'
  BY SameTable DEF TokenShape, RowShape, TableShape, FitsIn, Terse
<1> QED BY <1>1, <1>2 DEF Styled

\* What was put out keeps its shape when more follows.
LEMMA ShapeKept ==
  ASSUME NEW M, NEW o \in Seq(M), NEW toks \in Seq(M), NEW i \in DOMAIN o, TokenShape(o, i)
  PROVE  TokenShape(o \o toks, i)
<1>1. PICK p : p = o \o toks
  OBVIOUS
<1>2. /\ Len(o) \in Nat /\ DOMAIN o = 1 .. Len(o) /\ DOMAIN o \subseteq DOMAIN p
      /\ \A m \in 1 .. Len(o) : p[m] = o[m]
  BY <1>1
<1>3. i \in 1 .. Len(o) /\ p[i] = o[i] /\ \A m \in 1 .. i : p[m] = o[m]
  BY <1>2
<1>4. i \in 1 .. Len(o) /\ p[i] = o[i] /\ DepthIn(p, 1, i) = DepthIn(o, 1, i)
  BY <1>3, DepthSame
<1>5. o[i].tag = "row" => RowShape(p, i)
  BY <1>4 DEF TokenShape, RowShape
<1>6. o[i].tag = "table" => TableShape(p, i)
  BY <1>4 DEF TokenShape, TableShape
<1>7. DepthIn(p, 1, i) >= 0
  BY <1>4 DEF TokenShape
<1> QED BY <1>1, <1>4, <1>5, <1>6, <1>7 DEF TokenShape

\* Rows of the table, or none: the shape stays, and nothing is opened or closed.
LEMMA RowsPut ==
  ASSUME Kinds, Shape, call' = call, at \notin {"header", "end"}, at' \notin {"header", "end"},
         NEW toks, toks \in Seq(Token(Allowed)), out' = out \o toks,
         \A m \in DOMAIN toks : toks[m].tag = "row" /\ (HasStyle => FitsIn(toks[m], Columns)),
         Nested => toks = <<>>
  PROVE  Shape'
<1>1. PICK M, o, p, n : M = Token(Allowed) /\ o = out /\ p = out' /\ n = Len(out)
  OBVIOUS
<1>2. o \in Seq(M) /\ toks \in Seq(M) /\ p = o \o toks /\ n = Len(o)
  BY <1>1 DEF Kinds
<1>3. /\ n \in Nat /\ Len(toks) \in Nat /\ Len(p) = n + Len(toks)
      /\ DOMAIN o = 1 .. n /\ DOMAIN p = 1 .. n + Len(toks)
      /\ \A m \in 1 .. n : p[m] = o[m]
      /\ \A m \in 1 .. Len(toks) : p[n + m] = toks[m]
      /\ DepthIn(p, 1, n) = DepthIn(o, 1, n) /\ DepthIn(o, 1, n) \in Int
      /\ DOMAIN toks = 1 .. Len(toks)
  <2>1. /\ n \in Nat /\ Len(toks) \in Nat /\ Len(p) = n + Len(toks)
        /\ DOMAIN o = 1 .. n /\ DOMAIN p = 1 .. n + Len(toks)
        /\ \A m \in 1 .. n : p[m] = o[m]
        /\ \A m \in 1 .. Len(toks) : p[n + m] = toks[m]
        /\ DOMAIN toks = 1 .. Len(toks)
    BY <1>2
  <2>2. n \in Int /\ \A m \in 1 .. n : p[m] = o[m]
    BY <2>1
  <2>3. DepthIn(p, 1, n) = DepthIn(o, 1, n)
    BY <2>2, DepthSame
  <2>4. DepthIn(o, 1, n) \in Int
    BY <2>2, DepthType
  <2> QED BY <2>1, <2>3, <2>4
<1>4. ASSUME NEW i \in DOMAIN p, i \notin DOMAIN o
      PROVE  \E m \in DOMAIN toks : i = n + m /\ p[i] = toks[m]
  <2>1. i - n \in 1 .. Len(toks) /\ i = n + (i - n)
    BY <1>3, <1>4
  <2> QED BY <1>3, <2>1
<1>5. \A i \in DOMAIN p \ DOMAIN o : p[i].tag = "row"
  BY <1>4
<1>6. \A j \in n .. Len(p) : DepthIn(p, 1, j) = DepthIn(o, 1, n)
  <2> SUFFICES ASSUME NEW j \in n .. Len(p) PROVE DepthIn(p, 1, j) = DepthIn(o, 1, n)
    OBVIOUS
  <2>1. \A m \in n + 1 .. j : m \in DOMAIN p /\ m \notin DOMAIN o
    BY <1>3
  <2>2. \A m \in n + 1 .. j : p[m].tag = "row"
    BY <1>5, <2>1
  <2>3. n \in Nat /\ j \in Int /\ n <= j
    BY <1>3
  <2>4. DepthIn(p, 1, j) = DepthIn(p, 1, n)
    BY <2>2, <2>3, DepthOfRows
  <2> QED BY <1>3, <2>4
<1>7. CASE HasStyle
  <2>1. DepthNow = Outer + 1 /\ DepthNow' = Outer + 1 /\ Outer \in Nat
    BY SameTable DEF DepthNow, Outer
  <2>2. DepthIn(o, 1, n) = Outer + 1 /\ \A i \in DOMAIN o : TokenShape(o, i)
    BY <1>1, <1>7, <2>1 DEF Shape, Styled
  <2>3. DepthIn(p, 1, Len(p)) = Outer + 1
    BY <1>3, <1>6, <2>2
  <2>4. ASSUME NEW i \in DOMAIN p PROVE TokenShape(p, i)
    <3>1. CASE i \in DOMAIN o
      BY <1>2, <2>2, <3>1, ShapeKept
    <3>2. CASE i \notin DOMAIN o
      <4>1. PICK m \in DOMAIN toks : i = n + m /\ p[i] = toks[m]
        BY <1>4, <3>2
      <4>2. ~ Nested /\ p[i].tag = "row" /\ FitsIn(p[i], Columns)
        BY <1>7, <4>1
      <4>3. DepthIn(p, 1, i) = Outer + 1
        <5>1. i \in n .. Len(p)
          BY <1>3, <3>2
        <5> QED BY <1>6, <2>2, <5>1
      <4> QED BY <2>1, <4>2, <4>3 DEF TokenShape, RowShape
    <3> QED BY <3>1, <3>2
  <2>5. Styled'
    <3>1. DepthIn(p, 1, Len(p)) = DepthNow'
      BY <2>1, <2>3
    <3> QED BY <1>1, <2>4, <3>1, StyledNext
  <2> QED BY <1>7, <2>5, SameTable DEF Shape
<1>8. CASE ~ HasStyle
  <2>1. \A i \in DOMAIN o : o[i].tag # "table" /\ o[i].tag # "end"
    BY <1>1, <1>8 DEF Shape, Bare
  <2>2. \A i \in DOMAIN p : p[i].tag # "table" /\ p[i].tag # "end"
    <3> SUFFICES ASSUME NEW i \in DOMAIN p PROVE p[i].tag # "table" /\ p[i].tag # "end"
      OBVIOUS
    <3>1. CASE i \in DOMAIN o
      <4>1. p[i] = o[i]
        BY <1>3, <3>1
      <4> QED BY <2>1, <3>1, <4>1
    <3>2. CASE i \notin DOMAIN o
      BY <1>5, <3>2
    <3> QED BY <3>1, <3>2
  <2>3. Bare'
    BY <1>1, <2>2 DEF Bare
  <2> QED BY <1>8, <2>3, SameTable DEF Shape
<1> QED BY <1>7, <1>8

\* A table around the rows of each list of classes to load.
LEMMA NestedPut ==
  ASSUME Kinds, Shape, Nested, call' = call, at \notin {"header", "end"}, at' \notin {"header", "end"},
         NEW e \in Nat, e # 0, NEW l \in Nat, out' = out \o ListTokens(l, e)
  PROVE  Shape'
<1>1. PICK M, o, p, n, toks, a, b, c :
        /\ M = Token(Allowed) /\ o = out /\ p = out' /\ n = Len(out) /\ toks = ListTokens(l, e)
        /\ a = Open(2, {}) /\ b = Row(Pair, {}, e) /\ c = Closing
  OBVIOUS
<1>2. /\ a.tag = "table" /\ a.columns = 2 /\ b.tag = "row" /\ Width(b) = 2 /\ c.tag = "end"
  BY <1>1, Widths DEF Open, Row, Closing
<1>3. /\ o \in Seq(M) /\ toks \in Seq(M) /\ p = o \o toks /\ Len(toks) = l + 2
      /\ toks[1] = a /\ toks[l + 2] = c /\ \A i \in 2 .. l + 1 : toks[i] = b
  <2>1. o \in Seq(M)
    BY <1>1 DEF Kinds
  <2> QED BY <1>1, <2>1, ListFacts
<1>4. /\ n \in Nat /\ Len(p) = n + l + 2 /\ DOMAIN o = 1 .. n /\ DOMAIN p = 1 .. n + l + 2
      /\ p[n + 1] = a /\ p[n + l + 2] = c /\ \A i \in n + 2 .. n + l + 1 : p[i] = b
      /\ DepthIn(p, 1, n) = DepthIn(o, 1, n)
  <2>1. /\ n \in Nat /\ n \in Int /\ Len(p) = n + Len(toks)
        /\ DOMAIN o = 1 .. n /\ DOMAIN p = 1 .. n + Len(toks)
        /\ \A m \in 1 .. n : p[m] = o[m]
        /\ \A m \in 1 .. Len(toks) : p[n + m] = toks[m]
    BY <1>1, <1>3
  <2>2. DepthIn(p, 1, n) = DepthIn(o, 1, n)
    BY <2>1, DepthSame
  <2>3. p[n + 1] = a /\ p[n + l + 2] = c
    <3>1. 1 \in 1 .. Len(toks) /\ l + 2 \in 1 .. Len(toks) /\ n + (l + 2) = n + l + 2
      BY <1>3, <2>1
    <3> QED BY <1>3, <2>1, <3>1
  <2>4. ASSUME NEW i \in n + 2 .. n + l + 1 PROVE p[i] = b
    <3>1. i - n \in 2 .. l + 1 /\ i - n \in 1 .. Len(toks) /\ n + (i - n) = i
      BY <1>3, <2>1
    <3> QED BY <1>3, <2>1, <3>1
  <2> QED BY <1>3, <2>1, <2>2, <2>3, <2>4
<1>5. /\ HasStyle /\ ~ Wrapped /\ Columns = 2
      /\ DepthNow = 1 /\ DepthNow' = 1
      /\ DepthIn(o, 1, n) = 1 /\ \A i \in DOMAIN o : TokenShape(o, i)
  <2>1. HasStyle /\ ~ Wrapped /\ Columns = 2
    BY NestedFacts DEF Kinds
  <2>2. DepthNow = 1 /\ DepthNow' = 1
    BY <2>1, SameTable DEF DepthNow, Outer
  <2>3. DepthIn(o, 1, n) = 1 /\ \A i \in DOMAIN o : TokenShape(o, i)
    BY <1>1, <2>1, <2>2 DEF Shape, Styled
  <2> QED BY <2>1, <2>2, <2>3
<1>6. DepthIn(p, 1, n + 1) = 2
  BY <1>2, <1>4, <1>5, DepthNext
<1>7. \A i \in n + 1 .. n + l + 1 : DepthIn(p, 1, i) = 2
  <2> SUFFICES ASSUME NEW i \in n + 1 .. n + l + 1 PROVE DepthIn(p, 1, i) = 2
    OBVIOUS
  <2>1. n + 1 \in Nat /\ i \in Int /\ n + 1 <= i
    BY <1>4
  <2>2. \A m \in (n + 1) + 1 .. i : m \in n + 2 .. n + l + 1
    BY <1>4
  <2>3. \A m \in (n + 1) + 1 .. i : p[m].tag = "row"
    BY <1>2, <1>4, <2>2
  <2>4. DepthIn(p, 1, i) = DepthIn(p, 1, n + 1)
    BY <2>1, <2>3, DepthOfRows
  <2> QED BY <1>6, <2>4
<1>8. DepthIn(p, 1, n + l + 2) = 1
  <2>1. n + l + 1 \in Nat /\ (n + l + 1) + 1 = n + l + 2 /\ p[n + l + 2].tag = "end"
    BY <1>2, <1>4
  <2>2. DepthIn(p, 1, (n + l + 1) + 1) = DepthIn(p, 1, n + l + 1) - 1
    BY <2>1, DepthNext
  <2>3. n + l + 1 \in n + 1 .. n + l + 1
    BY <1>4
  <2> QED BY <1>7, <2>1, <2>2, <2>3
<1>9. TokenShape(p, n + 1)
  BY <1>2, <1>4, <1>5, <1>6 DEF TokenShape, TableShape
<1>10. ASSUME NEW i \in n + 2 .. n + l + 1 PROVE TokenShape(p, i)
  <2>1. i \in n + 1 .. n + l + 1
    BY <1>4
  <2>2. p[i] = b /\ DepthIn(p, 1, i) = 2
    BY <1>4, <1>7, <2>1
  <2>3. RowShape(p, i)
    BY <1>2, <1>5, <2>2 DEF RowShape, FitsIn
  <2> QED BY <1>2, <2>2, <2>3 DEF TokenShape
<1>11. TokenShape(p, n + l + 2)
  BY <1>2, <1>4, <1>8 DEF TokenShape
<1>12. \A i \in DOMAIN p : TokenShape(p, i)
  <2>1. \A i \in DOMAIN o : TokenShape(p, i)
    BY <1>3, <1>5, ShapeKept
  <2>2. \A i \in DOMAIN p : i \in DOMAIN o \/ i = n + 1 \/ i \in n + 2 .. n + l + 1 \/ i = n + l + 2
    BY <1>4
  <2> QED BY <1>9, <1>10, <1>11, <2>1, <2>2
<1>13. Styled'
  <2>1. DepthIn(p, 1, Len(p)) = DepthNow'
    BY <1>4, <1>5, <1>8
  <2> QED BY <1>1, <1>12, <2>1, StyledNext
<1> QED BY <1>5, <1>13, SameTable DEF Shape

\* The header is the second table of a page that wraps it, or the first.
LEMMA HeaderShape == Inv /\ Shape /\ Header => Shape'
<1> SUFFICES ASSUME Inv, Shape, Header PROVE Shape'
  OBVIOUS
<1>1. /\ call \in Calls /\ at = "header" /\ call' = call /\ out = WrapperStart
      /\ at' = IF HasStyle THEN "columns" ELSE "fixed"
  BY DEF Inv, Kinds, Shape, Header, GoOn
<1>2. CASE HasStyle
  <2>1. PICK M, marks, p, t : /\ M = Token(Allowed) /\ marks = (IF HasCss THEN {"CLASS", "TH"} ELSE {})
                              /\ p = out' /\ t = Open(Columns, marks)
    OBVIOUS
  <2>2. p = out \o <<t>> /\ out \in Seq(M)
    BY <1>2, <2>1 DEF Header, Put, Inv, Kinds
  <2>3. t \in M /\ t.tag = "table" /\ t.columns = Columns
    <3>1. Columns \in Nat /\ marks \in SUBSET Allowed
      BY <1>1, <1>2, <2>1, ColumnFacts, NoMarks
    <3>2. t \in Token(Allowed) /\ t.tag = "table"
      BY <2>1, <3>1, TokensMade
    <3> QED BY <2>1, <3>2 DEF Open
  <2>4. /\ Len(out) = Outer /\ Outer \in Nat /\ DepthIn(out, 1, Outer) = Outer
        /\ \A i \in DOMAIN out : TokenShape(out, i)
    <3>1. Len(out) = Outer
      BY <1>1 DEF WrapperStart, Outer, Wrapped
    <3>2. DepthNow = Outer
      BY <1>1 DEF DepthNow
    <3> QED BY <1>2, <3>1, <3>2 DEF Shape, Styled, Outer
  <2>5. /\ Len(p) = Outer + 1 /\ DOMAIN p = 1 .. Outer + 1 /\ DOMAIN out = 1 .. Outer
        /\ p[Outer + 1] = t /\ DepthIn(p, 1, Outer) = Outer
    <3>1. <<t>> \in Seq(M) /\ Len(<<t>>) = 1 /\ <<t>>[1] = t
      BY <2>3
    <3>2. PICK o, toks : o = out /\ toks = <<t>>
      OBVIOUS
    <3>3. Len(toks) = 1 /\ toks[1] = t
      BY <3>1, <3>2
    <3>4. PICK n : n = Len(o) /\ o \in Seq(M) /\ toks \in Seq(M) /\ p = o \o toks
      BY <2>2, <3>1, <3>2
    <3>5. /\ n \in Nat /\ n \in Int /\ Len(p) = n + Len(toks)
          /\ DOMAIN o = 1 .. n /\ DOMAIN p = 1 .. n + Len(toks)
          /\ \A m \in 1 .. n : p[m] = o[m]
          /\ \A m \in 1 .. Len(toks) : p[n + m] = toks[m]
      BY <3>4
    <3>6. 1 \in 1 .. Len(toks) /\ Len(toks) = 1 /\ toks[1] = t
      BY <3>3
    <3>7. p[n + 1] = t /\ DepthIn(p, 1, n) = DepthIn(o, 1, n)
      BY <3>5, <3>6, DepthSame
    <3> QED BY <2>4, <3>2, <3>4, <3>5, <3>6, <3>7
  <2>6. DepthIn(p, 1, Outer + 1) = Outer + 1
    BY <2>3, <2>4, <2>5, DepthNext
  <2>7. TokenShape(p, Outer + 1)
    <3>1. TableShape(p, Outer + 1)
      BY <2>3, <2>5 DEF TableShape
    <3> QED BY <2>3, <2>4, <2>5, <2>6, <3>1 DEF TokenShape
  <2>8. \A i \in DOMAIN p : TokenShape(p, i)
    <3>1. \A i \in DOMAIN out : TokenShape(p, i)
      <4>1. <<t>> \in Seq(M)
        BY <2>3
      <4> QED BY <2>2, <2>4, <4>1, ShapeKept
    <3>2. \A i \in DOMAIN p : i \in DOMAIN out \/ i = Outer + 1
      BY <2>4, <2>5
    <3> QED BY <2>7, <3>1, <3>2
  <2>9. DepthNow' = Outer + 1
    BY <1>1, <1>2, SameTable DEF DepthNow
  <2>10. Styled'
    <3>1. DepthIn(p, 1, Len(p)) = DepthNow'
      BY <2>5, <2>6, <2>9
    <3> QED BY <1>1, <2>1, <2>8, <3>1, StyledNext
  <2> QED BY <1>1, <1>2, <2>10, SameTable DEF Shape
<1>3. CASE ~ HasStyle
  <2>1. out' = out /\ at' = "fixed"
    BY <1>1, <1>3 DEF Header
  <2>2. Bare'
    BY <1>1, <1>3, <2>1 DEF Shape, Bare
  <2> QED BY <1>1, <1>3, <2>1, <2>2, SameTable DEF Shape
<1> QED BY <1>2, <1>3

LEMMA ColumnHeaderShape == Inv /\ Shape /\ ColumnHeader => Shape'
<1> SUFFICES ASSUME Inv, Shape, ColumnHeader PROVE Shape'
  OBVIOUS
<1>1. /\ Kinds /\ call \in Calls /\ at = "columns" /\ call' = call /\ HasStyle
      /\ k \in Nat /\ Columns \in Nat /\ k <= Columns /\ at' \in {"columns", "fixed"}
  BY ColumnFacts DEF Inv, Kinds, Headings, ColumnHeader, GoOn
<1>2. CASE HasHeaders /\ k < Columns
  <2>1. out' = out \o <<>>
    <3>1. out' = out
      BY <1>2 DEF ColumnHeader
    <3>2. out \o <<>> = out
      BY <1>1 DEF Kinds
    <3> QED BY <3>1, <3>2
  <2>2. PICK toks : toks = <<>>
    OBVIOUS
  <2>3. out' = out \o toks /\ toks \in Seq(Token(Allowed)) /\ DOMAIN toks = {}
    BY <2>1, <2>2
  <2> QED BY <1>1, <2>2, <2>3, RowsPut
<1>3. CASE HasHeaders /\ ~ (k < Columns)
  <2>1. PICK marks, row : /\ marks = HeadMark \union {"CLASS"}
                          /\ row = Row([i \in 1 .. k |-> 1], marks, 0)
    OBVIOUS
  <2>2. out' = out \o <<row>>
    BY <1>3, <2>1 DEF ColumnHeader, Put
  <2>3. k = 4
    BY <1>1, <1>3, HeaderRowFits
  <2>4. FitsIn(row, Columns)
    BY <1>1, <1>3, <2>1, <2>3, HeaderRowFits
  <2>5. row \in Token(Allowed) /\ row.tag = "row"
    <3>1. marks \in SUBSET Allowed /\ [i \in 1 .. k |-> 1] \in Seq(Nat)
      BY <1>1, <1>3, <2>1, NoMarks, CellsMade
    <3> QED BY <2>1, <3>1, TokensMade
  <2>6. ~ Nested
    BY <1>1, <1>3, NestedFacts
  <2>7. PICK toks : toks = <<row>>
    OBVIOUS
  <2>8. toks \in Seq(Token(Allowed)) /\ \A m \in DOMAIN toks : toks[m] = row
    BY <2>5, <2>7
  <2> QED BY <1>1, <2>2, <2>4, <2>5, <2>6, <2>7, <2>8, RowsPut
<1>4. CASE ~ HasHeaders
  <2>1. out' = out \o <<>>
    BY <1>4 DEF ColumnHeader, Put
  <2>2. PICK toks : toks = <<>>
    OBVIOUS
  <2>3. out' = out \o toks /\ toks \in Seq(Token(Allowed)) /\ DOMAIN toks = {}
    BY <2>1, <2>2
  <2> QED BY <1>1, <2>2, <2>3, RowsPut
<1> QED BY <1>2, <1>3, <1>4

LEMMA FixedPartShape == Inv /\ Shape /\ FixedPart => Shape'
<1> SUFFICES ASSUME Inv, Shape, FixedPart PROVE Shape'
  OBVIOUS
<1>1. /\ Kinds /\ call \in Calls /\ at = "fixed" /\ call' = call
      /\ at' \in {"rows", "collect"} /\ out' = out \o FixedRows
  BY DEF Inv, Kinds, FixedPart, GoOn, Put
<1>2. FixedRows \in Seq(Token(Allowed)) /\ (Nested => FixedRows = <<>>)
  BY <1>1, FixedFacts, NestedFacts
<1>3. \A m \in DOMAIN FixedRows : FixedRows[m].tag = "row" /\ (HasStyle => FitsIn(FixedRows[m], Columns))
  BY <1>1, FixedRowsFit
<1> QED BY <1>1, <1>2, <1>3, RowsPut

\* A step that puts out the rows of an element.
LEMMA ElementShape ==
  ASSUME Kinds, Shape, call' = call, at \in {"rows", "emit"}, at' = at,
         NEW e \in 1 .. Count, out' = out \o RowOf[e].toks
  PROVE  Shape'
<1>1. /\ call \in Calls /\ RowOf[e] = Rendered(e) /\ e \in DOMAIN call.elements /\ e \in Nat
      /\ RowOf[e].toks \in Seq(Token(Allowed))
  BY RowFacts DEF Kinds
<1>2. CASE Nested
  <2>1. PICK l : l = RowsOf(e) /\ l \in Nat
    BY <1>1, RenderedFacts
  <2>2. out' = out \o ListTokens(l, e)
    BY <1>1, <1>2, <2>1, NestedFacts
  <2>3. e # 0
    OBVIOUS
  <2> QED BY <1>1, <1>2, <2>1, <2>2, <2>3, NestedPut
<1>3. CASE ~ Nested
  <2>1. PICK toks, r : /\ toks = RowOf[e].toks /\ toks = <<r>> /\ r.tag = "row"
                       /\ HasStyle => FitsIn(r, Columns)
    BY <1>1, <1>3, ElementRowFits
  <2>2. toks \in Seq(Token(Allowed)) /\ out' = out \o toks /\ \A m \in DOMAIN toks : toks[m] = r
    BY <1>1, <2>1
  <2> QED BY <1>3, <2>1, <2>2, RowsPut
<1> QED BY <1>2, <1>3

LEMMA DirectRowShape == Inv /\ Shape /\ DirectRow => Shape'
<1> SUFFICES ASSUME Inv, Shape, DirectRow PROVE Shape'
  OBVIOUS
<1>1. /\ Kinds /\ call \in Calls /\ at = "rows" /\ at' = at /\ call' = call /\ k \in Nat
      /\ out' = out \o Rendered(k + 1).toks /\ Count \in Nat /\ k < Count
  BY RowFacts DEF Inv, Kinds, DirectRow, Put, Left, Count
<1>2. k + 1 \in 1 .. Count
  BY <1>1
<1>3. RowOf[k + 1] = Rendered(k + 1)
  BY <1>1, <1>2, RowFacts
<1> QED BY <1>1, <1>2, <1>3, ElementShape

LEMMA EmitRowShape == Inv /\ Shape /\ EmitRow => Shape'
<1> SUFFICES ASSUME Inv, Shape, EmitRow PROVE Shape'
  OBVIOUS
<1>1. /\ Kinds /\ at = "emit" /\ at' = at /\ call' = call /\ k \in Nat
      /\ out' = out \o rows[k + 1].toks /\ k < Len(rows)
      /\ DOMAIN rows = 1 .. Len(rows) /\ Len(rows) \in Nat
      /\ \A a \in DOMAIN rows : rows[a].of \in 1 .. Count /\ rows[a] = RowOf[rows[a].of]
  BY DEF Inv, Kinds, Collected, EmitRow, Put
<1>2. PICK e : e = rows[k + 1].of
  OBVIOUS
<1>3. k + 1 \in DOMAIN rows
  BY <1>1
<1>4. e \in 1 .. Count /\ out' = out \o RowOf[e].toks
  BY <1>1, <1>2, <1>3
<1> QED BY <1>1, <1>4, ElementShape

\* The end tag closes what the header opened, the page's own what the page opened, and
\* without a style there is an end tag for the property list alone.
LEMMA CloseShape == Inv /\ Shape /\ Close => Shape'
<1> SUFFICES ASSUME Inv, Shape, Close PROVE Shape'
  OBVIOUS
<1>1. /\ Kinds /\ call \in Calls /\ at \in {"rows", "emit"} /\ at' = "end" /\ call' = call
      /\ out' = out \o ((IF Closes THEN <<Closing>> ELSE <<>>) \o WrapperEnd)
  BY DEF Inv, Kinds, Close, GoOn, Put
<1>2. Wrapped => HasStyle
  <2>1. Fits(call.use)
    BY <1>1, CallFacts
  <2>2. "wrapped" # "caller"
    OBVIOUS
  <2> QED BY <2>1, <2>2 DEF Wrapped, HasStyle, Fits
<1>3. PICK o, p, toks, n :
        /\ o = out /\ p = out' /\ n = Len(out)
        /\ toks = (IF Closes THEN <<Closing>> ELSE <<>>) \o WrapperEnd
  OBVIOUS
<1>4. \/ ~ Closes /\ ~ Wrapped /\ toks = <<>>
      \/ Closes /\ ~ Wrapped /\ toks = <<Closing>>
      \/ Closes /\ Wrapped /\ toks = <<Closing, Closing>>
  <2>1. CASE Wrapped
    <3>1. Closes
      BY <1>2, <2>1 DEF Closes
    <3>2. toks = <<Closing>> \o <<Closing>>
      BY <1>3, <2>1, <3>1 DEF WrapperEnd, Wrapped
    <3>3. PICK c : c = Closing
      OBVIOUS
    <3>4. PICK s : s = <<c>> \o <<c>>
      OBVIOUS
    <3>5. s \in Seq({c}) /\ Len(s) = 2 /\ s[1] = c /\ s[2] = c
      BY <3>4
    <3>6. s = <<c, c>>
      BY <3>5
    <3> QED BY <2>1, <3>1, <3>2, <3>3, <3>4, <3>6
  <2>2. CASE ~ Wrapped
    <3>1. WrapperEnd = <<>>
      BY <2>2 DEF WrapperEnd, Wrapped
    <3>2. PICK c, s : c = Closing /\ s = (IF Closes THEN <<c>> ELSE <<>>)
      OBVIOUS
    <3>3. s \o <<>> = s
      BY <3>2
    <3> QED BY <1>3, <2>2, <3>1, <3>2, <3>3
  <2> QED BY <2>1, <2>2
<1>5. PICK M : M = Token(Allowed)
  OBVIOUS
<1>6. o \in Seq(M) /\ toks \in Seq(M) /\ p = o \o toks /\ n = Len(o) /\ \A m \in DOMAIN toks : toks[m].tag = "end"
  <2>1. Closing \in M /\ Closing.tag = "end"
    BY <1>5, TokensMade
  <2>2. PICK c : c = Closing /\ c \in M /\ c.tag = "end"
    BY <2>1
  <2>3. toks = <<>> \/ toks = <<c>> \/ toks = <<c, c>>
    BY <1>4, <2>2
  <2>4. toks \in Seq(M) /\ \A m \in DOMAIN toks : toks[m].tag = "end"
    <3>1. CASE toks = <<>>
      BY <3>1
    <3>2. CASE toks = <<c>>
      BY <2>2, <3>2
    <3>3. CASE toks = <<c, c>>
      <4>1. toks \in Seq(M) /\ DOMAIN toks = 1 .. 2 /\ toks[1] = c /\ toks[2] = c
        BY <2>2, <3>3
      <4>2. \A m \in 1 .. 2 : m = 1 \/ m = 2
        OBVIOUS
      <4> QED BY <2>2, <4>1, <4>2
    <3> QED BY <2>3, <3>1, <3>2, <3>3
  <2> QED BY <1>1, <1>3, <1>5, <2>4 DEF Kinds
<1>7. /\ n \in Nat /\ Len(toks) \in Nat /\ Len(p) = n + Len(toks)
      /\ DOMAIN o = 1 .. n /\ DOMAIN p = 1 .. n + Len(toks)
      /\ \A m \in 1 .. n : p[m] = o[m]
      /\ \A m \in 1 .. Len(toks) : p[n + m] = toks[m]
      /\ DepthIn(p, 1, n) = DepthIn(o, 1, n)
  <2>1. /\ n \in Nat /\ n \in Int /\ Len(toks) \in Nat /\ Len(p) = n + Len(toks)
        /\ DOMAIN o = 1 .. n /\ DOMAIN p = 1 .. n + Len(toks)
        /\ \A m \in 1 .. n : p[m] = o[m]
        /\ \A m \in 1 .. Len(toks) : p[n + m] = toks[m]
    BY <1>6
  <2>2. DepthIn(p, 1, n) = DepthIn(o, 1, n)
    BY <2>1, DepthSame
  <2> QED BY <2>1, <2>2
<1>8. CASE HasStyle
  <2>1. /\ DepthIn(o, 1, n) = Outer + 1 /\ \A i \in DOMAIN o : TokenShape(o, i)
        /\ DepthNow' = 0
    <3>1. DepthNow = Outer + 1 /\ DepthNow' = 0
      BY <1>1 DEF DepthNow
    <3> QED BY <1>3, <1>8, <3>1 DEF Shape, Styled
  <2>2. \A i \in DOMAIN o : TokenShape(p, i)
    BY <1>6, <2>1, ShapeKept
  <2>3. CASE Wrapped
    <3>1. Len(toks) = 2 /\ p[n + 1].tag = "end" /\ p[n + 2].tag = "end" /\ Outer = 1
      <4>1. Len(toks) = 2 /\ DOMAIN toks = 1 .. 2
        BY <1>4, <2>3
      <4>2. p[n + 1] = toks[1] /\ p[n + 2] = toks[2]
        BY <1>7, <4>1
      <4> QED BY <1>6, <2>3, <4>1, <4>2 DEF Outer
    <3>2. DepthIn(p, 1, n + 1) = 1
      BY <1>7, <2>1, <3>1, DepthNext
    <3>3. DepthIn(p, 1, n + 2) = 0
      <4>1. n + 1 \in Nat /\ (n + 1) + 1 = n + 2 /\ p[(n + 1) + 1].tag = "end"
        BY <1>7, <3>1
      <4> QED BY <3>2, <4>1, DepthNext
    <3>4. TokenShape(p, n + 1) /\ TokenShape(p, n + 2)
      BY <3>1, <3>2, <3>3 DEF TokenShape
    <3>5. \A i \in DOMAIN p : i \in DOMAIN o \/ i = n + 1 \/ i = n + 2
      BY <1>7, <3>1
    <3>6. Styled'
      <4>1. DepthIn(p, 1, Len(p)) = DepthNow'
        BY <1>7, <2>1, <3>1, <3>3
      <4>2. \A i \in DOMAIN p : TokenShape(p, i)
        BY <2>2, <3>4, <3>5
      <4> QED BY <1>1, <1>3, <4>1, <4>2, StyledNext
    <3> QED BY <1>1, <1>8, <3>6, SameTable DEF Shape
  <2>4. CASE ~ Wrapped
    <3>1. Len(toks) = 1 /\ p[n + 1].tag = "end" /\ Outer = 0
      <4>1. Len(toks) = 1 /\ DOMAIN toks = 1 .. 1
        BY <1>4, <1>8, <2>4 DEF Closes
      <4>2. p[n + 1] = toks[1]
        BY <1>7, <4>1
      <4> QED BY <1>6, <2>4, <4>1, <4>2 DEF Outer
    <3>2. DepthIn(p, 1, n + 1) = 0
      BY <1>7, <2>1, <3>1, DepthNext
    <3>3. TokenShape(p, n + 1)
      BY <3>1, <3>2 DEF TokenShape
    <3>4. \A i \in DOMAIN p : i \in DOMAIN o \/ i = n + 1
      BY <1>7, <3>1
    <3>5. Styled'
      <4>1. DepthIn(p, 1, Len(p)) = DepthNow'
        BY <1>7, <2>1, <3>1, <3>2
      <4>2. \A i \in DOMAIN p : TokenShape(p, i)
        BY <2>2, <3>3, <3>4
      <4> QED BY <1>1, <1>3, <4>1, <4>2, StyledNext
    <3> QED BY <1>1, <1>8, <3>5, SameTable DEF Shape
  <2> QED BY <2>3, <2>4
<1>9. CASE ~ HasStyle
  <2>1. \A i \in DOMAIN o : o[i].tag # "table" /\ o[i].tag # "end"
    BY <1>1, <1>3, <1>9 DEF Shape, Bare
  <2>2. Len(toks) = IF call.use.of = "propertylist" THEN 1 ELSE 0
    BY <1>2, <1>4, <1>9 DEF Closes
  <2>3. \A i \in DOMAIN p : \/ i \in DOMAIN o /\ p[i] = o[i]
                            \/ call.use.of = "propertylist" /\ i = n + 1 /\ p[i].tag = "end"
    <3> SUFFICES ASSUME NEW i \in DOMAIN p, i \notin DOMAIN o
                 PROVE  call.use.of = "propertylist" /\ i = n + 1 /\ p[i].tag = "end"
      BY <1>7
    <3>1. i - n \in 1 .. Len(toks) /\ i = n + (i - n)
      BY <1>7
    <3>2. p[i] = toks[i - n] /\ i - n \in DOMAIN toks
      BY <1>6, <1>7, <3>1
    <3>3. p[i].tag = "end"
      BY <1>6, <3>2
    <3>4. Len(toks) # 0 /\ (Len(toks) = 1 => i - n = 1)
      <4>1. PICK l, m : l = Len(toks) /\ m = i - n
        OBVIOUS
      <4>2. l \in Nat /\ m \in 1 .. l
        BY <1>7, <3>1, <4>1
      <4> QED BY <4>1, <4>2
    <3>5. call.use.of = "propertylist" /\ i - n = 1
      BY <2>2, <3>4
    <3> QED BY <3>1, <3>3, <3>5
  <2>4. call.use.of = "propertylist" => n + 1 \in DOMAIN p /\ n + 1 \notin DOMAIN o
    BY <1>7, <2>2
  <2>5. /\ \A i \in DOMAIN p : p[i].tag # "table"
        /\ (\E i \in DOMAIN p : p[i].tag = "end") <=> call.use.of = "propertylist"
    BY <2>1, <2>3, <2>4
  <2>6. Bare'
    BY <1>1, <1>3, <2>5 DEF Bare
  <2> QED BY <1>1, <1>9, <2>6, SameTable DEF Shape
<1> QED BY <1>8, <1>9

LEMMA InitShape == Init => Shape
<1> SUFFICES ASSUME Init PROVE Shape
  OBVIOUS
<1>1. call \in Calls /\ at = "header" /\ out = WrapperStart
  BY DEF Init
<1>2. ~ HasStyle => ~ Wrapped
  BY <1>1, CallFacts DEF Wrapped, HasStyle, Fits
<1>3. CASE Wrapped
  <2>1. PICK p, t : p = out /\ t = Open(0, {"CLASS"})
    OBVIOUS
  <2>2. p = <<t>> /\ t.tag = "table"
    BY <1>1, <1>3, <2>1 DEF WrapperStart, Wrapped, Open
  <2>3. Len(p) = 1 /\ DOMAIN p = {1} /\ p[1].tag = "table"
    BY <2>2
  <2>4. DepthIn(p, 1, 0) = 0
    BY DepthEmpty
  <2>5. DepthIn(p, 1, 1) = 1
    <3>1. 0 \in Nat /\ 0 + 1 = 1
      OBVIOUS
    <3> QED BY <2>3, <2>4, <3>1, DepthNext
  <2>6. DepthNow = 1
    BY <1>1, <1>3 DEF DepthNow, Outer
  <2>7. TokenShape(p, 1)
    BY <1>3, <2>3, <2>5 DEF TokenShape, TableShape
  <2>8. Styled
    BY <2>1, <2>3, <2>5, <2>6, <2>7 DEF Styled
  <2> QED BY <1>1, <1>2, <1>3, <2>8 DEF Shape
<1>4. CASE ~ Wrapped
  <2>1. out = <<>>
    BY <1>1, <1>4 DEF WrapperStart, Wrapped
  <2>2. DepthIn(out, 1, Len(out)) = 0 /\ DOMAIN out = {}
    BY <2>1, DepthEmpty
  <2>3. DepthNow = 0
    BY <1>1, <1>4 DEF DepthNow, Outer
  <2>4. Styled
    BY <2>2, <2>3 DEF Styled
  <2>5. Bare
    BY <1>1, <2>2 DEF Bare
  <2> QED BY <1>1, <2>4, <2>5 DEF Shape
<1> QED BY <1>3, <1>4

\* Every step keeps the shape of the tables.
THEOREM ShapeInductive == Spec => [](Inv /\ Shape)
<1>1. Inv /\ Shape /\ [Next]_vars => Shape'
  <2> SUFFICES ASSUME Inv, Shape, [Next]_vars PROVE Shape'
    OBVIOUS
  <2>1. ASSUME call' = call, at' = at, out' = out PROVE Shape'
    <3>1. DepthNow' = DepthNow
      BY <2>1, SameTable DEF DepthNow
    <3>2. CASE HasStyle
      <4>1. PICK p : p = out'
        OBVIOUS
      <4>2. DepthIn(p, 1, Len(p)) = DepthNow' /\ \A i \in DOMAIN p : TokenShape(p, i)
        BY <2>1, <3>1, <3>2, <4>1 DEF Shape, Styled
      <4>3. Styled'
        BY <2>1, <4>1, <4>2, StyledNext
      <4> QED BY <2>1, <3>2, <4>3, SameTable DEF Shape, WrapperStart
    <3>3. CASE ~ HasStyle
      BY <2>1, <3>3, SameTable DEF Shape, Bare, WrapperStart
    <3> QED BY <3>2, <3>3
  <2>2. CASE CollectRow \/ SortRows
    <3>1. /\ call' = call /\ out' = out /\ at = "collect" /\ at' \notin {"header", "end"}
      BY <2>2 DEF CollectRow, SortRows, GoOn
    <3>2. PICK toks : toks = <<>>
      OBVIOUS
    <3>3. out' = out \o toks /\ toks \in Seq(Token(Allowed)) /\ DOMAIN toks = {}
      BY <3>1, <3>2 DEF Inv, Kinds
    <3> QED BY <3>1, <3>2, <3>3, RowsPut DEF Inv
  <2>3. CASE UNCHANGED vars
    BY <2>1, <2>3 DEF vars
  <2> QED BY <2>2, <2>3, HeaderShape, ColumnHeaderShape, FixedPartShape, DirectRowShape,
             EmitRowShape, CloseShape DEF Next
<1>2. Init => Shape
  BY InitShape
<1> QED BY <1>1, <1>2, TableInductive, PTL DEF Spec

\* The table that a row stands in, and that a table stands in.
LEMMA WhatIsAround ==
  ASSUME Inv, Shape, HasStyle, NEW i \in DOMAIN out, NEW t \in Around(i)
  PROVE  /\ t \in DOMAIN out /\ t \in Nat /\ i \in Nat /\ 1 <= t /\ t < i /\ out[t].tag = "table"
         /\ TableShape(out, t)
         /\ DepthIn(out, 1, i - 1) = DepthIn(out, 1, t - 1) + 1
<1>1. PICK o : o = out
  OBVIOUS
<1>2. t \in TaggedIn(o, "table", 1, i - 1) /\ DepthIn(o, t, i - 1) = 1
  BY <1>1 DEF Around, Tagged, Depth, TaggedIn, DepthIn
<1>3. DOMAIN o = 1 .. Len(o) /\ Len(o) \in Nat
  BY <1>1 DEF Inv, Kinds
<1>4. t \in 1 .. i - 1 /\ o[t].tag = "table" /\ i \in 1 .. Len(o)
  BY <1>1, <1>2, <1>3 DEF TaggedIn
<1>5. t \in DOMAIN o /\ t \in Nat /\ i \in Nat /\ 1 <= t /\ t < i
  BY <1>3, <1>4
<1>6. TableShape(o, t)
  BY <1>1, <1>4, <1>5 DEF Shape, Styled, TokenShape
<1>7. DepthIn(o, 1, i - 1) = DepthIn(o, 1, t - 1) + DepthIn(o, t, i - 1)
  <2>1. 1 <= t /\ t <= (i - 1) + 1 /\ i - 1 \in Int /\ t \in Int
    BY <1>5
  <2> QED BY <2>1, DepthSplit
<1> QED BY <1>1, <1>2, <1>4, <1>5, <1>6, <1>7

\* Each table is closed once, no row stands outside of a table, a table stands in another one's
\* rows only where the index page or the classes to load are, and the rows of a table are as
\* wide as its header says, but for those of a cache; whichever and however many elements.
THEOREM TablesWellFormed == Spec => []WellFormed
<1>1. ASSUME Inv, Shape PROVE WellFormed
  <2>0. call \in Calls /\ DOMAIN out = 1 .. Len(out) /\ Len(out) \in Nat
    BY <1>1 DEF Inv, Kinds
  <2>1. CASE HasStyle
    <3>1. /\ DepthIn(out, 1, Len(out)) = DepthNow
          /\ \A i \in DOMAIN out : TokenShape(out, i)
      BY <1>1, <2>1 DEF Shape, Styled
    <3>2. Outer \in Nat
      BY DEF Outer
    <3>3. TablesBalanced
      <4>1. \A i, j : Depth(i, j) = DepthIn(out, i, j)
        BY DEF Depth, Tagged, DepthIn, TaggedIn
      <4>2. ASSUME NEW i \in DOMAIN out
            PROVE  DepthIn(out, 1, i) >= (IF out[i].tag = "row" THEN 1 ELSE 0)
        BY <3>1, <3>2 DEF TokenShape, RowShape
      <4>3. at = "end" => DepthIn(out, 1, Len(out)) = 0
        BY <3>1 DEF DepthNow
      <4> QED BY <2>1, <4>1, <4>2, <4>3 DEF TablesBalanced
    <3>4. TablesInCells
      <4> SUFFICES ASSUME NEW i \in Tagged("table", 1, Len(out)), Around(i) # {}, ~ Wrapped, ~ Nested
                   PROVE  FALSE
        BY DEF TablesInCells, Wrapped, Nested
      <4>1. i \in DOMAIN out /\ out[i].tag = "table"
        BY <2>0 DEF Tagged
      <4>2. TableShape(out, i)
        BY <3>1, <4>1 DEF TokenShape
      <4>3. i = 1
        BY <4>2 DEF TableShape, Outer
      <4>4. PICK t : t \in Around(i)
        OBVIOUS
      <4>5. t \in Nat /\ 1 <= t /\ t < i
        BY <1>1, <2>1, <4>1, <4>4, WhatIsAround
      <4> QED BY <4>3, <4>5
    <3>5. ASSUME NEW i \in Tagged("row", 1, Len(out)), NEW t \in Around(i)
          PROVE  FitsIn(out[i], out[t].columns)
      <4>1. i \in DOMAIN out /\ out[i].tag = "row"
        BY <2>0 DEF Tagged
      <4>2. /\ t \in DOMAIN out /\ t \in Nat /\ i \in Nat /\ 1 <= t /\ t < i
            /\ TableShape(out, t)
            /\ DepthIn(out, 1, i - 1) = DepthIn(out, 1, t - 1) + 1
        BY <1>1, <2>1, <4>1, WhatIsAround
      <4>3. RowShape(out, i)
        BY <3>1, <4>1 DEF TokenShape
      <4>4. DepthIn(out, 1, i) = DepthIn(out, 1, i - 1)
        <5>1. i - 1 \in Nat /\ (i - 1) + 1 = i
          BY <4>2
        <5> QED BY <4>1, <5>1, DepthNext
      <4>5. ASSUME t = 1 PROVE DepthIn(out, 1, i) = 1
        <5>1. DepthIn(out, 1, t - 1) = 0
          BY <4>5, DepthEmpty
        <5> QED BY <4>2, <4>4, <5>1
      <4>6. ~ (t = 1 /\ Wrapped)
        BY <4>3, <4>5 DEF RowShape, Outer
      <4>7. out[t].columns = Columns
        BY <4>2, <4>6 DEF TableShape
      <4> QED BY <4>3, <4>7 DEF RowShape
    <3>6. RowsFit
      BY <3>5 DEF RowsFit, FitsIn
    <3> QED BY <3>3, <3>4, <3>6 DEF WellFormed
  <2>2. CASE ~ HasStyle
    <3>1. /\ \A i \in DOMAIN out : out[i].tag # "table"
          /\ (\E i \in DOMAIN out : out[i].tag = "end") <=> (at = "end" /\ call.use.of = "propertylist")
      BY <1>1, <2>2 DEF Shape, Bare
    <3>2. Tagged("table", 1, Len(out)) = {}
      BY <2>0, <3>1 DEF Tagged
    <3>3. Tagged("end", 1, Len(out)) # {} <=> \E i \in DOMAIN out : out[i].tag = "end"
      BY <2>0 DEF Tagged
    <3>4. TablesBalanced
      BY <2>2, <3>1, <3>2, <3>3 DEF TablesBalanced
    <3>5. \A i \in 1 .. Len(out) : Around(i) = {}
      BY <2>0, <3>1 DEF Around, Tagged
    <3>6. TablesInCells /\ RowsFit
      BY <3>2, <3>5 DEF TablesInCells, RowsFit, Tagged
    <3> QED BY <3>4, <3>6 DEF WellFormed
  <2> QED BY <2>1, <2>2
<1> QED BY <1>1, ShapeInductive, PTL
===============================================================================
