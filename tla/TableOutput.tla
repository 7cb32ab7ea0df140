---------------------------- MODULE TableOutput ----------------------------
(***************************************************************************)
(* The table of TableFilling is written in the format a request asks for.  *)
(* A scenario says which values may go in which column, where the visitor  *)
(* may be moved from where, how many cells are set at most, which calls    *)
(* are made beside, and which requests.                                    *)
(***************************************************************************)
EXTENDS TableReaders, TableFilling

CONSTANT Scenarios  \* set of records, one field for each input of Next

VARIABLE scenario  \* the scenario of this behaviour
vars == <<scenario, fillingVars>>

Init ==
  /\ scenario \in Scenarios
  /\ FillingInit(scenario.first[1], scenario.first[2])

\* create(name)->format(table, names, request, options).  Every formatter
\* asks for the columns, which builds the array, even of an empty table; a
\* style or a version that xml and wxml do not know stops them before that.
WriteOut(r, f, out) ==
  GiveOut([outcome |-> Outcome(out),
          out     |-> IF Outcome(out) = "text" THEN out ELSE <<>>,
          request |-> [r EXCEPT !.format = f]],
         f \in FactoryNames \cup {"image"} /\ ~(f \in {"xml", "wxml"} /\ out = <<Throw>>))

WriteBuilt(r, f, t) == WriteOut(r, f, Format(f, t, r.names, r.query, r.options))

WriteTable(r) ==
  WriteBuilt(r, IF r.format = "default" THEN DefaultFormat(table) ELSE r.format, BuildArray(table))

\* What the scenario leaves of a plugin's calls.  (A plugin has no reason to
\* move on in a table that takes no values any more.)
PluginCall ==
  \/ /\ visitor.row \in scenario.rows /\ Len(table.list) < scenario.sets
     /\ \E x \in scenario.values[visitor.col] : Visit(x)
  \/ /\ ~table.built
     /\ \E m \in scenario.moves[<<visitor.col, visitor.row>>] : MoveTo(m[1], m[2])
  \/ \E f \in scenario.lonlats : SetLonLat(f)
  \/ \E p \in scenario.pages : SetPaging(p)
  \/ \E names \in scenario.names : SetNames(names)
  \/ \E x \in scenario.titles : SetTitle(x)
  \/ \E x \in scenario.missings : SetMissingText(x)
  \/ \E f \in scenario.defaults : SetDefault(f)
  \/ \E m \in scenario.reads : ReadCell(m[1], m[2])
  \/ \E m \in scenario.reads : ReadCellOr(m[1], m[2], MissingValue)

Next == (PluginCall \/ \E r \in scenario.requests : WriteTable(r)) /\ UNCHANGED scenario

Spec == Init /\ [][Next]_vars

---------------------------------------------------------------------------
(* Properties.  q is the query of the request that was answered last.      *)

q == told.request.query
Formatted(formats) == told.request.format \in formats

(* Nested output *)

Names == IF Formatted({"serial"}) /\ Given(q.attributes, <<>>) # <<>>
         THEN told.request.names ELSE NamesOf(table, told.request.names)

\* The attributes, each once, and their columns.
Grouping == LET a == Given(q.attributes, <<>>)
            IN SelectSeq([k \in DOMAIN a |-> IF \E m \in 1 .. k - 1 : a[m] = a[k] THEN {} ELSE {a[k]}],
                         LAMBDA x : x # {})
Column(k)  == FindName(Names, Value(Grouping[k]))
CellAt(k, j) == Get(table, Column(k), j)

\* The rows of the page with a value for each of the first n attributes.
Kept(n) == {j \in PageRows(table) : \A k \in 1 .. n : CellAt(k, j) # ""}

\* A grouping stops at the first attribute it cannot find a column for, if it
\* gets that far.
Stopped ==
  \/ Formatted({"json", "php"}) /\ ~NamesCover(table, Names)
  \/ \E k \in DOMAIN Grouping :
       /\ \A m \in 1 .. k - 1 : ~CannotGroup(table, Names, Kept(m - 1), Value(Grouping[m]))
       /\ k = 1 \/ Kept(k - 1) # {}
       /\ CannotGroup(table, Names, Kept(k - 1), Value(Grouping[k]))

LeafRows == Kept(Len(Grouping))
LeafColumns == IF LeafRows = {} THEN {} ELSE Columns(table) \ {Column(k) : k \in DOMAIN Grouping}
LeafText(i, j) ==
  LET v == Get(table, i, j)
  IN IF Formatted({"json"}) THEN IF v \in {"", "nan", "NaN"} THEN "null" ELSE v
     ELSE Told(v, MissingText(q))

\* What php and json put between quotes as it is, and json without quotes;
\* and what a text between quotes cannot hold.
QuotedTexts ==
  {Names[i + 1] : i \in LeafColumns}
  \cup UNION {{CellAt(k, j) : j \in Kept(k)} : k \in DOMAIN Grouping}
  \cup (IF Formatted({"php"}) THEN {LeafText(i, j) : i \in LeafColumns, j \in LeafRows} ELSE {})
BareTexts == IF Formatted({"json"}) THEN {LeafText(i, j) : i \in LeafColumns, j \in LeafRows} \cap Numeric
             ELSE {}
QuotesUpset == {"\"", "\\", IF Formatted({"php"}) THEN "$" ELSE "\n"}
Unescaped == QuotedTexts \cap WithAny(QuotesUpset) # {} \/ ~(BareTexts \subseteq JsonNumbers)
Namesakes(S, names) == \E i, k \in S : i # k /\ names[i + 1] = names[k + 1]

Path(j) == [k \in DOMAIN Grouping |-> CellAt(k, j)]
PathBefore(j, m) ==
  \/ \E k \in DOMAIN Grouping : /\ \A n \in 1 .. k - 1 : CellAt(n, j) = CellAt(n, m)
                                /\ Before(CellAt(k, j), CellAt(k, m))
  \/ Path(j) = Path(m) /\ j < m
ExpectedLeavesOf(rows, cols) ==
  [n \in DOMAIN rows |->
     <<Path(rows[n]), [c \in DOMAIN cols |-> <<Names[cols[c] + 1], LeafText(cols[c], rows[n])>>]>>]
ExpectedLeaves == ExpectedLeavesOf(SetToSortSeq(LeafRows, PathBefore), Ascending(LeafColumns))

NestedMatches(read) ==
  /\ read.ok = ~(Namesakes(LeafColumns, Names) \/ (Unescaped /\ ~Formatted({"serial"})))
  /\ read.ok => Leaves(read.node, Len(Grouping), <<>>, Grouping = <<>> \/ Formatted({"json"}))
                = ExpectedLeaves

\* json, php and serial output reads back, by the grammar of the format, as
\* the rows of the page with a value in every attribute column, each once,
\* ordered by those values and then by row, under its values, with the other
\* cells; unless two of those have one name; or, but for serial, a name, an
\* attribute value or (php) any text, which are not escaped, holds a quote, a
\* backslash or (json) a line end, (php) a dollar sign, or json leaves a
\* number as it is that JSON does not know.  An exception stops the output
\* exactly when an attribute that is reached has no column, or json and php
\* have too few names.
NestedOutputReadsBack ==
  Formatted({"json", "php", "serial"}) =>
    LET short == \E i \in LeafColumns : i >= Len(Names)
    IN /\ (told.outcome = "throw") = Stopped
       /\ ~Stopped => (told.outcome = "undefined") = short
       /\ ~Stopped /\ ~short => NestedMatches(ReadNested(told.request.format, told.out))

(* Flat output *)

\* Parts of what a reader read.  Output without one outermost element is read
\* as the content of one.
ReadMarkup(s)  == ReadElement(<<Open("content")>> \o s \o <<Close("content")>>)
At(e, tags)    == FoldLeft(LAMBDA x, tag : Inner(x, tag)[1], e, tags)
Texts(row, tag) == [k \in DOMAIN Inner(row, tag) |-> Inner(row, tag)[k][2][1][2]]
XmlCell(items, k) ==
  IF items[k][1] = "attribute" THEN << <<items[k][2], items[k + 1][2]>> >>
  ELSE IF items[k][1] \in {"asis", "quotefree"} THEN <<>>
  ELSE << <<items[k][1], items[k][2][1][2]>> >>
XmlCells(row) == FlattenSeq([k \in DOMAIN row[2] |-> XmlCell(row[2], k)])

ColumnSeq == Ascending(Columns(table))
RowSeq    == Ascending(PageRows(table))
FlatNames == NamesOf(table, told.request.names)
HeaderTexts == IF Formatted({"csv"}) /\ IsEmpty(table) THEN FlatNames
               ELSE [c \in DOMAIN ColumnSeq |-> IF ColumnSeq[c] < Len(FlatNames)
                                             THEN FlatNames[ColumnSeq[c] + 1] ELSE ""]
FlatMiss   == Given(q.missingtext, IF Formatted({"csv"}) THEN "NaN" ELSE "nan")
RowTexts(j) == [c \in DOMAIN ColumnSeq |-> Told(Get(table, ColumnSeq[c], j), FlatMiss)]
DataTexts  == [n \in DOMAIN RowSeq |-> RowTexts(RowSeq[n])]
CellTexts  == {Get(table, i, j) : i \in Columns(table), j \in PageRows(table)}
SomeMissing == "" \in CellTexts
FlatTexts  == (CellTexts \ {""}) \cup (IF SomeMissing THEN {FlatMiss} ELSE {})

\* xml: which columns of a row are written as attributes.
XmlStyle == LET style == Given(q.xmlstyle, "attributes")
            IN IF style = "mixed" /\ q.attributes = {} THEN "tags" ELSE style
AsAttribute(i) == \/ XmlStyle = "attributes"
                  \/ XmlStyle = "mixed" /\ FlatNames[i + 1] \in XmlAttributeSet(Value(q.attributes))
XmlRowTexts(j) ==
  LET pair(i) == <<FlatNames[i + 1], Told(Get(table, i, j), FlatMiss)>>
      cols    == SelectSeq(ColumnSeq, AsAttribute) \o SelectSeq(ColumnSeq, LAMBDA i : ~AsAttribute(i))
  IN [c \in DOMAIN cols |-> pair(cols[c])]
\* No element or attribute can have the name, or two attributes have one.
XmlMisnamed ==
  \/ \E i \in Columns(table) : FlatNames[i + 1] \in NoXmlName
  \/ Namesakes({i \in Columns(table) : AsAttribute(i)}, FlatNames)
XmlUnreadable ==
  \/ told.request.options.tag \in NoXmlName
  \/ RowSeq # <<>> /\ XmlMisnamed
  \/ FlatTexts \cap With["<"] # {}
  \/ \E i \in {k \in Columns(table) : AsAttribute(k)}, j \in PageRows(table) :
       LET v == Get(table, i, j)
       IN Told(v, FlatMiss) \in With["\n"] \/ (v = "" /\ FlatMiss \in With["\""])

\* What a client reads in a written table: header and rows.
ReadAsLines(lines) ==
  IF Formatted({"ascii"}) \/ ~lines.ok THEN [ok |-> lines.ok, header |-> HeaderTexts, rows |-> lines.node]
  ELSE [ok |-> TRUE, header |-> lines.node[1], rows |-> Tail(lines.node)]

ReadAsRows(rows) ==
  IF Formatted({"image"}) THEN [ok |-> TRUE, header |-> HeaderTexts, rows |-> [k \in DOMAIN rows |-> Texts(rows[k], "td")]]
  ELSE [ok |-> TRUE, header |-> Texts(rows[1], "th"), rows |-> [k \in 1 .. Len(rows) - 1 |-> Texts(rows[k + 1], "td")]]

ReadAsElements(elements) ==
  [ok |-> TRUE, header |-> HeaderTexts, rows |-> [k \in DOMAIN elements |-> XmlCells(elements[k])]]

ReadAsMarkup(doc) ==
  CASE ~doc.ok -> [ok |-> FALSE, header |-> <<>>, rows |-> <<>>]
    [] doc.ok /\ Formatted({"xml"}) -> ReadAsElements(At(doc.node, <<told.request.options.tag>>)[2])
    [] OTHER -> ReadAsRows(Inner(At(doc.node, IF Formatted({"html"}) THEN <<"table">>
                                              ELSE <<"html", "body", "table">>), "tr"))

FlatRead ==
  CASE Formatted({"csv"}) -> ReadAsLines(ReadLines(told.out, Comma))
    [] Formatted({"ascii"}) -> ReadAsLines(ReadLines(told.out, <<"separator", Given(q.separator, " ")>>))
    [] OTHER -> ReadAsMarkup(ReadMarkup(told.out))

Unreadable ==
  CASE Formatted({"ascii"}) -> FlatTexts \cap WithAny({Given(q.separator, " "), "\n"}) # {}
    [] Formatted({"csv"}) ->
         \/ (ToSet(HeaderTexts) \cup FlatTexts) \cap With["\\"] # {}
         \/ IsEmpty(table) /\ ToSet(HeaderTexts) \cap With["\""] # {}
    [] Formatted({"html", "debug"}) -> SomeMissing /\ FlatMiss \in With["<"]
    [] Formatted({"image"}) -> FlatTexts \cap With["<"] # {}
    [] OTHER -> XmlUnreadable

FlatMatches(read, rows) ==
  read.ok = ~Unreadable /\ (read.ok => read.header = HeaderTexts /\ read.rows = rows)

\* A table written as ascii, csv, html, debug, image or xml reads back as its
\* header (csv, html and debug) and the rows of the page in order, each cell
\* in its column and under its name (xml) with the missing text where it is
\* empty; unless a text that is written as it is holds what the format means
\* something by (csv: a backslash, or a quote in a header without columns),
\* a column of xml has a name that no element or attribute can have, or that
\* another attribute has, or the options of xml come from a configuration
\* that names no tag.
FlatOutputReadsBack ==
  Formatted({"ascii", "csv", "html", "debug", "image", "xml"}) =>
    LET known == Formatted({"xml"}) => XmlStyle \in {"attributes", "tags", "mixed"}
        short == Formatted({"xml"}) /\ RowSeq # <<>> /\ Len(FlatNames) <= table.maxi
        rows  == IF Formatted({"xml"}) THEN [n \in DOMAIN RowSeq |-> XmlRowTexts(RowSeq[n])]
                 ELSE DataTexts
    IN /\ (told.outcome = "throw") = ~known
       /\ known => (told.outcome = "undefined") = short
       /\ told.outcome = "text" => FlatMatches(FlatRead, rows)

(* wxml *)

WxmlText(fromLast, j) == Get(table, table.maxi - fromLast, j)
SamePlace(j, m) == \A k \in Low(j, m) .. High(j, m) : WxmlText(2, k) = WxmlText(2, j)
Version == Given(q.version, told.request.options.version)

WxmlLabel(j) == IF Version = "1.00" THEN WxmlText(5, j)
                ELSE IF WxmlText(4, j) = table.missing THEN "" ELSE WxmlText(4, j)

\* What a location of the rows js has to say.
WxmlRowTexts(j) ==
  LET kind(v) == IF v = "" THEN "" ELSE IF v \in WxmlNumeric THEN "value" ELSE "text"
  IN <<IF Version = "2.00" /\ told.request.options.formatType = "observation"
       THEN "observation" ELSE "forecast",
       << <<"at", WxmlText(6, j), WxmlLabel(j)>> >>
       \o [k \in 1 .. Cardinality(WxmlParameters(table)) |->
             LET i == table.mini + k - 1
             IN <<"param", FlatNames[i + 1], kind(Get(table, i, j)), Get(table, i, j)>>] >>

FirstOfPlaces == {j \in PageRows(table) : \A m \in PageRows(table) : m < j => ~SamePlace(m, j)}
ExpectedLocations ==
  LET firsts == Ascending(FirstOfPlaces)
      place(j) ==
        LET rows == Ascending({m \in PageRows(table) : m >= j /\ SamePlace(j, m)})
        IN <<"location", << <<"about", WxmlText(3, j), WxmlText(2, j), WxmlText(1, j), WxmlText(0, j)>> >>
                         \o [n \in DOMAIN rows |-> WxmlRowTexts(rows[n])]>>
  IN [n \in DOMAIN firsts |-> place(firsts[n])]

\* All that wxml writes in attributes, escaping nothing.
WxmlTexts ==
  LET rows   == PageRows(table)
      params == WxmlParameters(table)
  IN {told.request.options.schema}
     \cup {WxmlText(n, j) : n \in 0 .. 3, j \in FirstOfPlaces}
     \cup UNION {{WxmlText(6, j), WxmlLabel(j)} : j \in rows}
     \cup (IF rows = {} THEN {} ELSE {FlatNames[i + 1] : i \in params})
     \cup {Get(table, i, j) : i \in params, j \in rows}

\* wxml output is one element in which each run of rows of one place is one
\* location with those rows in it, and the latest origintime is its time;
\* unless the page does not begin with row 0 of the table: then a location
\* is closed that was never opened; or a parameter, its name, a time, or the
\* name, number or coordinates of a place hold a quote, markup or a line end,
\* all of which are written into attributes as they are.
WxmlOutputReadsBack ==
  Formatted({"wxml"}) =>
    LET rows  == PageRows(table)
        read  == ReadElement(told.out)
        times == {WxmlText(7, j) : j \in rows} \cap Times
        short == rows # {} /\ \/ Cardinality(Columns(table)) < 8
                              \/ \E i \in WxmlParameters(table) : i >= Len(FlatNames)
    IN /\ (told.outcome = "throw") = (Version \notin {"1.00", "2.00"})
       /\ told.outcome # "throw" => (told.outcome = "undefined") = short
       /\ told.outcome = "text" =>
            /\ read.ok = ((0 \in rows \/ rows = {}) /\ WxmlTexts \cap WithAny({"\"", "<", "\n"}) = {})
            /\ read.ok => Inner(read.node, "location") = ExpectedLocations
            /\ read.ok /\ rows # {} =>
                 \A x \in times : x = At(read.node, <<"meta">>)[2][1][2]
                                  \/ Before(x, At(read.node, <<"meta">>)[2][1][2])

\* Whatever the format, the output reads back as the table that was written.
OutputReadsBack == NestedOutputReadsBack /\ FlatOutputReadsBack /\ WxmlOutputReadsBack
=============================================================================
