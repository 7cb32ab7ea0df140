---------------------------- MODULE Formatters ----------------------------
(***************************************************************************)
(* What each table formatter writes (src/spine/*Formatter.cpp), as a       *)
(* sequence of tokens: brackets, separators, and texts marked with how     *)
(* they were written (as they are, between quotes, escaped).  A request q  *)
(* has the optional parameters a formatter reads, each a set of at most    *)
(* one value; an attribute list is the sequence that split() makes of it.  *)
(* An operator F(t, names, ...) takes a table whose array is built.        *)
(* Throw and Undefined are tokens too: the first of them in a sequence is  *)
(* where the formatter leaves with an exception, or reads outside a        *)
(* vector, and the tokens that follow it are never written.                *)
(***************************************************************************)
EXTENDS Table, SequencesExt

CONSTANTS Order,        \* the texts in std::string order
          Numeric,      \* those boost::spirit reads as a double
          WxmlNumeric,  \* those the wxml formatter takes for a number
          Times         \* those that look like a time stamp

Open(x)    == <<"open", x>>
Close(x)   == <<"close", x>>
Comma      == <<"comma", "">>
Colon      == <<"colon", "">>
EndLine    == <<"newline", "">>
Bare(v)    == <<"bare", v>>
Quoted(v)  == <<"quoted", v>>     \* between quotes, not escaped
InPhp(v)   == <<"php", v>>        \* the same, in PHP source
Escaped(v) == <<"escaped", v>>
Count(n)   == <<"count", n>>
Throw      == <<"throw", "">>
Undefined  == <<"undefined", "">>

Outcome(out) ==
  LET bad == SelectInSeq(out, LAMBDA k : k \in {Throw, Undefined})
  IN IF bad = 0 THEN "text" ELSE out[bad][1]

Value(o)         == CHOOSE x \in o : TRUE
Given(o, else)   == IF o = {} THEN else ELSE Value(o)
MissingText(q)   == Given(q.missingtext, "nan")
Told(v, miss)    == IF v = "" THEN miss ELSE v

Before(v, w) == \E k, m \in DOMAIN Order : k < m /\ Order[k] = v /\ Order[m] = w
InOrder(S)   == SelectSeq(Order, LAMBDA v : v \in S)
Ascending(S) == SetToSortSeq(S, <)

\* The pieces Op(x) of the elements of s, with sep between two of them.
Between(s, sep, Op(_)) ==
  FlattenSeq([k \in DOMAIN s |-> (IF k = 1 THEN <<>> ELSE sep) \o Op(s[k])])
Each(S, Op(_)) == Between(Ascending(S), <<>>, Op)

\* theNames[i]: nothing checks the index.
Name(names, i, Tok(_)) == IF i < Len(names) THEN Tok(names[i + 1]) ELSE Undefined
\* The header of csv, html and debug output: a column without a name has "".
NameOrEmpty(names, i)  == IF i < Len(names) THEN names[i + 1] ELSE ""

---------------------------------------------------------------------------
(* Grouping by attribute columns, as json, php and serial do it. *)

FindName(names, a) ==
  (CHOOSE k \in DOMAIN names : names[k] = a /\ \A m \in 1 .. k - 1 : names[m] # a) - 1

\* Fault: only the first mention of the attribute leaves the list.
OtherAttributesKeepRepeats(atts) == Tail(atts)

\* The attribute leaves the list, however often it was asked for.
OtherAttributes(atts) == SelectSeq(Tail(atts), LAMBDA a : a # Head(atts))

\* What stops the grouping: a name nobody has, a column the table has not.
CannotGroup(t, names, rows, a) ==
  \/ \A k \in DOMAIN names : names[k] # a
  \/ rows # {} /\ FindName(names, a) \notin t.mini .. t.maxi

\* The values of the attribute column; rows without a value are left out.
GroupValues(t, nam, rows) == InOrder({Get(t, nam, j) : j \in rows} \ {""})
RowsWith(t, nam, rows, v) == {j \in rows : Get(t, nam, j) = v}

---------------------------------------------------------------------------
(* json *)

JsonScalar(v) ==
  IF v \in {"", "nan", "NaN"} THEN <<"null", "">>
  ELSE IF v \in Numeric THEN Bare(v) ELSE Escaped(v)

JsonRow(t, names, cols, j) ==
  <<Open("{")>>
  \o Between(Ascending(cols), <<Comma>>,
             LAMBDA i : <<Name(names, i, Quoted), Colon, JsonScalar(Get(t, i, j))>>)
  \o <<Close("{")>>

RECURSIVE JsonRecursively(_, _, _, _, _)
JsonRecursively(t, names, cols, rows, atts) ==
  IF atts = <<>>
  THEN <<Open("[")>>
       \o Between(Ascending(rows), <<Comma>>, LAMBDA j : JsonRow(t, names, cols, j))
       \o <<Close("[")>>
  ELSE IF CannotGroup(t, names, rows, Head(atts)) THEN <<Throw>>
  ELSE LET nam == FindName(names, Head(atts))
       IN <<Open("{")>>
          \o Between(GroupValues(t, nam, rows), <<Comma>>, LAMBDA v :
               <<Quoted(v), Colon>>
               \o JsonRecursively(t, names, cols \ {nam}, RowsWith(t, nam, rows, v),
                                  OtherAttributes(atts)))
          \o <<Close("{")>>

JsonFormat(t, theNames, q) ==
  LET names == NamesOf(t, theNames)
  IN IF ~NamesCover(t, names) THEN <<Throw>>
     ELSE JsonRecursively(t, names, Columns(t), PageRows(t), Given(q.attributes, <<>>))

---------------------------------------------------------------------------
(* php *)

PhpCells(t, names, cols, j, miss) ==
  Between(Ascending(cols), <<Comma>>,
          LAMBDA i : <<Name(names, i, InPhp), Colon, InPhp(Told(Get(t, i, j), miss))>>)

PhpPlain(t, names, cols, rows, miss) ==
  <<Open("array")>>
  \o Between(Ascending(rows), <<Comma>>, LAMBDA j :
       <<Open("array")>> \o PhpCells(t, names, cols, j, miss) \o <<Close("array")>>)
  \o <<Close("array")>>

RECURSIVE PhpAttributes(_, _, _, _, _, _)
PhpAttributes(t, names, cols, rows, atts, miss) ==
  LET rest == OtherAttributes(atts)
      nam  == FindName(names, Head(atts))
      many == Cardinality(rows) > 1
      When(c, tok) == IF c THEN <<tok>> ELSE <<>>
  IN IF atts = <<>>
     THEN When(many, Open("array"))
          \o Between(Ascending(rows), <<Close("array"), Comma, Open("array")>>,
                     LAMBDA j : PhpCells(t, names, cols, j, miss))
          \o When(many, Close("array"))
     ELSE IF CannotGroup(t, names, rows, Head(atts)) THEN <<Throw>>
     ELSE <<Open("array")>>
          \o Between(GroupValues(t, nam, rows), <<Comma>>, LAMBDA v :
               <<InPhp(v), Colon>> \o When(rest = <<>>, Open("array"))
               \o PhpAttributes(t, names, cols \ {nam}, RowsWith(t, nam, rows, v), rest, miss)
               \o When(rest = <<>>, Close("array")))
          \o <<Close("array")>>

PhpFormat(t, theNames, q) ==
  LET names == NamesOf(t, theNames)
      atts  == Given(q.attributes, <<>>)
  IN IF ~NamesCover(t, names) THEN <<Throw>>
     ELSE IF atts = <<>> THEN PhpPlain(t, names, Columns(t), PageRows(t), MissingText(q))
     ELSE PhpAttributes(t, names, Columns(t), PageRows(t), atts, MissingText(q))

---------------------------------------------------------------------------
(* serial: a count before every array, a size before every text.  The size  *)
(* of a text is the token <<"size", text>>.                                 *)

Sized(v) == << <<"size", v>>, Quoted(v) >>
SizedName(names, i) ==
  IF i < Len(names) THEN Sized(names[i + 1]) ELSE <<Undefined>>

SerialCells(t, names, cols, j, miss) ==
  <<Count(Cardinality(cols)), Open("{")>>
  \o Each(cols, LAMBDA i : SizedName(names, i) \o Sized(Told(Get(t, i, j), miss)))
  \o <<Close("{")>>

\* The rows of an array: each after its index.
SerialArray(t, names, cols, rows, miss) ==
  <<Count(Cardinality(rows)), Open("{")>>
  \o Each(rows, LAMBDA j : << <<"index", Cardinality({k \in rows : k < j})>> >>
                           \o SerialCells(t, names, cols, j, miss))
  \o <<Close("{")>>

SerialPlain(t, names, cols, rows, miss) == SerialArray(t, names, cols, rows, miss)

RECURSIVE SerialAttributes(_, _, _, _, _, _)
SerialAttributes(t, names, cols, rows, atts, miss) ==
  IF atts = <<>>
  THEN IF Cardinality(rows) > 1 THEN SerialArray(t, names, cols, rows, miss)
       ELSE Each(rows, LAMBDA j : SerialCells(t, names, cols, j, miss))
  ELSE IF CannotGroup(t, names, rows, Head(atts)) THEN <<Throw>>
  ELSE LET nam    == FindName(names, Head(atts))
           values == GroupValues(t, nam, rows)
       IN <<Count(Len(values)), Open("{")>>
          \o Between(values, <<>>, LAMBDA v :
               Sized(v)
               \o SerialAttributes(t, names, cols \ {nam}, RowsWith(t, nam, rows, v),
                                   OtherAttributes(atts), miss))
          \o <<Close("{")>>

\* Without attributes the table's own names will do, with them only the
\* caller's; neither is checked against the width of the table.
SerialFormat(t, theNames, q) ==
  LET atts == Given(q.attributes, <<>>)
  IN IF atts = <<>>
     THEN SerialPlain(t, NamesOf(t, theNames), Columns(t), PageRows(t), MissingText(q))
     ELSE SerialAttributes(t, theNames, Columns(t), PageRows(t), atts, MissingText(q))

---------------------------------------------------------------------------
(* xml.  Quotes in a value are replaced by an entity, no other character   *)
(* is; the text for a missing value is written as it is.                   *)

XmlText(t, i, j, miss) ==
  IF Get(t, i, j) = "" THEN <<"asis", miss>> ELSE <<"quotefree", Get(t, i, j)>>
XmlAttribute(t, names, i, j, miss) ==
  <<Name(names, i, LAMBDA n : <<"attribute", n>>), XmlText(t, i, j, miss)>>
XmlElement(t, names, i, j, miss) ==
  <<Name(names, i, Open), XmlText(t, i, j, miss), Name(names, i, Close)>>

\* <tag>, a row element for each row, </tag>.
XmlRows(t, tag, Row(_)) ==
  <<Open(tag)>>
  \o Each(PageRows(t), LAMBDA j : <<Open("row")>> \o Row(j) \o <<Close("row")>>)
  \o <<Close(tag)>>

XmlAttributes(t, names, tag, q) ==
  XmlRows(t, tag, LAMBDA j : Each(Columns(t),
                    LAMBDA i : XmlAttribute(t, names, i, j, MissingText(q))))

XmlTags(t, names, tag, q) ==
  XmlRows(t, tag, LAMBDA j : Each(Columns(t),
                    LAMBDA i : XmlElement(t, names, i, j, MissingText(q))))

\* parse_xml_attributes(): split() of the empty string has one empty part.
XmlAttributeSet(atts) == IF atts = <<>> THEN {""} ELSE ToSet(atts)

XmlMixed(t, names, tag, q) ==
  LET atts == XmlAttributeSet(Value(q.attributes))
      InTag(i) == i < Len(names) /\ names[i + 1] \in atts
      inTag == {i \in Columns(t) : InTag(i)}
      wide  == \E i \in Columns(t) : i >= Len(names)
  IN XmlRows(t, tag, LAMBDA j :
       IF wide THEN <<Undefined>>
       ELSE Each(inTag, LAMBDA i : XmlAttribute(t, names, i, j, MissingText(q)))
            \o Each(Columns(t) \ inTag, LAMBDA i : XmlElement(t, names, i, j, MissingText(q))))

XmlFormat(t, theNames, q, options) ==
  LET names == NamesOf(t, theNames)
      style == Given(q.xmlstyle, "attributes")
  IN CASE style = "attributes" -> XmlAttributes(t, names, options.tag, q)
       [] style = "tags" \/ (style = "mixed" /\ q.attributes = {}) ->
            XmlTags(t, names, options.tag, q)
       [] style = "mixed" -> XmlMixed(t, names, options.tag, q)
       [] OTHER -> <<Throw>>

---------------------------------------------------------------------------
(* ascii, csv *)

AsciiFormat(t, q) ==
  LET sep == << <<"separator", Given(q.separator, " ")>> >>
  IN Each(PageRows(t), LAMBDA j :
       Between(Ascending(Columns(t)), sep,
               LAMBDA i : <<Bare(Told(Get(t, i, j), MissingText(q)))>>)
       \o <<EndLine>>)

CsvCell(v, miss) ==
  IF v = "" THEN Escaped(miss) ELSE IF v \in Numeric THEN Bare(v) ELSE Escaped(v)

\* The header is made of all the names when the table has no columns.
CsvHeader(t, names) ==
  IF IsEmpty(t) THEN Between(names, <<Comma>>, LAMBDA n : <<Quoted(n)>>)
  ELSE Between(Ascending(Columns(t)), <<Comma>>,
               LAMBDA i : <<Escaped(NameOrEmpty(names, i))>>)

CsvFormat(t, theNames, q) ==
  CsvHeader(t, NamesOf(t, theNames)) \o <<EndLine>>
  \o Each(PageRows(t), LAMBDA j :
       Between(Ascending(Columns(t)), <<Comma>>,
               LAMBDA i : <<CsvCell(Get(t, i, j), Given(q.missingtext, "NaN"))>>)
       \o <<EndLine>>)

---------------------------------------------------------------------------
(* html, debug, image *)

Heading(t) ==
  IF t.title = {} THEN <<>> ELSE <<Open("h1"), Escaped(Value(t.title)), Close("h1")>>

HeaderRow(t, names) ==
  <<Open("tr")>>
  \o Each(Columns(t), LAMBDA i : <<Open("th"), Escaped(NameOrEmpty(names, i)), Close("th")>>)
  \o <<Close("tr")>>

\* The data rows; the text for a missing value is never escaped.
DataRows(t, miss, escape) ==
  Each(PageRows(t), LAMBDA j :
    <<Open("tr")>>
    \o Each(Columns(t), LAMBDA i :
         <<Open("td"), IF Get(t, i, j) = "" THEN Bare(miss)
                        ELSE IF escape THEN Escaped(Get(t, i, j)) ELSE Bare(Get(t, i, j)), Close("td")>>)
    \o <<Close("tr")>>)

HtmlFormat(t, theNames, q) ==
  Heading(t) \o <<Open("table")>> \o HeaderRow(t, NamesOf(t, theNames))
  \o DataRows(t, MissingText(q), TRUE) \o <<Close("table")>>

DebugHeader(t) == <<Open("html"), Open("body")>> \o Heading(t)
DebugContent(t, q, escape) ==
  DataRows(t, MissingText(q), escape) \o <<Close("table"), Close("body"), Close("html")>>

DebugFormat(t, theNames, q) ==
  DebugHeader(t) \o <<Open("table")>> \o HeaderRow(t, NamesOf(t, theNames))
  \o DebugContent(t, q, TRUE)

\* Values of an image table are markup already and are not escaped.
ImageFormat(t, q) == DebugHeader(t) \o <<Open("table")>> \o DebugContent(t, q, FALSE)

---------------------------------------------------------------------------
(* wxml.  The last eight columns are origintime, xmltime, weekday,         *)
(* timestring, name, geoid, longitude and latitude, in this order.         *)

WxmlColumn(t, fromLast) == t.maxi - fromLast
WxmlParameters(t) == {i \in Columns(t) : i <= t.maxi - 8}

\* The latest origintime that looks like one.
WxmlUpdated(t) ==
  LET times == {Get(t, WxmlColumn(t, 7), j) : j \in PageRows(t)} \cap Times
  IN IF times = {} THEN "" ELSE Last(InOrder(times))

WxmlParam(t, names, i, j) ==
  LET v == Get(t, i, j)
  IN <<Name(names, i, LAMBDA n :
         <<"param", n, IF v = "" THEN "" ELSE IF v \in WxmlNumeric THEN "value" ELSE "text", v>>)>>

\* A location is closed where the next one opens, except at row 0.
WxmlLocation(t, j, before) ==
  LET geoid(k) == Get(t, WxmlColumn(t, 2), k)
  IN IF before # {} /\ geoid(j) = geoid(CHOOSE k \in before : \A m \in before : m <= k)
     THEN <<>>
     ELSE (IF j # 0 THEN <<Close("location")>> ELSE <<>>)
          \o <<Open("location"),
               <<"about", Get(t, WxmlColumn(t, 3), j), geoid(j),
                 Get(t, WxmlColumn(t, 1), j), Get(t, WxmlColumn(t, 0), j)>> >>

\* version 1.00 tells the weekday, 2.00 the timestring if there is one, and
\* 2.00 can call a forecast an observation.
WxmlPeriod(t, j, version, options) ==
  LET label == IF version = "1.00" THEN Get(t, WxmlColumn(t, 5), j)
               ELSE IF Get(t, WxmlColumn(t, 4), j) = t.missing THEN ""
               ELSE Get(t, WxmlColumn(t, 4), j)
      tag   == IF version = "2.00" /\ options.formatType = "observation"
               THEN "observation" ELSE "forecast"
  IN [tag |-> tag, head |-> <<"at", Get(t, WxmlColumn(t, 6), j), label>>]

WxmlDocument(t, names, version, options) ==
  LET rows == PageRows(t)
      Period(j) == WxmlPeriod(t, j, version, options)
  IN <<Open("pointweather"), <<"schema", IF options.schema = "{version}" THEN version
                                           ELSE options.schema>> >>
     \o (IF rows = {} THEN <<>>
         ELSE IF Cardinality(Columns(t)) < 8 THEN <<Undefined>>
         ELSE <<Open("meta"), <<"updated", WxmlUpdated(t)>>, Close("meta")>>
              \o Each(rows, LAMBDA j :
                   WxmlLocation(t, j, {k \in rows : k < j})
                   \o <<Open(Period(j).tag), Period(j).head>>
                   \o Each(WxmlParameters(t), LAMBDA i : WxmlParam(t, names, i, j))
                   \o <<Close(Period(j).tag)>>)
              \o <<Close("location")>>)
     \o <<Close("pointweather")>>

WxmlFormat(t, theNames, q, options) ==
  LET version == Given(q.version, options.version)
  IN IF version \in {"1.00", "2.00"}
     THEN WxmlDocument(t, NamesOf(t, theNames), version, options)
     ELSE <<Throw>>

---------------------------------------------------------------------------
(* TableFormatterFactory::create(), and the options of a configuration.    *)

FactoryNames == {"ascii", "csv", "xml", "wxml", "serial", "json", "php", "html", "debug"}

\* "image" stands for an ImageFormatter, which the factory does not make.
Format(f, t, names, q, options) ==
  CASE f = "ascii"  -> AsciiFormat(t, q)
    [] f = "csv"    -> CsvFormat(t, names, q)
    [] f = "xml"    -> XmlFormat(t, names, q, options)
    [] f = "wxml"   -> WxmlFormat(t, names, q, options)
    [] f = "serial" -> SerialFormat(t, names, q)
    [] f = "json"   -> JsonFormat(t, names, q)
    [] f = "php"    -> PhpFormat(t, names, q)
    [] f = "html"   -> HtmlFormat(t, names, q)
    [] f = "debug"  -> DebugFormat(t, names, q)
    [] f = "image"  -> ImageFormat(t, q)
    [] OTHER        -> <<Throw>>

DefaultOptions == [version |-> "2.00", schema |-> "{version}", tag |-> "result", formatType |-> ""]

\* From a configuration: a set for each setting that may be absent, "wxml"
\* for the group.  A schema or an xml tag nobody names stays empty.
ConfiguredOptions(cfg) ==
  LET version == IF cfg.wxml THEN Given(cfg.version, "2.00") ELSE "2.00"
  IN [version    |-> version,
      schema     |-> IF cfg.wxml THEN Given(cfg.schema, version) ELSE "",
      tag        |-> Given(cfg.tag, ""),
      formatType |-> IF cfg.wxml THEN Given(cfg.formatType, "") ELSE ""]

=============================================================================
