---------------------------- MODULE MCConversions ----------------------------
(***************************************************************************)
(* Instances of TableOutput and Conversions for TLC.                       *)
(***************************************************************************)
EXTENDS TableOutput, Conversions

NoScenario == [first |-> <<0, 0>>]

NoTable ==
  /\ scenario = NoScenario /\ table = EmptyTable /\ told = Nothing
  /\ visitor = [col |-> 0, row |-> 0, lonlat |-> "LONLAT"]
NoQuestion == question = Unasked /\ reply = Unanswered

---------------------------------------------------------------------------
(* Tables: made to be grouped by attributes, of texts that mean something  *)
(* to a format, in the shape of wxml, and a small one whose cells are set  *)
(* in any order.                                                           *)

MCOrder       == <<"+1", "1", "2", "T1", "T2", "a\nb", "a b", "a\"b", "a$b", "a,b", "a<b", "a\\b", "nan", "x", "y">>
MCCellText    == {MCOrder[k] : k \in DOMAIN MCOrder} \cup {""}
MCNumeric     == {"+1", "1", "2", "nan"}
MCWxmlNumeric == {"+1", "1", "2"}
MCTimes       == {"T1", "T2"}
MCJsonNumbers == {"1", "2"}
MCWith        == "\"" :> {"a\"b"} @@ "\\" :> {"a\\b"} @@ "$" :> {"a$b"} @@ " " :> {"a b"}
                 @@ "," :> {"a,b"} @@ "\n" :> {"a\nb"} @@ "<" :> {"a<b"}
MCNoXmlName   == {"", "1"} \cup UNION {MCWith[c] : c \in DOMAIN MCWith}

Strings(S) == {[kind |-> "string", text |-> x, latlon |-> x] : x \in S}
Other(k, x, y) == [kind |-> k, text |-> x, latlon |-> y]

\* Rows first .. last of columns 0 .. w; the visitor goes to the next column
\* when this one is filled, or (gaps) at any row.
Filling(w, first, last, gaps) ==
  [place \in (0 .. w) \X (first .. last + 1) |->
     IF place[1] < w /\ (gaps \/ place[2] = last + 1) THEN {<<place[1] + 1, first>>} ELSE {}]

NoQuery == [attributes |-> {}, missingtext |-> {}, separator |-> {}, xmlstyle |-> {}, version |-> {}]
Request(f, names, query) ==
  [format |-> f, names |-> names, query |-> query, options |-> DefaultOptions]

NoMore == [lonlats |-> {}, pages |-> {}, names |-> {}, titles |-> {}, missings |-> {},
             defaults |-> {}, reads |-> {}]
Scenario(first, last, sets, values, moves, more, requests) ==
  [first |-> <<0, first>>, rows |-> first .. last, sets |-> sets, values |-> values, moves |-> moves,
   lonlats |-> more.lonlats, pages |-> more.pages, names |-> more.names, titles |-> more.titles,
   missings |-> more.missings, defaults |-> more.defaults, reads |-> more.reads,
   requests |-> requests]

AttributeLists == {{}, {<<"p">>}, {<<"q", "p">>}, {<<"p", "q", "p">>}, {<<"p", "other">>}, {<<"q">>}}
Nested(names) ==
  {Request(f, names, [NoQuery EXCEPT !.attributes = a]) :
     f \in {"json", "php", "serial"}, a \in AttributeLists}

GroupedTwo ==
  Scenario(0, 2, 6, 0 :> Strings({"x", "y", ""}) @@ 1 :> Strings({"1"}),
           Filling(1, 0, 2, TRUE), [NoMore EXCEPT !.pages = {<<1, 1>>}],
           Nested(<<"p", "q">>))
GroupedThree ==
  Scenario(0, 1, 6, 0 :> Strings({"x", ""}) @@ 1 :> Strings({"a\"b", "y"}) @@ 2 :> Strings({"nan", "+1"}),
           Filling(2, 0, 1, FALSE), [NoMore EXCEPT !.names = {<<"p", "q", "a\"b">>}],
           Nested(<<"p", "q", "r">>)
           \cup {Request(f, <<>>, [NoQuery EXCEPT !.attributes = {<<"p">>}]) : f \in {"json", "serial"}}
           \cup {Request("php", <<"p", "q", "r">>, [NoQuery EXCEPT !.missingtext = {"a\"b"}])})

\* One row of texts and names of all sorts.
GroupedOdd ==
  LET odd == {"a\nb", "a$b", "a\\b", "x"}
  IN Scenario(0, 0, 3, 0 :> Strings(odd) @@ 1 :> Strings(odd) @@ 2 :> Strings({"a\\b", "1"}),
              Filling(2, 0, 0, FALSE), NoMore,
              {Request(f, <<n, "q", m>>, [NoQuery EXCEPT !.attributes = a]) :
                 f \in {"json", "php", "serial"}, n \in {"p", "a$b", "a\nb"}, m \in {"p", "q", "a\\b"},
                 a \in {{}, {<<"p">>}}})

Flat ==
  {Request(f, <<"p", "q">>, [NoQuery EXCEPT !.missingtext = m]) :
     f \in {"ascii", "csv", "html", "debug", "image", "none"}, m \in {{}, {"a<b"}}}
  \cup {Request(f, <<>>, NoQuery) : f \in {"csv", "html"}}
  \cup {Request("ascii", <<>>, [NoQuery EXCEPT !.separator = {","}])}
XmlRequests ==
  {Request("xml", <<"p", "q">>,
           [NoQuery EXCEPT !.missingtext = m, !.xmlstyle = s, !.attributes = a]) :
     m \in {{}, {"a\"b"}}, s \in {{}, {"tags"}, {"mixed"}}, a \in {{}, {<<"q">>}}}
  \cup {Request("xml", <<"p">>, NoQuery)}
  \cup {Request("xml", <<"p">>, [NoQuery EXCEPT !.xmlstyle = {s}]) : s \in {"tags", "other"}}
  \cup {[Request("xml", <<"p", "q">>, NoQuery) EXCEPT !.options =
           ConfiguredOptions([wxml |-> FALSE, version |-> {}, schema |-> {}, tag |-> tag,
                              formatType |-> {}])] : tag \in {{}, {"root"}}}
FlatTable ==
  Scenario(1, 2, 4, 0 :> Strings({"a<b", ""}) @@ 1 :> Strings({"a\"b", "a b"}),
           Filling(1, 1, 2, FALSE),
           [NoMore EXCEPT !.titles = {"x"}, !.names = {<<"a\"b">>}],
           Flat \cup XmlRequests)

FlatOdd ==
  Scenario(0, 0, 2, 0 :> Strings({"a\nb", "a\\b", "a,b", "a<b"}) @@ 1 :> Strings({"a b", ""}),
           Filling(1, 0, 0, FALSE), [NoMore EXCEPT !.names = {<<"p", "a\\b">>, <<"1", "1">>, <<"p", "p">>}],
           {Request(f, <<>>, [NoQuery EXCEPT !.missingtext = m]) :
              f \in {"csv", "html", "image"}, m \in {{}, {"a\\b"}, {"a\nb"}}}
           \cup {Request("ascii", <<>>, [NoQuery EXCEPT !.separator = x]) : x \in {{}, {","}}}
           \cup {Request("xml", <<>>, [NoQuery EXCEPT !.xmlstyle = x, !.missingtext = m]) :
                    x \in {{}, {"tags"}}, m \in {{}, {"a\nb"}}})

WxmlRequests ==
  {Request("wxml", names, [NoQuery EXCEPT !.version = v]) :
     names \in {<<"p", "q">>, <<>>}, v \in {{"1.00"}, {}}}
  \cup {Request("wxml", <<"p">>, [NoQuery EXCEPT !.version = {"3.00"}])}
  \cup {[Request("wxml", <<"p">>, NoQuery) EXCEPT !.options =
           ConfiguredOptions([wxml |-> TRUE, version |-> v, schema |-> {}, tag |-> {},
                              formatType |-> {"observation"}])] : v \in {{}, {"1.00"}}}
WxmlValues(param, origin, timestring, geoid) ==
  0 :> Strings(param) @@ 1 :> Strings(origin) @@ 2 :> Strings({"T1"}) @@ 3 :> Strings({"x"})
  @@ 4 :> Strings(timestring) @@ 5 :> Strings({"y"}) @@ 6 :> Strings(geoid)
  @@ 7 :> Strings({"1"}) @@ 8 :> Strings({"2"})
WxmlTwo ==
  Scenario(0, 1, 18, WxmlValues({"1", "x"}, {"T1", "T2"}, {"x", ""}, {"1"}),
           Filling(8, 0, 1, FALSE), NoMore, WxmlRequests)
\* One row whose texts mean something in an attribute.
WxmlOdd ==
  LET both(a, b) == Strings({a, b})
  IN Scenario(0, 0, 9, 0 :> both("1", "a<b") @@ 1 :> Strings({"T1"}) @@ 2 :> both("T1", "a\nb")
                       @@ 3 :> both("x", "a\"b") @@ 4 :> both("x", "a<b") @@ 5 :> both("y", "a\"b")
                       @@ 6 :> both("1", "a\"b") @@ 7 :> both("1", "a<b") @@ 8 :> both("2", "a\nb"),
              Filling(8, 0, 0, FALSE), NoMore,
              {Request("wxml", <<n>>, [NoQuery EXCEPT !.version = v]) : n \in {"p", "a\"b"}, v \in {{"1.00"}, {}}}
              \cup {[Request("wxml", <<"p">>, NoQuery) EXCEPT !.options =
                       ConfiguredOptions([wxml |-> TRUE, version |-> {}, schema |-> {"a\"b"}, tag |-> {},
                                          formatType |-> {}])]})
WxmlThree(first) ==
  Scenario(first, first + 2, 27, WxmlValues({""}, {"T1"}, {"x"}, {"1", "2"}),
           Filling(8, first, first + 2, FALSE),
           [NoMore EXCEPT !.pages = {<<1, 0>>}, !.missings = {"x"}], WxmlRequests)

Scattered ==
  LET places == (0 .. 1) \X (1 .. 2)
  IN Scenario(1, 2, 3, 0 :> {Other("none", "", ""), Other("double", "1", "")} @@ 1 :> {Other("lonlat", "x", "y")},
              [p \in (0 .. 1) \X (1 .. 3) |-> places \ {<<1, 1>>}],
              [NoMore EXCEPT !.lonlats = {"LATLON"}, !.reads = {<<0, 1>>, <<2, 2>>},
                             !.defaults = {"csv"}],
              {Request("default", <<>>, NoQuery)})

MCScenarios == {GroupedTwo, GroupedThree, GroupedOdd, FlatTable, FlatOdd, WxmlTwo, WxmlOdd, WxmlThree(0),
                WxmlThree(1), Scattered}

---------------------------------------------------------------------------
(* Documents, in the order of the members' names.                          *)

MCMembers   == <<"0", "1", "Q", "a", "b", "c", "p", "q", "qid", "x">>
MCLowerCase == [Q |-> "q"]
T(x)        == Node("text", <<x>>)
MCParses    == T("object") :> (<<>> :> ObjectNode @@ <<"x">> :> T("v") @@ <<"qid">> :> T("p"))

Include_(name)   == Node("json", <<name>>)
FromRoot(name)   == Node("json", <<"/", name>>)
Refer(p)         == Node("ref", p)
Object(parts)    == <<>> :> ObjectNode @@ parts
MCFiles ==
  <<"path", "f">> :> (<<>> :> ObjectNode @@ <<"a">> :> Include_("g") @@ <<"x">> :> T("path f"))
  @@ <<"root", "f">> :> Leaf(T("root f"))
  @@ <<"layers", "g">> :> Leaf(T("layers g"))
  @@ <<"resources", "g">> :> Leaf(T("resources g"))
  @@ <<"root", "h">> :> (<<>> :> Node("array", <<>>) @@ <<"0">> :> FromRoot("h"))
  @@ <<"resources", "k">> :> Leaf(Include_("g"))
  @@ <<"path", "l">> :> Leaf(Include_("missing"))

NamedDocuments ==
  {Object(<<"a">> :> ObjectNode @@ <<"a", "qid">> :> T("q") @@ <<"a", "x">> :> T("v1")
          @@ <<"a", "b">> :> ObjectNode @@ <<"a", "b", "qid">> :> T("p")
          @@ <<"b">> :> Node("array", <<>>) @@ <<"b", "0">> :> ObjectNode
          @@ <<"b", "0", "qid">> :> T("Q") @@ <<"b", "0", "x">> :> NullNode
          @@ <<"b", "1">> :> NullNode @@ <<"c">> :> T("v2")),
   Object(<<"a">> :> ObjectNode @@ <<"a", "qid">> :> T("p") @@ <<"b">> :> ObjectNode
          @@ <<"b", "qid">> :> T("p") @@ <<"c">> :> NullNode),
   Object(<<"qid">> :> T("q") @@ <<"x">> :> T("v")),
   Object(<<"a">> :> ObjectNode @@ <<"a", "qid">> :> NullNode)}

Param(name, text) == [name |-> name, text |-> text]
MCParams ==
  <<Param(<<"Q">>, T("n1")), Param(<<"Q", "x">>, T("n2")), Param(<<"Q", "x">>, T("n3")),
    Param(<<"a">>, T("n4")), Param(<<"a", "b">>, T("object")), Param(<<"b", "x">>, T("n5")),
    Param(<<"c", "x">>, Refer(<<"a">>)), Param(<<"c", "x", "a">>, T("n6")),
    Param(<<"p", "x">>, T("n7")), Param(<<"q", "b">>, T("n8")), Param(<<"q", "x">>, T("n9")),
    Param(<<"x">>, Include_("f"))>>
Chosen(s, n) == {[k \in 1 .. Cardinality(S) |-> s[Ascending(S)[k]]] :
                   S \in {U \in SUBSET DOMAIN s : Cardinality(U) <= n}}

ParameterQuestions ==
  [doc : NamedDocuments, params : Chosen(MCParams, 3), insensitive : BOOLEAN, references : BOOLEAN]

Filled(nodes) ==
  {Object(<<"a">> :> n[1] @@ <<"b">> :> Node("array", <<>>) @@ <<"b", "0">> :> n[2]) : n \in nodes \X nodes}
IncludeQuestions ==
  Filled({T("v"), FromRoot("f")} \cup {Include_(f) : f \in {"f", "g", "h", "k", "l", "missing"}})
  \cup {Leaf(Include_("f"))}

ReferenceQuestions ==
  LET nodes == {T("v"), NullNode} \cup {Refer(p) : p \in {<<"a">>, <<"b">>, <<"c">>, <<"c", "x">>, <<"c", "0">>}}
  IN {Object(<<"a">> :> n[1] @@ <<"b">> :> n[2] @@ <<"c">> :> ObjectNode @@ <<"c", "x">> :> n[3]) :
        n \in nodes \X nodes \X nodes}
     \cup {Object(<<"a">> :> n[1] @@ <<"b">> :> n[2] @@ <<"c">> :> n[3]) : n \in nodes \X nodes \X nodes}

---------------------------------------------------------------------------
(* A server with logs whose entries are around the limits of the spans,    *)
(* also out of the order of their ends; a clock second is two ticks.       *)

Entries(ends) == [k \in DOMAIN ends |-> [id |-> k, end |-> ends[k], duration |-> k, cpu |-> 3 * k]]
Logs(n) == {Entries(ends) : ends \in UNION {[1 .. m -> {5, 6, 16, 17, 19, 21}] : m \in 0 .. n}}
RequestServer(logging, log1, log2) ==
  [logging |-> logging, now |-> 21,
   handlers |-> <<[uri |-> "/a", plugin |-> "p", log |-> log1], [uri |-> "/b", plugin |-> "q", log |-> log2]>>]
RequestQuestions ==
  {[server |-> RequestServer(TRUE, log1, log2), plugin |-> "all", minutes |-> m,
    fields |-> <<"plugin", "requeststring">>] : log1 \in Logs(3), log2 \in Logs(1), m \in 0 .. 1}
  \cup {[server |-> RequestServer(l, log1, log2), plugin |-> p, minutes |-> 9, fields |-> f] :
           l \in BOOLEAN, log1 \in Logs(1), log2 \in Logs(1), p \in {"all", "p", "other"},
           f \in {<<"plugin", "requeststring">>, <<"other", "bytes", "starttime">>, <<"other">>}}

CacheOf(name, n) == [name |-> name, maxsize |-> 9, size |-> n, inserts |-> n, hits |-> n, misses |-> 0, start |-> n]
Owners(name, n) ==
  {[name |-> name, ready |-> r, caches |-> c] :
     r \in BOOLEAN, c \in {<<>>, <<CacheOf("c", n)>>, <<CacheOf("d", n), CacheOf("c", n + 1)>>, <<CacheOf("dns", n)>>}}
Active(forwarded, key) ==
  [id |-> 1, time |-> 3, ip |-> "ip", forwarded |-> forwarded, apikey |-> key, uri |-> "/a"]
AdminRequest(what, target, public) ==
  [what |-> what, target |-> target, public |-> public, authentication |-> ~public, description |-> what]
AdminRequests ==
  <<AdminRequest("v", "p", TRUE), AdminRequest("v", "q", FALSE), AdminRequest("w", "none", TRUE),
    AdminRequest("x", "none", FALSE), AdminRequest("y", "q", TRUE)>>
StateQuestions ==
  {[engines |-> <<e1, e2>>, plugins |-> <<p1>>, dnsCache |-> CacheOf("dns", 7), now |-> 8, logging |-> TRUE,
    active |-> <<>>, requests |-> <<>>, unique |-> {}, target |-> {}] :
     e1 \in Owners("e", 1), e2 \in Owners("f", 3), p1 \in Owners("g", 5)}
  \cup {[engines |-> <<>>, plugins |-> <<>>, dnsCache |-> CacheOf("dns", 7), now |-> 7, logging |-> FALSE,
         active |-> <<Active(<<"o", "p">>, {"k"}), Active(<<>>, {})>>, requests |-> r, unique |-> {"y"}, target |-> t] :
           r \in Chosen(AdminRequests, 5), t \in {{}, {"none"}, {"q"}}}

---------------------------------------------------------------------------
(* Values of three bits and texts of all forms.                            *)

Ints    == {Val("int", <<n>>) : n \in -4 .. 3}
Uints   == {Val("uint", <<n>>) : n \in 0 .. 7}
Doubles == {Val("double", <<n>>) : n \in -3 .. 3}
TextsOf(S) == {Text("integer", <<n>>, "") : n \in S} \cup {Text("decimal", <<3>>, ""), Text("word", <<0>>, "")}
Times_  == {Val("time", <<n>>) : n \in {0, 30}}
OtherValues == {Val("bool", <<1>>), Val("bool", <<0>>), Val("point", <<1, 2>>), Val("bbox", <<0, 1, 2, 3>>)}
LimitValues == {Val("int", <<n>>) : n \in {-4, -1, 2}} \cup {Val("uint", <<n>>) : n \in {0, 4}}
               \cup {Val("double", <<n>>) : n \in {-2, 3}} \cup TextsOf({-5, 2, 8})
LimitSets == {{}} \cup {{l} : l \in LimitValues}
LimitQuestions ==
  [setting : {{}}, default : Ints \cup Uints \cup Doubles, lower : LimitSets, upper : LimitSets, now : {0}]
  \cup [setting : {{[type |-> t, n |-> <<1>>, form |-> "integer"]} : t \in {"bool", "int", "int64", "float", "string", "list"}},
         default : {Val("uint", <<7>>)}, lower : LimitSets, upper : LimitSets, now : {0}]
  \cup [setting : {{}}, default : Times_ \cup {Val("bool", <<1>>)}, lower : {{}} \cup {{Text("xml", <<20, -1>>, "Z")}},
         upper : {{}} \cup {{t} : t \in Times_ \cup {Phrase("after", 1, "day", 0, FALSE)}}, now : {0}]

TimeQuestions ==
  [text : {Phrase(tag, n, unit, r, up) : tag \in {"now", "ago", "after"}, n \in {0, 1, 2, 7, 20},
             unit \in {"second", "minute", "hour", "day"}, r \in {0, 2, 3, 5}, up \in BOOLEAN},
   now : {0, 5, 23, 30}]
  \cup [text : {Text("iso", <<5>>, ""), Text("word", <<0>>, ""), Text("xml", <<5, 1>>, "Z"), Text("xml", <<5, 0>>, "no zone")},
         now : {0}]

\* Of more digits than a text has, halfway between two texts or not, and of
\* more digits before the point.
LongDoubles == {Val("double", <<n>>) : n \in (17 .. 33) \cup (195 .. 215) \cup {-21, -25, -199, 1990, 2011, 3999}}
TextQuestions == Ints \cup Uints \cup Doubles \cup LongDoubles \cup TextsOf({1}) \cup Times_ \cup OtherValues \cup {Val("empty", <<>>)}

---------------------------------------------------------------------------
(* Requests                                                                *)

Tag(weak, opaque, bare) == [weak |-> weak, opaque |-> opaque, bare |-> bare]
EntityTags == {Tag(w, o, FALSE) : w \in BOOLEAN, o \in {<<"a">>, <<"b", CommaMark, "a">>, <<Asterisk>>}}
ListedTags == EntityTags \cup {Tag(FALSE, <<"a">>, TRUE), Tag(FALSE, <<Asterisk>>, TRUE), Tag(TRUE, <<Asterisk>>, TRUE),
                               Tag(FALSE, <<Blank, "a">>, FALSE)}
TagLists(n) == UNION {[1 .. m -> ListedTags] : m \in 0 .. n}
PreconditionQuestions ==
  {[probing |-> p, mustMatch |-> i, mayNotMatch |-> n, tag |-> t] :
     p \in BOOLEAN, i \in {{}} \cup {{l} : l \in TagLists(1)}, n \in {{}} \cup {{l} : l \in TagLists(1)}, t \in EntityTags}
  \cup {[probing |-> FALSE, mustMatch |-> {l}, mayNotMatch |-> {}, tag |-> t] : l \in TagLists(2), t \in EntityTags}
  \cup {[probing |-> FALSE, mustMatch |-> {}, mayNotMatch |-> {l}, tag |-> t] : l \in TagLists(2), t \in EntityTags}

UserCalls ==
  {[op |-> "add", name |-> "u1", password |-> "w1", groups |-> {1}],
   [op |-> "add", name |-> "u1", password |-> "w2", groups |-> {2}],
   [op |-> "add", name |-> "u2", password |-> "w1", groups |-> {1, 2}],
   [op |-> "remove", name |-> "u1"], [op |-> "remove", name |-> "u2"], [op |-> "clear", name |-> "none"]}
Histories == UNION {[1 .. n -> UserCalls] : n \in 0 .. 3}
UserQuestions ==
  {[history |-> h, denyByDefault |-> FALSE, credentials |-> {c}, asked |-> TRUE, groups |-> g] :
     h \in Histories, g \in {{1}, {2}},
     c \in {<<"basic">>, <<"bearer", <<"u1", "w1">>>>, <<"basic", <<"u1", "w1">>>>, <<"basic", <<"u1", "w2">>>>,
             <<"basic", <<"u2", "w1">>>>}}
  \cup {[history |-> h, denyByDefault |-> d, credentials |-> {}, asked |-> a, groups |-> {1}] :
           h \in UNION {[1 .. n -> UserCalls] : n \in 0 .. 1}, d \in BOOLEAN, a \in BOOLEAN}

Field(is, lo, hi) == [is |-> is, lo |-> lo, hi |-> hi]
AddressFields == {Field("any", 0, 0), Field("single", 1, 1), Field("padded", 1, 1), Field("range", 0, 1),
                  Field("range", 3, 2), Field("other", 0, 0)}
Formats == {<<f, Field("any", 0, 0), Field("single", 0, 0), g>> : f \in AddressFields, g \in AddressFields}
AddressQuestions ==
  [formats : {<<>>} \cup {<<f>> : f \in Formats} \cup {<<f, g>> : f \in Formats,
                g \in {<<Field("single", 2, 2), Field("any", 0, 0), Field("any", 0, 0), Field("range", 2, 0)>>,
                       <<Field("any", 0, 0)>>}},
   address : {<<k, 1, m, n>> : k \in 0 .. 3, m \in {0, 1}, n \in 0 .. 3}]

MCQuestions ==
  [parameters |-> ParameterQuestions, includes |-> IncludeQuestions, references |-> ReferenceQuestions,
   requests |-> RequestQuestions, state |-> StateQuestions, limits |-> LimitQuestions, time |-> TimeQuestions,
   text |-> TextQuestions, precondition |-> PreconditionQuestions, user |-> UserQuestions,
   address |-> AddressQuestions]
MCCacheNames == <<"c", "d", "dns">>
=============================================================================
