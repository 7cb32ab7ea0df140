------------------------------ MODULE MCServing ------------------------------
(***************************************************************************)
(* TLC instance of the parts that serve requests and share no state: a     *)
(* behaviour is the way of one request and its response between servers    *)
(* (HttpExchange), a file and the threads that read it through the caches  *)
(* (FileCaches), a table that is filled and written (TableOutput), one     *)
(* question to the library (Conversions, Startup), or the deletion of      *)
(* engines that hold each other (EngineTeardown).                          *)
(***************************************************************************)
EXTENDS HttpExchange, FileCaches, EngineTeardown, MCConversions, Startup

(* Queries and forms of up to two pairs, one of them a duplicate, a body    *)
(* that no length announces, a method the server does not know, and names   *)
(* that clients encode: two that a server decodes and one that it adds need *)
(* encoding when they are sent on.                                          *)
PlainPair  == SetToBag({<<"a", "plain">>})
SpacedPair == SetToBag({<<"a", "spaced">>})
SpacedTwice == SpacedPair (+) SpacedPair
CutPair    == SetToBag({<<"a%26b", "plain">>})
CutLater   == SetToBag({<<"a%2526b", "plain">>})
BlankPair  == SetToBag({<<"a%20b", "plain">>})

MCNames == {"a", "b", "a b", "a%20b", "a&b", "a%26b", "a%2526b", "a=b"}
MCDecoded ==
  ("a%2526b" :> "a%26b") @@ ("a%26b" :> "a&b") @@ ("a%20b" :> "a b") @@ [n \in MCNames |-> n]
MCCut     == ("a&b" :> <<"a", "b">>) @@ [n \in MCNames |-> <<n>>]
MCBefore  == ("a=b" :> "a") @@ [n \in MCNames |-> n]
MCAdded   == {<<"a", "plain">>, <<"b", "spaced">>, <<"a=b", "plain">>}

MCRequest(method, query, form, pairs, declares) ==
  LET body == [pairs |-> pairs, plus |-> TRUE]
  IN  [method |-> method, query |-> query, form |-> form, body |-> body,
       declared |-> IF declares THEN Length(body) ELSE None]

MCForeign ==
  {MCRequest("GET", pairs, FALSE, EmptyBag, FALSE) : pairs \in {EmptyBag, SpacedPair, SpacedTwice, CutLater, BlankPair}}
    \cup {MCRequest("GET", PlainPair, f, b, TRUE) : f \in BOOLEAN, b \in {EmptyBag, PlainPair}}
    \cup {MCRequest("POST", pairs, f, b, d) : pairs \in {EmptyBag, PlainPair}, f \in BOOLEAN,
                                          b \in {EmptyBag, SpacedTwice}, d \in BOOLEAN}
    \cup {MCRequest("POST", pairs, TRUE, SpacedPair, FALSE) : pairs \in {CutPair, BlankPair}}
    \cup {MCRequest(m, EmptyBag, FALSE, EmptyBag, FALSE) : m \in {"OPTIONS", "PUT"}}

NoExchange ==
  /\ phase = "none" /\ wire = NoWire /\ meant = EmptyBag
  /\ hop = 0 /\ arrived = 0 /\ request = NothingParsed /\ edited = FALSE /\ altered = FALSE
  /\ response = NoResponse /\ steps = 0 /\ handler = FALSE /\ bytes = 0 /\ log = <<>>

---------------------------------------------------------------------------
(* Two threads and a file that changes twice within two seconds, at any    *)
(* point between the steps of the threads.                                 *)

Symmetry == Permutations(Threads)

\* A file that nobody asks for.
NoFile ==
  /\ versions = <<[state |-> "valid", mtime |-> 1, since |-> 1]>> /\ clock = 1
  /\ age = CHOOSE a \in Ages : TRUE
  /\ asked = [t \in Threads |-> Idle] /\ answer = [t \in Threads |-> 0]
  /\ cache = NoEntry /\ jsonCache = NoEntry /\ job = [t \in Threads |-> NoJob]

\* No engines: a reactor that has never had one.
NoEngines ==
  /\ holds = [e \in Singleton |-> {}] /\ elsewhere = {} /\ toCopy = {} /\ overtaken = {} /\ singletons = {} /\ existing = {}
  /\ stage = "over" /\ passes = 0 /\ todo = {} /\ progress = FALSE /\ users = {}

---------------------------------------------------------------------------
(* Instances of Startup.  A letter has a capital, "Q".                      *)

\* The functions that may have a value for each of the names, and may not.
Partly(values) ==
  UNION {{f \in [S -> UNION {values[n] : n \in S}] : \A n \in S : f[n] \in values[n]} :
           S \in SUBSET DOMAIN values}

---------------------------------------------------------------------------
(* Two settings, one of a group that has the name of the first, and an     *)
(* element of an array; the environment has one of these names, too.       *)

Plain(x)  == <<"text", x>>
Var(path) == <<"var", path>>
Setting(path, is, text) ==
  [path |-> path, is |-> is, text |-> text, element |-> Last(path) = "[0]"]
VariableTexts ==
  {<<Plain("x")>>, <<Plain("x"), Var(<<"a">>)>>, <<Var(<<"b">>), Var(<<"b">>)>>, <<Var(<<"g", "a">>)>>,
   <<Var(<<"l", "[0]">>), Plain("y")>>, <<Var(<<"home">>)>>, <<Var(<<"other">>)>>, <<Plain("x"), <<"open">>>>}
VariableQuestions ==
  {[conf |-> <<Setting(<<"a">>, "string", t[1]), Setting(<<"b">>, is, t[2]),
               Setting(<<"g", "a">>, "string", t[3]), Setting(<<"l", "[0]">>, "string", t[4])>>,
    env |-> (<<"home">> :> <<Plain("h")>>) @@ (<<"a">> :> <<Plain("e")>>)] :
     t \in [1 .. 4 -> VariableTexts], is \in {"string"}}
  \cup {[conf |-> <<Setting(<<"b">>, "other", <<>>), Setting(<<"a">>, "string", t)>>, env |-> <<>>] : t \in VariableTexts}

---------------------------------------------------------------------------
(* Up to two overrides that are for this host, for others, for nobody or   *)
(* have forgotten for whom.                                                *)

MCHosts == {{}, {{}}, {{<<"Q">>}}, {{<<"x">>, <<"q", "1">>}}, {{<<"q", "1", "2">>}}}
ValueOf(type, value) == [type |-> type, value |-> value]
MCSettings(n) ==
  {<<>>, <<"n">> :> ValueOf("int", n), <<"n">> :> ValueOf("bool", TRUE), <<"n">> :> ValueOf("list", <<n, n + 1>>)}
Overrides == UNION {[1 .. n -> [hosts : MCHosts, settings : MCSettings(1)]] : n \in 0 .. 1}
             \cup {<<[hosts |-> h1, settings |-> s1], [hosts |-> h2, settings |-> s2]>> :
                     h1 \in MCHosts, h2 \in MCHosts, s1 \in MCSettings(1), s2 \in MCSettings(3)}
SettingQuestions ==
  [conf : [settings : {<<>>, <<"n">> :> ValueOf("int", 5), <<"n">> :> ValueOf("list", <<5>>)}, overrides : Overrides],
   host : {<<"q", "1">>}, name : {<<"n">>}, type : {"int", "bool"}, there : {<<0>>}]

---------------------------------------------------------------------------
(* A component with a file or a directory of its own, in the configuration *)
(* "/e/..." or one of the working directory.                               *)

ComponentFile == <<"p", "configfile">>
ComponentPath == <<"p", "configpath">>
GivenPaths(file, path) ==
  {[x \in DOMAIN f |-> ValueOf("string", f[x])] : f \in Partly(ComponentFile :> file @@ ComponentPath :> path)}
HostNamed == {<<"h">>, <<"h", ".">>, <<"h", ".", "d">>, <<"h", ".", "d", ".", "f">>}
FileQuestions ==
  LET all == GivenPaths({<<>>, <<"/", "c">>, <<"c">>}, {<<>>, <<"/", "d">>, <<"d">>})
      own == {<<>>} \cup {<<[hosts |-> h, settings |-> s]>> :
                h \in {{}, {{<<"h">>}}, {{<<"x">>}}}, s \in GivenPaths({<<"c">>, <<"/", "o">>}, {<<"d">>})}
      named(dir, S) == {Append(dir, h) : h \in S}
  IN UNION {{[conf |-> [settings |-> s, overrides |-> o], from |-> [x \in DOMAIN s |-> from], host |-> h,
              component |-> <<"p">>, directories |-> ds,
              files |-> named(<<"/", "d">>, names) \cup named(from \o <<"d">>, names)] :
               s \in all, from \in {<<>>, <<"/", "e">>}, h \in HostNamed,
               ds \in {{<<"/", "d">>, <<"d">>, <<"/", "e", "d">>}}, names \in SUBSET {<<"h">>, <<"h", ".", "d">>}} : o \in own}
     \cup {[conf |-> [settings |-> s, overrides |-> <<>>], from |-> [x \in DOMAIN s |-> <<"/", "e">>], host |-> <<"h">>,
            component |-> <<"p">>, directories |-> {}, files |-> {}] : s \in all}

---------------------------------------------------------------------------
(* Pairs of configurations of up to two settings.                          *)

DigestSettings ==
  {[path |-> p, type |-> "string", value |-> v] : p \in {<<"a">>, <<"b", "c">>, <<"c">>}, v \in {<<"1">>, <<"1", "b">>}}
  \cup {[path |-> p, type |-> "int", value |-> <<"1">>] : p \in {<<"a">>, <<"b", "c">>, <<"c">>}}
DigestConfs == {<<s>> : s \in DigestSettings}
               \cup {c \in DigestSettings \X DigestSettings : c[1].path # c[2].path}
DigestQuestions == DigestConfs \X DigestConfs

---------------------------------------------------------------------------
(* Options at their limits, on the command line and in the configuration.  *)

ConfiguredInts(values) ==
  {[overrides |-> <<>>, settings |-> [x \in {<<n>> : n \in DOMAIN f} |-> ValueOf("int", f[x[1]])]] : f \in Partly(values)}
MCThreads == {[n |-> n, percent |-> p] : n \in {-1, 0, 3, 20000}, p \in BOOLEAN}
NoFileOr(confs) == {{}} \cup {{c} : c \in confs}
Options(cmds, files) == [cmd : cmds, file : files, host : {<<"h">>}]
OptionQuestions ==
  Options(Partly([limit |-> {0, 30}, start |-> {0, 20, 200}, restart |-> {0, 5}]),
          NoFileOr(ConfiguredInts([limit |-> {0, 40}, maxactiverequests |-> {60}, start_limit |-> {0, 90},
                                   restart_limit |-> {70}])))
  \cup Options(Partly([rate |-> {0, 3}, compresslimit |-> {50, 500}]),
               NoFileOr(ConfiguredInts([increase_rate |-> {0, 4}, compresslimit |-> {50, 200}])))
  \cup Options(Partly([quiet |-> {TRUE}, stacktrace |-> {TRUE}]),
               NoFileOr({[overrides |-> <<>>, settings |-> [x \in DOMAIN f |-> ValueOf("bool", f[x])]] :
                           f \in Partly(<<"quiet">> :> BOOLEAN @@ <<"stacktrace">> :> BOOLEAN)}))
  \cup Options(Partly([threads |-> MCThreads]),
               NoFileOr({[overrides |-> o, settings |-> <<"maxthreads">> :> ValueOf("threads", t)] :
                           t \in MCThreads, o \in {<<>>, <<[hosts |-> {}, settings |-> <<>>]>>}}))

---------------------------------------------------------------------------
(* A configuration with a group, a list of groups, an array and texts that *)
(* redirect to each other, to what is not there or through a value.        *)

MCIndexes == <<"[0]", "[1]", "[2]">>
Holding(is, value) == [is |-> is, value |-> value]
Group(is) == Holding(is, <<>>)
RedirectTargets ==
  {<<"r">>, <<"s">>, <<"g", "x">>, <<"l", "[0]", "x">>, <<"a", "[1]">>, <<"a">>, <<"g", "none">>, <<"g", "x", "[0]">>, <<"l", "[2]">>, <<"l", "x">>}
ParameterConfs ==
  {<<>> :> Group("group") @@ <<"g">> :> Group("group") @@ <<"g", "x">> :> Holding("int", 1) @@ <<"g", "r">> :> Holding("redirect", t[3])
   @@ <<"l">> :> Group("list") @@ <<"l", "[0]">> :> Group("group") @@ <<"l", "[0]", "x">> :> Holding("string", <<"t">>)
   @@ <<"a">> :> Group("array") @@ <<"a", "[0]">> :> Holding("int", 2) @@ <<"a", "[1]">> :> Holding("int", 3)
   @@ <<"r">> :> Holding("redirect", t[1]) @@ <<"s">> :> Holding("redirect", t[2]) : t \in [1 .. 3 -> RedirectTargets]}
Parameters_(confs, starts, paths, types, mins) ==
  {[conf |-> c, start |-> s, path |-> p, type |-> t[1], default |-> t[2], min |-> m, max |-> 2] :
     c \in confs, s \in starts, p \in paths, t \in types, m \in mins}
IntOrText == {<<"int", 0>>, <<"string", <<"d">>>>}
SettingsByPath ==
  Parameters_(ParameterConfs, {<<>>}, {<<"r">>}, {<<"int", 0>>}, {0})
  \cup Parameters_({c \in ParameterConfs : c[<<"s">>].value = <<"g", "r">>  \/ c[<<"s">>].value = <<"g", "x">>}, {<<"g">>},
                   {<<"r">>, <<"x">>}, IntOrText, {0, 2})
  \cup Parameters_({CHOOSE c \in ParameterConfs : TRUE}, {<<>>, <<"g">>, <<"l">>}, RedirectTargets \cup {<<"x">>, <<"x", "y">>, <<"g", "x", "y">>, <<"[0]">>, <<"l", "[0]">>},
                   IntOrText, {0, 1, 2})

FileTexts == {<<>>, <<"f">>, <<"/", "f">>}
NameQuestions ==
  {[conf |-> c, dir |-> d, name |-> "n", default |-> e, min |-> 0, max |-> 2] :
     c \in {<<>> :> Group("group")}
           \cup {<<>> :> Group("group") @@ <<"n">> :> v : v \in {Holding("int", 1)} \cup {Holding("string", t) : t \in FileTexts}}
           \cup {<<>> :> Group("group") @@ <<"n">> :> Group("array") @@ <<"n", "[0]">> :> Holding("string", t) @@ <<"n", "[1]">> :> Holding("string", u) :
                    t \in FileTexts, u \in FileTexts},
     d \in {<<>>, <<"/", "e">>}, e \in FileTexts}

---------------------------------------------------------------------------
(* Up to two descriptions of coordinate systems, and one from WKT.         *)

MCCrsKeys == <<<<"epsg:", "0084">>, <<"q">>, <<"x">>>>
MCCodeText == 1 :> "0001" @@ 84 :> "0084" @@ 3067 :> "3067"
System(shift, crossed) == [shift |-> shift, crossed |-> crossed]
MCEpsgSystems == 84 :> System(<<0, 0>>, TRUE) @@ 3067 :> System(<<2, 1>>, FALSE)
MCProj4Systems == <<"+proj">> :> System(<<1, 0>>, FALSE)
Code84 == {<<"epsg:", "0084">>, <<"epsg::", "0084">>}
MCPatterns == <<"84">> :> Code84 @@ <<"xs">> :> {<<"x">>, <<"q", "z">>}
Description(fields) == [p \in {<<n>> : n \in DOMAIN fields} |-> fields[p[1]]] @@ (<<>> :> Group("group"))
DescribedAs(names, more) ==
  {Description([name |-> Holding("string", n), axisLabels |-> Holding("string", <<"l">>), projEpochUri |-> Holding("string", <<"u">>)] @@ f) :
     n \in names, f \in more}
ByCode(codes, flags) ==
  {("epsg" :> Holding("int", c)) @@ f : c \in codes, f \in flags}
ByProj4(defs, flags) ==
  {[proj4 |-> Holding("string", d), regex |-> Holding("string", <<"xs">>), projUri |-> Holding("string", <<"v">>)] @@ f : d \in defs, f \in flags}
GoodFlags == Partly([swapCoord |-> {Holding("bool", TRUE)}, showHeight |-> {Holding("bool", TRUE)}])
BadFlags  == {[swapCoord |-> Holding("int", 1)], [regex |-> Holding("string", <<"bad">>)], [projUri |-> Holding("int", 1)]}
Names_    == {<<"Q">>, <<"q">>, <<"x">>, <<"epsg:", "0084">>}
GoodFiles == DescribedAs(Names_, ByCode({84, 3067}, GoodFlags))
             \cup DescribedAs(Names_, ByProj4({<<"+proj">>}, Partly([swapCoord |-> {Holding("bool", TRUE)}, epsgCode |-> {Holding("int", 84)}])))
BadFiles  == DescribedAs({<<"x">>}, ByCode({84}, BadFlags) \cup ByCode({1}, {<<>>}) \cup ByProj4({<<"+none">>}, {<<>>})
                                    \cup ByProj4({<<"+proj">>}, {[epsgCode |-> Holding("bool", TRUE)]}))
             \cup {Description([name |-> Holding("string", <<"x">>), epsg |-> Holding("int", 84)])}
AskedNames == {<<"q">>, <<"Q">>, <<"q", "z">>, <<"Q", "z">>, <<"epsg::", "0084">>, <<"http://www.opengis.net/def/crs/epsg/", "0", "0084">>, <<"epsg:", "84">>}
Wkt(name, known) == [name |-> name, pattern |-> {<<"q", "z">>}, known |-> known]
MCTypes_ == [swapCoord |-> "bool", epsg |-> "int", showHeight |-> "int"]
Systems(files, wkts, memories, froms, tos) ==
  {[files |-> f, wkt |-> w, memory |-> m, from |-> a, to |-> b, types |-> MCTypes_, point |-> <<1, 2>>] :
     f \in files, w \in wkts, m \in memories, a \in froms, b \in tos}
SystemQuestions ==
  Systems({<<f, g>> : f \in GoodFiles, g \in {x \in GoodFiles : x[<<"name">>].value = <<"x">>}}, {{}}, {FALSE},
          {<<"Q">>, <<"epsg::", "0084">>}, {<<"x">>, <<"q", "z">>})
  \cup Systems({<<f>> : f \in GoodFiles \cup BadFiles}, {{}}, {FALSE}, AskedNames, {<<"x">>, <<"q">>})
  \cup Systems({<<f, g>> : f \in GoodFiles \cup BadFiles, g \in BadFiles}, {{}}, {FALSE}, {<<"q", "z">>}, {<<"q">>})
  \cup Systems({<<f>> : f \in GoodFiles}, {{Wkt(<<"Q">>, k)} : k \in {{}, {System(<<0, 2>>, TRUE)}}}, BOOLEAN, {<<"q">>, <<"q", "z">>}, {<<"x">>})

---------------------------------------------------------------------------
(* Texts in up to two of the languages "q", "f" and others.                *)

Languages_ == {"q", "Q", "f"}
Items(is, texts) ==
  UNION {[1 .. n -> {[name |-> l, is |-> i, text |-> t] : l \in Languages_, i \in {is}, t \in texts}] : n \in 0 .. 2}
Setting_(is, text, items) == [is |-> is, text |-> text, items |-> items]
LanguageQuestions ==
  [default : Languages_, language : {"q", "Q", "f", "other"}, array : {FALSE},
   setting : {Setting_("string", "t", <<>>), Setting_("other", "t", <<>>)}
             \cup {Setting_("group", "", i) : i \in Items("string", {"t1", "t2"})}
             \cup {Setting_("group", "", i) : i \in Items("other", {"t1"})}]
  \cup [default : Languages_, language : {"q", "Q", "other"}, array : {TRUE},
        setting : {Setting_("string", "t", <<>>)}
                  \cup {Setting_("group", "", i) : i \in Items("array", {<<"t1">>, <<"t2">>, <<"t1", "t2">>})}
                  \cup {Setting_("group", "", i) : i \in Items("string", {"t1"})}]

InLanguage(l, t, json) == [language |-> l, text |-> t, json |-> json]
ValueTexts(v) ==
  {[value |-> {v}, texts |-> t] :
     t \in {<<>>, <<InLanguage("q", "t1", TRUE)>>, <<InLanguage("en", "t2", TRUE), InLanguage("q", "t3", TRUE)>>}}
MCParameters(name) ==
  {[name |-> name, is |-> "list", values |-> vs] :
     vs \in UNION {[1 .. n -> ValueTexts(1) \cup ValueTexts(2)] : n \in 0 .. 2}}
BadParameters ==
  {[name |-> "x", is |-> "other", values |-> <<>>],
   [name |-> "x", is |-> "list", values |-> <<[value |-> {}, texts |-> <<>>]>>],
   [name |-> "x", is |-> "list", values |-> <<[value |-> {1}, texts |-> <<InLanguage("q", "t", FALSE)>>]>>]}
ParameterLists == {<<p>> : p \in MCParameters("Q") \cup BadParameters}
                  \cup {<<p, r>> : p \in {m \in MCParameters("Q") : Len(m.values) = 1},
                                   r \in {m \in MCParameters("q") : Len(m.values) = 1}}
Groups ==
  {[name |-> n, is |-> "group", items |-> i] :
     n \in {"Q", "q"},
     i \in {<<>>, <<[name |-> "q", is |-> "string", text |-> "t1"]>>}
           \cup {<<[name |-> "en", is |-> "string", text |-> "t1"], [name |-> l, is |-> "string", text |-> "t2"]>> : l \in Languages_}
           \cup {<<[name |-> "en", is |-> "array", text |-> <<"t1">>], [name |-> "q", is |-> "array", text |-> t]>> :
                   t \in {<<"t2">>, <<>>}}}
  \cup {[name |-> "x", is |-> "other", items |-> <<>>]}
TranslationQuestions ==
  [conf : [language : {{}, {"q"}, {"Q"}}, parameter_translations : {{}} \cup {{p} : p \in ParameterLists}, translations : {{}}]
          \cup [language : {{}}, parameter_translations : {{}, {<<>>}}, translations : {{p} : p \in ParameterLists}],
   groups : {<<>>}, name : {"Q", "x"}, value : {1}, language : {"q", "Q", "f"}]
  \cup [conf : {[language |-> {"q"}, parameter_translations |-> {}, translations |-> {}]},
        groups : UNION {[1 .. n -> Groups] : n \in 0 .. 2}, name : {"q", "Q"}, value : {1}, language : Languages_ \cup {"en"}]

---------------------------------------------------------------------------
(* Options of requests                                                     *)

OptionTexts == {Text("integer", <<n>>, "") : n \in {-1, 0, 5, 40}} \cup {Text("decimal", <<3>>, ""), Text("word", <<0>>, ""),
                 Text("nothing", <<0>>, ""), Text("iso", <<5>>, ""), Text("xml", <<30, 1>>, "Z")}
RequestOptions ==
  UNION {[kind : {k}, text : {{}} \cup {{t} : t \in OptionTexts}, default : {d}] :
           <<k, d>> \in {<<"int", 7>>, <<"size", 7>>, <<"unsigned_long", 7>>, <<"double", 7>>, <<"time", 7>>}}
  \cup [kind : {"bool"}, text : {{}} \cup {{t} : t \in OptionTexts}, default : {TRUE}]
  \cup [kind : {"char"}, text : {{}} \cup {{t} : t \in OptionTexts}, default : {<<"-">>}]
  \cup [kind : {"string"}, text : {{}} \cup {{t} : t \in OptionTexts}, default : {Text("word", <<1>>, "")}]

IntervalQuestions == {Text(f, <<n>>, u) : f \in {"integer", "word"}, n \in -32 .. 31, u \in {"", "m", "h", "d", "s"}}

AnyOf(kind, text) == [kind |-> kind, text |-> text, values |-> <<>>]
Anys == {AnyOf("empty", <<>>), AnyOf("string", <<>>), AnyOf("string", <<"x">>), AnyOf("number", <<"1">>), AnyOf("pair", <<"1", "2">>)}
AnyQuestions == Anys \cup {[kind |-> "vector", text |-> <<>>, values |-> v] : v \in UNION {[1 .. n -> Anys] : n \in 0 .. 3}}

---------------------------------------------------------------------------
MCAllQuestions ==
  MCQuestions @@
  [variables |-> VariableQuestions, setting |-> SettingQuestions, file |-> FileQuestions, digests |-> DigestQuestions,
   options |-> OptionQuestions, languages |-> LanguageQuestions, translations |-> TranslationQuestions,
   option |-> RequestOptions,
   path |-> SettingsByPath, names |-> NameQuestions, systems |-> SystemQuestions, interval |-> IntervalQuestions, any |-> AnyQuestions]

---------------------------------------------------------------------------

ServingInit ==
  \/ ExchangeInit   /\ NoFile /\ NoTable /\ NoQuestion /\ NoEngines
  \/ CachesInit     /\ NoExchange /\ NoTable /\ NoQuestion /\ NoEngines
  \/ Init           /\ NoExchange /\ NoFile /\ NoQuestion /\ NoEngines
  \/ ConversionInit /\ NoExchange /\ NoFile /\ NoTable /\ NoEngines
  \/ TeardownInit   /\ NoExchange /\ NoFile /\ NoTable /\ NoQuestion

ServingNext ==
  \/ phase # "none" /\ ExchangeNext /\ UNCHANGED <<cachesVars, vars, conversionVars, teardownVars>>
  \/ NoExchange /\ NoTable /\ NoQuestion /\ NoEngines /\ CachesNext
       /\ UNCHANGED <<exchangeVars, vars, conversionVars, teardownVars>>
  \/ scenario # NoScenario /\ Next /\ UNCHANGED <<exchangeVars, cachesVars, conversionVars, teardownVars>>
  \/ (ConversionNext \/ StartupNext) /\ UNCHANGED <<exchangeVars, cachesVars, vars, teardownVars>>
  \/ TeardownNext /\ UNCHANGED <<exchangeVars, cachesVars, vars, conversionVars>>

ServingSpec ==
  ServingInit /\ [][ServingNext]_<<exchangeVars, cachesVars, vars, conversionVars, teardownVars>>
=============================================================================
