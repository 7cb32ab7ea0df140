-------------------------------- MODULE Startup --------------------------------
(***************************************************************************)
(* Questions about what happens before the first request: the              *)
(* configuration is read and put to use.                                   *)
(***************************************************************************)
EXTENDS Conversions, Settings, CRSRegistry, Languages

\* The server reads its configuration, looks for a setting and a list of
\* settings, and for the configuration file of a component.
Configured(a) == ExpandVariables(a.conf, a.env)

Found(a) ==
  [setting |-> HostValue(a.conf, a.host, a.name, a.type),
   list    |-> HostSettings(a.conf, a.host, a.name, a.there)]

FoundFile(a) == ConfigFile(a.conf, a.from, a.host, a.component, a.files, a.directories)

Digests(a) == [k \in DOMAIN a |-> DigestInput(a[k])]

Started(a) == ParseServerOptions(a.cmd, a.file, a.host)

Said(a) ==
  LET m == IF a.array THEN MultiLanguageStringArray(a.default, a.setting)
           ELSE MultiLanguageString(a.default, a.setting)
  IN [made |-> m.ended, text |-> IF m.ended = "ok" THEN TextIn(m, a.language) ELSE Thrown_]

Translated(a) ==
  LET t == ReadTranslations(a.conf)
      s == ReadStrings(a.groups)
  IN [made    |-> t.ended,
      value   |-> IF t.ended = "ok" THEN Translation(t, a.name, a.value, a.language) ELSE {},
      read    |-> s.ended,
      strings |-> IF s.ended = "ok" THEN StringTranslation(s.strings, a.name, a.language) ELSE {},
      arrays  |-> IF s.ended = "ok" THEN StringTranslation(s.arrays, a.name, a.language) ELSE {}]

\* A plugin reads an option of a request.
Optional(a) ==
  [optional |-> OptionalValue(a.kind, a.text, a.default), required |-> RequiredValue(a.kind, a.text)]

\* A component reads a parameter, and the names of files.
Parameter(a) ==
  [optional  |-> OptionalParam(a.conf, a.start, a.path, a.type, a.default),
   mandatory |-> MandatoryParam(a.conf, a.start, a.path, a.type),
   array     |-> ConfigArray(a.conf, a.start, a.path, a.type, a.min, a.max)]

FilesNamed(a) ==
  [optional  |-> OptionalPath(a.conf, a.dir, a.name, a.default),
   mandatory |-> MandatoryPath(a.conf, a.dir, a.name),
   array     |-> MandatoryPathArray(a.conf, a.dir, a.name, a.min, a.max)]

\* Coordinate systems are read from a directory and registered from WKT, found
\* by name and used.
WithWkt(a, registry) ==
  IF a.wkt = {} THEN registry
  ELSE LET w == Sole(a.wkt) IN RegisterWkt(registry, w.name, w.pattern, w.known, a.memory).registry

Used(a, read, all) ==
  [read |-> read, registry |-> all,
   from |-> GetEntry(all, a.from), to |-> GetEntry(all, a.to),
   attributes |-> [n \in DOMAIN a.types |-> GetAttribute(all, a.from, n, a.types[n])],
   point |-> TransformPoint(all, a.from, a.to, a.point),
   box   |-> ConvertBox(all, [low |-> a.point, high |-> <<a.point[1] + 1, a.point[2] + 2>>, crs |-> a.from], a.to)]

UsedAfter(a, read) == Used(a, read.ended, WithWkt(a, read.registry))

Transformed(a) == UsedAfter(a, ReadDefinitions(a.files))

StartupNext ==
  \/ Answer("variables", Configured)
  \/ Answer("setting", Found)
  \/ Answer("file", FoundFile)
  \/ Answer("digests", Digests)
  \/ Answer("options", Started)
  \/ Answer("path", Parameter)
  \/ Answer("names", FilesNamed)
  \/ Answer("systems", Transformed)
  \/ Answer("languages", Said)
  \/ Answer("translations", Translated)
  \/ Answer("option", Optional)
  \/ Answer("interval", DurationToMinutes)
  \/ Answer("any", AnyToText)

---------------------------------------------------------------------------
(* The configuration                                                       *)

\* Where a variable that is not the setting's own name leads.
Named(conf, setting, var) ==
  IF var = LocalName(setting) THEN {} ELSE {s \in Range(conf) : s.path = var}
VariablesOf(text) == {text[k][2] : k \in {m \in DOMAIN text : text[m][1] = "var"}}
RECURSIVE Mentioned(_, _, _)
Mentioned(conf, setting, vars) ==
  LET more == vars \cup UNION {UNION {VariablesOf(s.text) : s \in Named(conf, setting, v)} : v \in vars}
  IN IF more = vars THEN vars ELSE Mentioned(conf, setting, more)

RECURSIVE Meant(_, _, _)
Meant(conf, env, text) ==
  FlattenSeq([k \in DOMAIN text |->
    IF text[k][1] = "text" THEN <<text[k]>>
    ELSE LET named == {s \in Range(conf) : s.path = text[k][2]}
         IN Meant(conf, env, IF named = {} THEN env[text[k][2]] ELSE Sole(named).text)])

\* Where no setting has a variable of its own name, the configuration is read
\* exactly when every variable that is met on the way is a text of the
\* configuration or else of the environment, is closed and does not lead back
\* to itself; each text is then what it means with everything put in, in
\* whatever order the settings stand.
VariablesArePutIn ==
  Asks("variables") =>
    LET conf == arg.conf
        texts == {s \in Range(conf) : s.is = "string"}
        met(s) == Mentioned(conf, s, VariablesOf(s.text))
        own   == \E s \in texts : LocalName(s) \in met(s)
        good(v) == \/ \E s \in Range(conf) : s.path = v /\ s.is = "string"
                   \/ (\A s \in Range(conf) : s.path # v) /\ v \in DOMAIN arg.env
        open  == \E s \in texts : \E k \in DOMAIN s.text : s.text[k][1] = "open"
        back  == \E s \in texts : \E v \in VariablesOf(s.text) : \E r \in texts :
                   r.path = v /\ v \in met(r)
    IN ~own =>
         /\ (result.ended = "ok") =
              (~open /\ ~back /\ \A s \in texts : \A v \in met(s) : good(v))
         /\ result.ended = "endless" => back
         /\ result.ended = "ok" =>
              \A k \in DOMAIN conf : conf[k].is = "string" =>
                result.conf[k].text = Meant(conf, arg.env, conf[k].text)

\* The first override that ends the search: it is for the host and has a
\* setting of one of the types, or its hosts were forgotten.
Ending(types) ==
  LET all == arg.conf.overrides
      begins(h) == Len(h) <= Len(arg.host) /\ \A k \in DOMAIN h : Small(h[k]) = Small(arg.host[k])
      ends == {k \in DOMAIN all :
                 \/ all[k].hosts = {}
                 \/ /\ \E h \in Sole(all[k].hosts) : begins(h)
                    /\ arg.name \in DOMAIN all[k].settings /\ all[k].settings[arg.name].type \in types}
  IN {all[k] : k \in {m \in ends : \A n \in ends : m <= n}}

\* Whoever reads a setting is told what the first override for the host that
\* has it with that type says, else what is said for all hosts: one that comes
\* later, is for others or has another type makes no difference, one without
\* hosts only where it is reached.  A list grows by the elements of the first
\* setting of that name, whatever its type: a single value hides a list.
SettingsAreForTheHost ==
  Asks("setting") =>
    LET told(types) == IF Ending(types) = {} THEN arg.conf.settings ELSE Sole(Ending(types)).settings
        stopped(types) == \E o \in Ending(types) : o.hosts = {}
        has(types) == arg.name \in DOMAIN told(types) /\ told(types)[arg.name].type \in types
        single == {arg.type}
    IN /\ (result.setting.ended = "throw") = stopped(single)
       /\ (result.list.ended = "throw") = stopped(Types)
       /\ ~stopped(single) =>
            result.setting.value = IF has(single) THEN {told(single)[arg.name].value} ELSE {}
       /\ ~stopped(Types) =>
            result.list.value = arg.there \o IF has(Types) /\ told(Types)[arg.name].type = "list"
                                            THEN told(Types)[arg.name].value ELSE <<>>

\* A file found in the directory of a component is the one with the longest
\* name that is the host's, cut at a dot; a file given by name is absolute or
\* next to the file that gives it.  Nothing is found only when nothing was
\* said, or not a directory.  An exception tells that the host has no file
\* there, or an override lacks its hosts, or a relative name cannot be placed
\* since only an override gives one.
FilesAreForTheHost ==
  Asks("file") =>
    LET file == arg.component \o <<"configfile">>
        path == arg.component \o <<"configpath">>
        given == HostValue(arg.conf, arg.host, file, "string").value
        cut(k) == SubSeq(arg.host, 1, k)
        whole(k) == k = Len(arg.host) \/ arg.host[k + 1] = "."
        listed == {x.value : x \in Typed(arg.conf.settings, path, {"string"})}
        dir  == Sole(listed)
        in   == IF dir[1] = "/" THEN dir ELSE arg.from[path] \o dir
    IN /\ result.ended = "ok" /\ given # {} =>
            \E name \in given : Sole(result.value) = IF name[1] = "/" THEN name ELSE arg.from[file] \o name
       /\ result.ended = "ok" /\ given = {} =>
            \E k \in DOMAIN arg.host :
              /\ whole(k) /\ Sole(result.value) = Append(in, cut(k)) /\ Sole(result.value) \in arg.files
              /\ \A m \in k + 1 .. Len(arg.host) : whole(m) => Append(in, cut(m)) \notin arg.files
       /\ result.ended = "false" =>
            \/ given = {<<>>}
            \/ given = {} /\ (listed \in {{}, {<<>>}} \/ in \notin arg.directories)
       /\ result.ended = "throw" =>
            \/ \E k \in DOMAIN arg.conf.overrides : arg.conf.overrides[k].hosts = {}
            \/ \E name \in given : name # <<>> /\ name[1] # "/" /\ file \notin DOMAIN arg.conf.settings
            \/ given = {} /\ \A k \in DOMAIN arg.host : whole(k) => Append(in, cut(k)) \notin arg.files

\* Configurations of one digest are the same, unless each has a text that
\* another setting follows: where the text ends and the name begins is not
\* part of the digest.
DigestsTellApart ==
  Asks("digests") /\ result[1] = result[2] =>
    \/ arg[1] = arg[2]
    \/ \A c \in {arg[1], arg[2]} : \E k \in 1 .. Len(c) - 1 : c[k].type = "string"

\* The server starts only with options that the throttle can work with.  Each
\* is what the command line says, else the configuration (under the new name
\* before the old one), else the default; the limit to start with is no
\* higher than the limit.  The limit to go back to is by default what the
\* configuration starts with, also when that was lowered; it alone may be
\* zero.  The exception is the switch for quiet: the command line's goes
\* unheard, and the one for the stack trace stands for it.
OptionsAreHeeded ==
  Asks("options") =>
    LET conf == IF arg.file = {} THEN [k \in {} |-> 0] ELSE Sole(arg.file).settings
        o == result.options
        either(inCmd, inFile, default) ==
          IF inCmd \in DOMAIN arg.cmd THEN arg.cmd[inCmd]
          ELSE IF inFile \in DOMAIN conf THEN conf[inFile].value ELSE default
        limit == either("limit", <<"limit">>, either("limit", <<"maxactiverequests">>, 100))
        start == either("start", <<"start_limit">>, 50)
        rate  == either("rate", <<"increase_rate">>, 10)
        size  == either("compresslimit", <<"compresslimit">>, 1000)
        back  == CASE "restart" \in DOMAIN arg.cmd -> arg.cmd.restart
                   [] "restart" \notin DOMAIN arg.cmd /\ arg.file = {} -> 50
                   [] OTHER -> IF <<"restart_limit">> \in DOMAIN conf THEN conf[<<"restart_limit">>].value
                               ELSE IF <<"start_limit">> \in DOMAIN conf THEN conf[<<"start_limit">>].value
                               ELSE Smaller(IF "start" \in DOMAIN arg.cmd THEN arg.cmd.start ELSE 50,
                                            IF "limit" \in DOMAIN arg.cmd THEN arg.cmd.limit ELSE 100)
        trace == <<"stacktrace">> \in DOMAIN conf /\ conf[<<"stacktrace">>].value
    IN /\ result.ended = "ok" => /\ o.limit = limit /\ o.start = Smaller(start, limit) /\ o.rate = rate
                                 /\ o.start \in 1 .. o.limit /\ o.rate > 0
                                 /\ o.restart = back /\ o.compresslimit = size
                                 /\ o.quiet = ("stacktrace" \in DOMAIN arg.cmd \/ trace)
                                 /\ o.threads <= MaxThreads
       /\ 0 \in {limit, start, rate} => result.ended = "throw"
       /\ result.ended = "throw" =>
            \/ 0 \in {limit, start, rate} \/ size < 100 \/ o.threads > MaxThreads
            \/ \E f \in arg.file : \E k \in DOMAIN f.overrides : f.overrides[k].hosts = {}

\* Where a parameter's path leads after n redirections, each to a path from
\* the root; nowhere, or through a setting that has no parts of that name.
RECURSIVE LeadsTo(_, _)
LeadsTo(path, n) ==
  LET here == IF path \in DOMAIN arg.conf THEN {path} ELSE {}
  IN IF n = 0 THEN here
     ELSE UNION {LeadsTo(arg.conf[p].value, n - 1) : p \in {q \in here : arg.conf[q].is = "redirect"}}

\* A parameter is found where its path leads after no more redirections than
\* are followed.  Then it makes no difference whether it has to be there, and
\* as an array it has just its value; otherwise a mandatory one is an
\* exception, and the default of an optional one hides neither a circle nor a
\* path through a value, nor a value of another type.
ParametersAreFound ==
  Asks("path") =>
    LET conf == arg.conf
        from(n) == LeadsTo(arg.start \o arg.path, n)
        ends    == {p \in UNION {from(n) : n \in 0 .. MaxRedirections + 1} : conf[p].is # "redirect"}
        long    == from(MaxRedirections + 2) # {}
        last    == CHOOSE n \in 0 .. MaxRedirections + 1 : from(n) # {} /\ from(n + 1) = {}
        way     == IF from(0) = {} THEN arg.start \o arg.path ELSE conf[Sole(from(last))].value
        stops   == \E k \in 0 .. Len(way) - 1 :
                     /\ SubSeq(way, 1, k) \in DOMAIN conf /\ SubSeq(way, 1, k + 1) \notin DOMAIN conf
                     /\ \/ Scalar(conf[SubSeq(way, 1, k)])
                        \/ (conf[SubSeq(way, 1, k)].is = "group") = (way[k + 1] \in Range(Indexes))
        typed   == {conf[p].value : p \in {q \in ends : conf[q].is = arg.type}}
    IN /\ result.mandatory = [ended |-> IF typed = {} THEN "throw" ELSE "ok", value |-> typed]
       /\ typed # {} => result.optional = result.mandatory
       /\ result.optional.ended = "throw" <=> typed = {} /\ (ends # {} \/ long \/ stops)
       /\ typed = {} /\ result.optional.ended = "ok" => result.optional.value = {arg.default} /\ result.array.ended = "none"
       /\ typed # {} => result.array = IF 1 \in arg.min .. arg.max
                                       THEN [ended |-> "ok", value |-> {<<v>> : v \in typed}] ELSE NoValue("throw")
       /\ \A v \in result.array.value : \E p \in ends :
            /\ Len(v) \in arg.min .. arg.max
            /\ conf[p].is = "array" =>
                 /\ \A k \in DOMAIN v : conf[Append(p, Indexes[k])].value = v[k]
                 /\ Append(p, Indexes[Len(v) + 1]) \notin DOMAIN conf

\* The name of a file is absolute or relative to the configuration file, that
\* is, to its directory if it has one; an empty one is none.  Except that a
\* mandatory one that is empty is the directory, and one of an array without a
\* directory is in the root.
FilesAreNextToTheirConfiguration ==
  Asks("names") =>
    LET said == {arg.conf[p].value : p \in {q \in DOMAIN arg.conf : q = <<arg.name>> /\ ~(arg.conf[q].is \in {"int", "array"})}}
        place(v, dir) == IF v # <<>> /\ v[1] = "/" THEN v ELSE dir \o v
        optional == Or(said, arg.default)
    IN /\ result.optional = IF optional = <<>> THEN <<>> ELSE place(optional, arg.dir)
       /\ (result.mandatory.ended = "ok") = (said # {})
       /\ result.mandatory.value = {place(v, arg.dir) : v \in said}
       /\ \A paths \in result.array.value : \A k \in DOMAIN paths :
            LET given == arg.conf[IF said = {} THEN <<arg.name, Indexes[k]>> ELSE <<arg.name>>].value
            IN /\ given # <<>> /\ arg.dir # <<>> => paths[k] = place(given, arg.dir)
               /\ given # <<>> /\ arg.dir = <<>> /\ given[1] # "/" => paths[k] = <<"/">> \o given

\* What a description says of a system, by itself.
Says(conf, name, types) == <<name>> \in DOMAIN conf /\ conf[<<name>>].is \in types
Describes(conf) ==
  /\ \A n \in {"name", "axisLabels", "projEpochUri"} : Says(conf, n, {"string"})
  /\ \A n \in {"regex", "projUri"} : <<n>> \in DOMAIN conf => Says(conf, n, {"string"})
  /\ \A n \in {"swapCoord", "showHeight"} : <<n>> \in DOMAIN conf => Says(conf, n, {"bool"})
  /\ <<"regex">> \in DOMAIN conf => conf[<<"regex">>].value \in DOMAIN Patterns
  /\ IF <<"epsg">> \in DOMAIN conf THEN Says(conf, "epsg", {"int"}) /\ conf[<<"epsg">>].value \in DOMAIN EpsgSystems
     ELSE /\ \A n \in {"proj4", "regex", "projUri"} : <<n>> \in DOMAIN conf
          /\ Says(conf, "proj4", {"string"}) /\ conf[<<"proj4">>].value \in DOMAIN Proj4Systems
CodeIsWrong(conf) == <<"epsg">> \notin DOMAIN conf /\ <<"epsgCode">> \in DOMAIN conf /\ ~Says(conf, "epsgCode", {"int"})

\* x comes first in the coordinates of a system that is described.
SystemMeant(conf) ==
  LET system == IF <<"epsg">> \in DOMAIN conf THEN EpsgSystems[conf[<<"epsg">>].value] ELSE Proj4Systems[conf[<<"proj4">>].value]
  IN [shift |-> system.shift, crossed |-> FALSE]

\* Coordinates of a place as those who use an entry write them.
AsWritten(entry, place) ==
  Swapped(entry.swap # entry.cs.crossed, [k \in 1 .. 2 |-> place[k] + entry.cs.shift[k]])

\* The descriptions are read in any order to the same end, unless one of them
\* is wrong: then there are those that came before it, and it itself without
\* its attributes if only its code is.  A system is found by its name in any
\* case, else by a pattern, and keeps its attributes.  A point that is
\* transformed is the same place as the one that is given, each as its system
\* writes it; a box too, except that it is never swapped.
SystemsAreFound ==
  Asks("systems") =>
    LET files == arg.files
        name(k) == LowerName(files[k][<<"name">>].value)
        fine(k) == Describes(files[k]) /\ \A m \in 1 .. k - 1 : name(m) # name(k)
        bad     == {k \in DOMAIN files : ~fine(k) \/ CodeIsWrong(files[k])}
        before  == {k \in DOMAIN files : \A b \in bad : k < b}
        torn    == {k \in bad : (\A b \in bad : k <= b) /\ fine(k)}
        own     == {LowerName(w.name) : w \in {x \in arg.wkt : x.known # {}}}
        all     == result.registry
        entry(found) == all[Sole(found)]
        place   == CHOOSE p \in (-4 .. 4) \X (-4 .. 4) : AsWritten(entry(result.from), p) = arg.point
        meant(asked) ==
          {k \in DOMAIN all : (IF OpenGis(asked) THEN {LowerName(asked), <<"epsg::", Last(asked)>>} ELSE {LowerName(asked)})
                                \cap all[k].pattern # {}}
        first(S) == {k \in S : \A m \in S : \E i, j \in DOMAIN CrsKeys : i <= j /\ CrsKeys[i] = k /\ CrsKeys[j] = m}
    IN /\ (result.read = "ok") = (bad = {})
       /\ DOMAIN all = {name(k) : k \in before \cup torn} \cup own
       /\ \A k \in before : \A n \in {"axisLabels", "projEpochUri"} : all[name(k)].attributes[n].value = files[k][<<n>>].value
       /\ \A k \in before : \A n \in {"swapCoord", "showHeight"} :
            all[name(k)].attributes[n].value = (<<n>> \in DOMAIN files[k] /\ files[k][<<n>>].value)
       /\ \A k \in before \cup torn : all[name(k)].cs = SystemMeant(files[k])
       /\ \A w \in arg.wkt : \A c \in w.known : \/ \E k \in before \cup torn : name(k) = LowerName(w.name)
                                             \/ all[LowerName(w.name)].cs = c
       /\ \A k \in before :
            LET codes == {files[k][<<n>>].value : n \in {m \in {IF Says(files[k], "epsg", {"int"}) THEN "epsg" ELSE "epsgCode"} :
                                                         <<m>> \in DOMAIN files[k]}}
            IN {all[name(k)].attributes[n].value : n \in {"epsg"} \cap DOMAIN all[name(k)].attributes} = codes
       /\ \A k \in torn : "showHeight" \notin DOMAIN all[name(k)].attributes
       /\ \A asked \in {arg.from, arg.to} :
            (IF asked = arg.from THEN result.from ELSE result.to)
              = IF LowerName(asked) \in DOMAIN all THEN {LowerName(asked)} ELSE first(meant(asked))
       /\ \A n \in DOMAIN arg.types :
            result.attributes[n].value
              = {a.value : a \in {x \in {entry({f}).attributes[n] : f \in {g \in result.from : n \in DOMAIN all[g].attributes}} :
                                  x.type = arg.types[n]}}
       /\ (result.point.ended = "ok") = (result.from # {} /\ result.to # {})
       /\ \A p \in result.point.value : p = AsWritten(entry(result.to), place)
       /\ \A b \in result.box.value :
            ~entry(result.from).swap /\ ~entry(result.to).swap => b.low = Sole(result.point.value)

---------------------------------------------------------------------------
(* Languages                                                               *)

\* The last of the items of a language, whatever the case of its name.
Under(items, language) ==
  LET same == {k \in DOMAIN items : Small(items[k].name) = Small(language)}
  IN {items[k].text : k \in {m \in same : \A n \in same : n <= m}}

\* A text in several languages is made exactly when it is in the default one,
\* and is found in every language asked for, in that one or the default one;
\* except a text alone whose default language has a capital, which is never
\* found again, and an array whose default language has one, which is never
\* made.
EveryLanguageHasAText ==
  Asks("languages") =>
    LET s == arg.setting
        capital == Small(arg.default) # arg.default
        alike == \A k \in DOMAIN s.items : s.items[k].is = IF arg.array THEN "array" ELSE "string"
        long  == arg.array => \A k, m \in DOMAIN s.items : Len(s.items[k].text) = Len(s.items[m].text)
        mine  == Under(s.items, arg.language)
    IN /\ (result.made = "ok") =
            \/ s.is = "string" /\ ~arg.array
            \/ s.is = "group" /\ alike /\ long /\ Under(s.items, arg.default) # {} /\ ~(arg.array /\ capital)
       /\ result.made = "ok" =>
            /\ (result.text.ended = "ok") = (s.is = "group" \/ ~capital)
            /\ s.is = "string" /\ ~capital => result.text.text = s.text
            /\ s.is = "group" =>
                 {result.text.text} = IF mine # {} THEN mine ELSE Under(s.items, arg.default)

\* The value of a parameter is translated into the language as it is written,
\* else into the default language; a text of its own name only into the
\* language itself, and only under a name without capitals.
TranslationsAreFound ==
  Asks("translations") /\ result.made = "ok" =>
    LET params == Or(arg.conf.parameter_translations, Or(arg.conf.translations, <<>>))
        texts(l) == {<<p, v, t>> \in (DOMAIN params) \X (1 .. 2) \X (1 .. 2) :
                       /\ Small(params[p].name) = Small(arg.name)
                       /\ v \in DOMAIN params[p].values /\ params[p].values[v].value = {arg.value}
                       /\ t \in DOMAIN params[p].values[v].texts
                       /\ params[p].values[v].texts[t].language = l}
        said(l) == {params[x[1]].values[x[2]].texts[x[3]].text : x \in texts(l)}
        default == Or(arg.conf.language, "en")
        of(array) == {k \in DOMAIN arg.groups : /\ Small(arg.groups[k].name) = arg.name
                                                /\ arg.groups[k].items # <<>>
                                                /\ (arg.groups[k].items[1].is = "array") = array}
        last(array) == CHOOSE k \in of(array) : \A m \in of(array) : m <= k
        written(array) == IF of(array) = {} \/ Small(arg.language) # arg.language THEN {}
                          ELSE Under(arg.groups[last(array)].items, arg.language)
    IN /\ result.value # {} <=> said(arg.language) \cup said(default) # {}
       /\ result.value \subseteq IF said(arg.language) # {} THEN said(arg.language) ELSE said(default)
       /\ result.read = "ok" => result.strings = written(FALSE) /\ result.arrays = written(TRUE)

---------------------------------------------------------------------------
(* Options of requests                                                     *)

\* An option that is there means the same whether it has to be or not, and is
\* what its text says; one that is not there is the default, or refused.  A
\* truth value is a number other than zero, a character the first of a text.
OptionsMeanTheirTexts ==
  Asks("option") =>
    /\ arg.text = {} => result = [optional |-> {arg.default}, required |-> {}]
    /\ arg.text # {} =>
         LET t == Only(arg.text)
         IN /\ result.optional = result.required
            /\ \A x \in result.required :
                 CASE arg.kind \in {"int", "size", "unsigned_long"} -> t.form = "integer" /\ t.n[1] = x
                   [] arg.kind = "double" -> IsNumber(t) /\ Meaning(t) = x
                   [] arg.kind = "bool"   -> t.form = "integer" /\ x = (t.n[1] # 0)
                   [] arg.kind = "time"   -> t.form \in {"iso", "xml"}
                   [] arg.kind = "char"   -> t.form # "nothing" /\ x = <<"first of", t>>
                   [] arg.kind = "string" -> x = t

\* An interval is that many minutes, if these fit an integer.
IntervalsAreMinutes ==
  Asks("interval") /\ result # {} =>
    LET minutes == arg.n[1] * CASE arg.tag \in {"", "m"} -> 1
                                [] arg.tag = "h" -> HourSeconds \div MinuteSeconds
                                [] arg.tag = "d" -> DaySeconds \div MinuteSeconds
    IN minutes \in -(2 ^ (OffsetBits - 1)) .. 2 ^ (OffsetBits - 1) - 1 => result = {minutes}

\* The elements of a text that a vector was written as, between brackets and
\* blanks.
RECURSIVE Elements(_)
Elements(s) ==
  IF ~Contains(s, " ") THEN <<s>>
  ELSE LET k == CHOOSE k \in DOMAIN s : s[k] = " " /\ \A m \in 1 .. k - 1 : s[m] # " "
       IN <<SubSeq(s, 1, k - 1)>> \o Elements(SubSeq(s, k + 1, Len(s)))

\* A vector of several values is read back from its text, unless it begins
\* with empty ones: they leave no blank behind.  Nothing but a text is ever
\* written as nothing.
VectorsReadBack ==
  Asks("any") =>
    /\ result = <<>> => arg.kind = "string"
    /\ arg.kind = "vector" /\ Len(arg.values) > 1 =>
         LET inside == SubSeq(result, 2, Len(result) - 1)
             texts  == [k \in DOMAIN arg.values |-> AnyToText(arg.values[k])]
         IN (Elements(inside) = texts) = (texts[1] # <<>>)

---------------------------------------------------------------------------
\* The texts of configurations, command lines and requests are put to the use
\* they are meant for.
TextsAreHeeded ==
  /\ ValuesKeepTheirMeaning
  /\ VariablesArePutIn /\ SettingsAreForTheHost /\ FilesAreForTheHost /\ DigestsTellApart
  /\ OptionsAreHeeded /\ ParametersAreFound /\ FilesAreNextToTheirConfiguration /\ SystemsAreFound
  /\ EveryLanguageHasAText /\ TranslationsAreFound
  /\ OptionsMeanTheirTexts /\ IntervalsAreMinutes /\ VectorsReadBack

=============================================================================
