------------------------------- MODULE Settings -------------------------------
(***************************************************************************)
(* What the server reads before it starts: settings with values of their   *)
(* own for hosts, variables in them, configuration files found by the name *)
(* of the host, the digest of a configuration (src/spine/ConfigTools), and *)
(* the options of the command line over those of the configuration         *)
(* (src/spine/Options.cpp).                                                *)
(*                                                                         *)
(* Names of hosts, files and settings are sequences, cut where the code    *)
(* may compare or cut them.  What may be missing is a set of at most one   *)
(* value; an exception is an outcome of its own.                           *)
(***************************************************************************)
EXTENDS Integers, Sequences, FiniteSets, SequencesExt, Letters

CONSTANTS MaxExpansions,  \* more than any text needs that does not refer to itself
          Cores           \* hardware_concurrency()

ASSUME SettingsAssumption == {MaxExpansions, Cores} \subseteq Nat \ {0}

Sole(s) == CHOOSE x \in s : TRUE
Or(s, default) == IF s = {} THEN default ELSE Sole(s)
Smaller(m, n) == IF m < n THEN m ELSE n
Largest(m, n)  == IF m < n THEN n ELSE m
LeastOf(S) == CHOOSE k \in S : \A m \in S : k <= m

---------------------------------------------------------------------------
(* Variables.  A text is a sequence of <<"text", x>>, <<"var", path>> and  *)
(* <<"open">>, a "$(" that nothing closes.  A setting is [path, is, text]; *)
(* it is "string" or "other", and an element of an array has no name.      *)

LocalName(setting) == IF setting.element THEN <<>> ELSE <<Last(setting.path)>>
Variables(text) == {k \in DOMAIN text : text[k][1] # "text"}

\* The value of a variable, unless it is the setting's own name, comes from
\* the configuration as it is by now, else from the environment.
VariableValue(conf, env, setting, var) ==
  LET found == {s \in Range(conf) : s.path = var}
  IN IF var # LocalName(setting) /\ found # {}
     THEN IF Sole(found).is = "string" THEN {Sole(found).text} ELSE {}
     ELSE IF var \in DOMAIN env THEN {env[var]} ELSE {}

\* Fault: a text that comes from a variable is not looked at again.
ExpandedOnce(conf, env, setting) ==
  LET value(t) == IF t[1] = "open" THEN {}
                  ELSE VariableValue(conf, env, setting, t[2])
      texts == [k \in DOMAIN setting.text |->
                  IF setting.text[k][1] = "text" THEN {<<setting.text[k]>>} ELSE value(setting.text[k])]
  IN IF \E k \in DOMAIN texts : texts[k] = {} THEN [ended |-> "throw", text |-> setting.text]
     ELSE [ended |-> "ok", text |-> FlattenSeq([k \in DOMAIN texts |-> Sole(texts[k])])]

\* The first variable is replaced by its value until there is none; "endless"
\* stands for a loop that does not end.
Expanded(conf, env, setting) ==
  LET step(s) ==
        LET first == LeastOf(Variables(s.text))
            value == IF s.text[first][1] = "open" THEN {}
                     ELSE VariableValue(conf, env, setting, s.text[first][2])
        IN IF value = {} THEN [s EXCEPT !.ended = "throw"]
           ELSE [s EXCEPT !.text = SubSeq(@, 1, first - 1) \o Sole(value)
                                     \o SubSeq(@, first + 1, Len(@))]
      last == FoldLeft(LAMBDA s, k : IF s.ended = "throw" \/ Variables(s.text) = {} THEN s ELSE step(s),
                       [ended |-> "ok", text |-> setting.text], [k \in 1 .. MaxExpansions |-> k])
  IN IF last.ended = "ok" /\ Variables(last.text) # {} THEN [last EXCEPT !.ended = "endless"] ELSE last

\* expandVariables(): the settings one after the other, in place.
ExpandVariables(conf, env) ==
  FoldLeft(LAMBDA s, k :
             IF s.ended # "ok" \/ conf[k].is # "string" THEN s
             ELSE LET e == Expanded(s.conf, env, s.conf[k])
                  IN [ended |-> e.ended, conf |-> [s.conf EXCEPT ![k].text = e.text]],
           [ended |-> "ok", conf |-> conf], [k \in DOMAIN conf |-> k])

---------------------------------------------------------------------------
(* Settings with values for hosts.  A configuration has settings, from     *)
(* names to [type, value], and overrides: [hosts, settings], where hosts,  *)
(* the names that a host's may begin with, may have been forgotten.        *)

Types == {"int", "bool", "string", "threads", "list"}

Typed(settings, name, types) ==
  IF name \in DOMAIN settings /\ settings[name].type \in types THEN {settings[name]} ELSE {}

IsFor(override, host) ==
  \E h \in Sole(override.hosts) :
    IsPrefix([k \in DOMAIN h |-> Small(h[k])], [k \in DOMAIN host |-> Small(host[k])])

\* The overrides for the host that have such a setting, and those without hosts.
HostsForgotten(conf) == {k \in DOMAIN conf.overrides : conf.overrides[k].hosts = {}}
Fitting(conf, host, name, types) ==
  {k \in DOMAIN conf.overrides \ HostsForgotten(conf) :
     IsFor(conf.overrides[k], host) /\ Typed(conf.overrides[k].settings, name, types) # {}}

\* The first override for the host that has the setting, else the setting for
\* all hosts.  An override without its hosts is an exception when it is reached.
HostSetting(conf, host, name, types) ==
  LET ends  == HostsForgotten(conf) \cup Fitting(conf, host, name, types)
      first == LeastOf(ends)
  IN CASE ends = {} -> [ended |-> "ok", setting |-> Typed(conf.settings, name, types)]
       [] first \in HostsForgotten(conf) -> [ended |-> "throw", setting |-> {}]
       [] OTHER -> [ended |-> "ok", setting |-> Typed(conf.overrides[first].settings, name, types)]

\* lookupHostSetting(): a value of the type asked for.
HostValue(conf, host, name, type) ==
  LET found == HostSetting(conf, host, name, {type})
  IN [ended |-> found.ended, value |-> {s.value : s \in found.setting}]

\* lookupHostSettings(), lookupHostStringSettings(): the elements of a setting
\* of any type, a single value having none, are added to those there are.
HostSettings(conf, host, name, elements) ==
  LET found == HostSetting(conf, host, name, Types)
  IN [ended |-> found.ended,
      value |-> elements \o FlattenSeq(SetToSeq({s.value : s \in {x \in found.setting : x.type = "list"}}))]

---------------------------------------------------------------------------
(* Configuration files.  A path that is absolute begins with "/".  from    *)
(* gives, for the settings there are, the directory of the file they are   *)
(* in; overrides have none.                                                *)

Refusal == [ended |-> "throw", value |-> {}]

\* fixPathSetting(): looks at the setting itself, even when the value came
\* from an override.
FixPath(from, path, name) ==
  CASE path = <<>> -> [ended |-> "false", value |-> {path}]
    [] path # <<>> /\ path[1] = "/" -> [ended |-> "ok", value |-> {path}]
    [] path # <<>> /\ path[1] # "/" /\ name \notin DOMAIN from -> Refusal
    [] OTHER -> [ended |-> "ok", value |-> {from[name] \o path}]

\* The names that a host's configuration file may have, without ".conf":
\* name.host.domain, name.host, name.
HostNames(host) == {k \in DOMAIN host : k = Len(host) \/ host[k + 1] = "."}

\* lookupConfigSetting() over the files and directories there are.
ConfigFile(conf, from, host, component, files, directories) ==
  LET named  == HostValue(conf, host, component \o <<"configfile">>, "string")
      listed == {s.value : s \in Typed(conf.settings, component \o <<"configpath">>, {"string"})}
      path   == FixPath(from, Sole(listed), component \o <<"configpath">>)
      found  == {k \in HostNames(host) : Append(Sole(path.value), SubSeq(host, 1, k)) \in files}
      most   == CHOOSE k \in found : \A m \in found : m <= k
  IN CASE named.ended = "throw" -> Refusal
       [] named.ended = "ok" /\ named.value # {} ->
            FixPath(from, Sole(named.value), component \o <<"configfile">>)
       [] OTHER ->
            CASE listed = {} -> [ended |-> "false", value |-> {}]
              [] listed # {} /\ path.ended = "throw" -> Refusal
              [] listed # {} /\ (path.ended = "false" \/ (path.ended = "ok" /\ Sole(path.value) \notin directories)) ->
                   [ended |-> "false", value |-> {}]
              [] OTHER -> IF found = {} THEN Refusal
                          ELSE [ended |-> "ok", value |-> {Append(Sole(path.value), SubSeq(host, 1, most))}]

---------------------------------------------------------------------------
(* The digest.  A setting is [path, type, value], all in sequences, and    *)
(* the digest is told by what is put into it: nothing marks where a path   *)
(* or a text ends.                                                         *)

DigestInput(conf) ==
  <<"group", Len(conf)>>
    \o FlattenSeq([k \in DOMAIN conf |-> conf[k].path \o <<conf[k].type>> \o conf[k].value])

---------------------------------------------------------------------------
(* Options: the throttle, the limit of compression, one of the three pools *)
(* of threads, which are read alike, and two of the switches.              *)

DefaultServerOptions ==
  [start |-> 50, restart |-> 50, limit |-> 100, rate |-> 10, compresslimit |-> 1000,
   quiet |-> FALSE, stacktrace |-> FALSE, threads |-> Cores]

MaxThreads == 10000

\* parse_threads(): N, or N% of the cores; what is negative is a huge number
\* without its sign.
Threads_(t) ==
  CASE t.n < 0 -> MaxThreads + 1
    [] t.n >= 0 /\ ~t.percent -> t.n
    [] OTHER -> IF t.n = 0 THEN 0 ELSE Largest(1, (Cores * t.n) \div 100)

\* parseOptions(): what the command line gives, and the checks.  The switch
\* for the stack trace is stored where the one for quiet is, after it, given
\* or not.
ParseOptions(cmd, options) ==
  LET of(name) == IF name \in DOMAIN cmd THEN cmd[name] ELSE options[name]
      limit    == of("limit")
      next     == [options EXCEPT
                     !.limit = limit, !.start = Smaller(of("start"), limit),
                     !.restart = of("restart"), !.rate = of("rate"),
                     !.compresslimit = of("compresslimit"),
                     !.quiet = of("stacktrace"),
                     !.threads = IF "threads" \in DOMAIN cmd THEN Threads_(cmd.threads) ELSE @]
  IN [ended   |-> IF \/ next.threads > MaxThreads \/ next.compresslimit < 100
                     \/ 0 \in {next.start, next.limit, next.rate} THEN "throw" ELSE "ok",
      options |-> next]

\* parseConfig(): a set of at most one configuration, which has a new and an
\* old name for the limit.
ConfigNames ==
  ("limit" :> "int") @@ ("maxactiverequests" :> "int") @@ ("start_limit" :> "int")
    @@ ("restart_limit" :> "int") @@ ("increase_rate" :> "int") @@ ("compresslimit" :> "int")
    @@ ("quiet" :> "bool") @@ ("stacktrace" :> "bool")

ParseConfig(file, host, options) ==
  LET conf == Sole(file)
      get(name) == HostValue(conf, host, <<name>>, ConfigNames[name])
      value(name, default) == Or(get(name).value, default)
      threads == Typed(conf.settings, <<"maxthreads">>, {"threads"})
      start == value("start_limit", options.start)
  IN IF file = {} THEN [ended |-> "ok", options |-> options]
     ELSE [ended   |-> IF \E name \in DOMAIN ConfigNames : get(name).ended = "throw" THEN "throw" ELSE "ok",
           options |->
             [limit   |-> value("limit", value("maxactiverequests", options.limit)),
              start   |-> start,
              restart |-> value("restart_limit", start),
              rate    |-> value("increase_rate", options.rate),
              compresslimit |-> value("compresslimit", options.compresslimit),
              quiet   |-> value("quiet", options.quiet),
              stacktrace |-> value("stacktrace", options.stacktrace),
              threads |-> IF threads = {} THEN options.threads ELSE Threads_(Sole(threads).value)]]

\* parse(): the command line tells where the configuration is, and is read
\* again to go over it.
AgainOver(cmd, second) ==
  IF second.ended = "throw" THEN second ELSE ParseOptions(cmd, second.options)

AfterFirstPass(cmd, first, file, host) ==
  IF first.ended = "throw" THEN first ELSE AgainOver(cmd, ParseConfig(file, host, first.options))

ParseServerOptions(cmd, file, host) ==
  AfterFirstPass(cmd, ParseOptions(cmd, DefaultServerOptions), file, host)
=============================================================================
