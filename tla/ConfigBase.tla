------------------------------ MODULE ConfigBase ------------------------------
(***************************************************************************)
(* Parameters read from a configuration by their paths:                    *)
(* src/spine/ConfigBase.cpp.  A configuration is a function from the paths *)
(* of its settings to [is, value]: "group", "list", "array", a scalar type *)
(* or "redirect", a text "%[path]", whose value is the path.  A part of a  *)
(* path is a name or an index.                                             *)
(***************************************************************************)
EXTENDS Integers, Sequences, FiniteSets, SequencesExt

CONSTANTS Indexes,         \* the texts of the indexes, in order
          MaxRedirections  \* 5 in the code

ASSUME ConfigBaseAssumption == MaxRedirections \in Nat

Scalar(setting) == setting.is \notin {"group", "list", "array"}
Children(conf, at) == {p \in DOMAIN conf : Len(p) = Len(at) + 1 /\ IsPrefix(at, p)}

Found_(at)  == [ended |-> "ok", at |-> at]
NotFound    == [ended |-> "none", at |-> <<>>]
WrongPath   == [ended |-> "throw", at |-> <<>>]

\* One part of a path.  What is missing is an exception if it is mandatory; a
\* path through a scalar, by name into a list or by index into a group always.
Part(conf, at, part, mandatory) ==
  LET inGroup == conf[at].is = "group"
      next    == Append(at, part)
  IN CASE Scalar(conf[at]) \/ inGroup = (part \in Range(Indexes)) -> WrongPath
       [] OTHER -> IF next \in DOMAIN conf THEN Found_(next)
                   ELSE IF mandatory THEN WrongPath ELSE NotFound

Walk(conf, start, path, mandatory) ==
  FoldLeft(LAMBDA s, part : IF s.ended # "ok" THEN s ELSE Part(conf, s.at, part, mandatory),
           Found_(start), path)

\* find_setting_impl().  Only a setting at the end of the path redirects, to a
\* path from the root.
RECURSIVE FindWithin(_, _, _, _, _)
FindWithin(conf, start, path, mandatory, depth) ==
  LET s == Walk(conf, start, path, mandatory)
  IN IF s.ended # "ok" \/ conf[s.at].is # "redirect" THEN s
     ELSE IF depth >= 0 THEN FindWithin(conf, <<>>, conf[s.at].value, mandatory, depth - 1)
     ELSE WrongPath

FindSetting(conf, start, path, mandatory) == FindWithin(conf, start, path, mandatory, MaxRedirections)

NoValue(ended) == [ended |-> ended, value |-> {}]

\* get_setting_value(): libconfig converts no type to another.
SettingValue(setting, type) ==
  IF setting.is = type THEN [ended |-> "ok", value |-> {setting.value}]
  ELSE IF setting.is = "redirect" /\ type = "string" THEN [ended |-> "ok", value |-> {setting.value}]
  ELSE NoValue("throw")

ValueAt(conf, found, type) ==
  IF found.ended = "ok" THEN SettingValue(conf[found.at], type) ELSE NoValue(found.ended)

WithDefault(read, default) ==
  IF read.ended = "none" THEN [ended |-> "ok", value |-> {default}] ELSE read

OptionalParam(conf, start, path, type, default) ==
  WithDefault(ValueAt(conf, FindSetting(conf, start, path, FALSE), type), default)

MandatoryParam(conf, start, path, type) == ValueAt(conf, FindSetting(conf, start, path, TRUE), type)

\* get_config_array(): an array, or a scalar as one of one element.  Elements
\* do not redirect.
ArrayElements(conf, at) ==
  CASE Scalar(conf[at]) -> <<conf[at]>>
    [] conf[at].is = "array" -> [k \in 1 .. Cardinality(Children(conf, at)) |-> conf[Append(at, Indexes[k])]]
    [] OTHER -> <<>>

ArrayOf(values, min, max) ==
  IF Len(values) \notin min .. max \/ \E k \in DOMAIN values : values[k].ended = "throw" THEN NoValue("throw")
  ELSE [ended |-> "ok", value |-> {[k \in DOMAIN values |-> CHOOSE v \in values[k].value : TRUE]}]

ArrayAt(conf, found, type, min, max) ==
  CASE found.ended # "ok" -> NoValue(found.ended)
    [] found.ended = "ok" /\ conf[found.at].is \in {"group", "list"} -> NoValue("throw")
    [] OTHER -> LET elements == ArrayElements(conf, found.at)
                IN ArrayOf([k \in DOMAIN elements |-> SettingValue(elements[k], type)], min, max)

ConfigArray(conf, start, path, type, min, max) ==
  ArrayAt(conf, FindSetting(conf, start, path, FALSE), type, min, max)

---------------------------------------------------------------------------
(* Names of files, which begin with "/" when they are absolute.  dir is    *)
(* the directory in the name of the configuration file.                    *)

Absolute(name) == name # <<>> /\ name[1] = "/"

\* Config::lookupValue() follows no redirection.
LookedUp(conf, name) ==
  {conf[p].value : p \in {q \in DOMAIN conf : q = <<name>> /\ conf[q].is \in {"string", "redirect"}}}

OptionalPath(conf, dir, name, default) ==
  LET value == IF LookedUp(conf, name) = {} THEN default ELSE CHOOSE v \in LookedUp(conf, name) : TRUE
  IN IF value = <<>> \/ Absolute(value) THEN value ELSE dir \o value

MandatoryPath(conf, dir, name) ==
  [ended |-> IF LookedUp(conf, name) = {} THEN "throw" ELSE "ok",
   value |-> {IF Absolute(v) THEN v ELSE dir \o v : v \in LookedUp(conf, name)}]

\* get_mandatory_path_array(): a file next to a configuration file without a
\* directory gets a "/".
PathsFrom(dir, paths) ==
  IF paths.ended # "ok" THEN NoValue("throw")
  ELSE [ended |-> "ok",
        value |-> {[k \in DOMAIN v |-> IF v[k] = <<>> \/ Absolute(v[k]) THEN v[k] ELSE dir \o v[k]] : v \in paths.value}]

MandatoryPathArray(conf, dir, name, min, max) ==
  PathsFrom(IF dir = <<>> THEN <<"/">> ELSE dir, ConfigArray(conf, <<>>, <<name>>, "string", min, max))
=============================================================================
