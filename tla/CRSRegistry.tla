------------------------------ MODULE CRSRegistry ------------------------------
(***************************************************************************)
(* The coordinate systems that a configuration describes, how they are     *)
(* found and what is transformed between them: src/spine/CRSRegistry.cpp.  *)
(*                                                                         *)
(* A name is a sequence of its parts; a pattern is the set of the names in *)
(* lower case that it matches.  A coordinate system is [shift, crossed]:   *)
(* its coordinates are those of the place plus a shift, and its authority  *)
(* may write them y first.  A registry is a function from names in lower   *)
(* case to entries [name, pattern, cs, swap, attributes].                  *)
(***************************************************************************)
EXTENDS ConfigBase, Functions, Letters, TLC

CONSTANTS CrsKeys,      \* the names in lower case, in order
          CodeText,     \* function from codes to their texts, of at least four digits
          EpsgSystems,  \* function from the codes that are known to their systems
          Proj4Systems, \* function from the definitions that can be read to their systems
          Patterns      \* function from the regular expressions to what they match

LowerName(name) == [k \in DOMAIN name |-> Small(name[k])]

Entry(name, pattern, cs, swap, attributes) ==
  [name |-> name, pattern |-> pattern, cs |-> cs, swap |-> swap, attributes |-> attributes]
Attribute(type, value) == [type |-> type, value |-> value]

Accepted(registry)  == [ended |-> "ok", registry |-> registry]
NotRegistered(registry) == [ended |-> "throw", registry |-> registry]

\* register_epsg(), register_proj4(): known is {} where the definition or the
\* pattern cannot be read.
RegisterSystem(registry, name, pattern, known, swap, attributes) ==
  IF LowerName(name) \in DOMAIN registry \/ known = {} THEN NotRegistered(registry)
  ELSE LET cs == [(CHOOSE c \in known : TRUE) EXCEPT !.crossed = FALSE]
       IN Accepted(LowerName(name) :> Entry(name, pattern, cs, swap, attributes) @@ registry)

\* register_wkt(): the entry is kept before its swap, its attributes and the
\* order of its axes have been set.  memory is what the swap happens to be.
RegisterWkt(registry, name, pattern, known, memory) ==
  IF LowerName(name) \in DOMAIN registry \/ known = {} THEN NotRegistered(registry)
  ELSE Accepted(LowerName(name) :> Entry(name, pattern, CHOOSE c \in known : TRUE, memory, <<>>) @@ registry)

SetAttributes(registry, name, attributes) ==
  [registry EXCEPT ![LowerName(name)].attributes = attributes @@ @]

DefaultPattern(code) ==
  {urn \o <<epsg, CodeText[code]>> : urn \in {<<>>, <<"urn:ogc:def:crs:">>}, epsg \in {"epsg:", "epsg::"}}
DefaultUri(code) == <<"http://www.opengis.net/def/crs/EPSG/0/", CodeText[code]>>

\* What a description says, each an exception if it cannot be read as what it
\* should be.  A system is given by its EPSG code or else by proj4.
Exists(conf, name) == <<name>> \in DOMAIN conf
Mandatory(conf, name, type)         == MandatoryParam(conf, <<>>, <<name>>, type)
Optional_(conf, name, type, default) == OptionalParam(conf, <<>>, <<name>>, type, default)
Unused == [ended |-> "ok", value |-> {<<>>}]

TextsWithCode(conf, code) ==
  [regex   |-> Optional_(conf, "regex", "string", <<>>),
   projUri |-> IF code.ended # "ok" THEN code
               ELSE Optional_(conf, "projUri", "string", DefaultUri(CHOOSE c \in code.value : TRUE)),
   proj4   |-> Unused]
TextsWithProj4(conf) ==
  [n \in {"regex", "projUri", "proj4"} |-> Mandatory(conf, n, "string")]
DescribedTexts(conf, code) ==
  (IF Exists(conf, "epsg") THEN TextsWithCode(conf, code) ELSE TextsWithProj4(conf))
    @@ [n \in {"name", "axisLabels", "projEpochUri"} |-> Mandatory(conf, n, "string")]
DescribedFlags(conf) == [n \in {"swapCoord", "showHeight"} |-> Optional_(conf, n, "bool", FALSE)]

\* The system of a description, under the attributes that registration gives it.
RegisterDescribed(registry, conf, code, text, swap) ==
  LET byCode  == Exists(conf, "epsg")
      pattern == IF byCode /\ ~Exists(conf, "regex") THEN {DefaultPattern(code)}
                 ELSE {Patterns[r] : r \in {text.regex} \cap DOMAIN Patterns}
      systems == IF byCode THEN {EpsgSystems[c] : c \in {code} \cap DOMAIN EpsgSystems}
                 ELSE {Proj4Systems[d] : d \in {text.proj4} \cap DOMAIN Proj4Systems}
      coded   == IF byCode THEN "epsg" :> Attribute("int", code) ELSE <<>>
  IN RegisterSystem(registry, text.name, UNION pattern, IF pattern = {} THEN {} ELSE systems,
                    swap, ("swapCoord" :> Attribute("bool", swap)) @@ coded)

\* Its other attributes; the code of a system given by proj4 is only read now.
Described(conf, registered, text, height, ownCode) ==
  LET late == Exists(conf, "epsgCode") /\ ~Exists(conf, "epsg")
  IN CASE registered.ended = "throw" -> registered
       [] registered.ended = "ok" /\ late /\ ownCode.ended = "throw" -> NotRegistered(registered.registry)
       [] OTHER -> Accepted(SetAttributes(registered.registry, text.name,
                     [showHeight |-> Attribute("bool", height)]
                       @@ [n \in {"projUri", "projEpochUri", "axisLabels"} |-> Attribute("string", text[n])]
                       @@ IF late THEN "epsg" :> Attribute("int", CHOOSE v \in ownCode.value : TRUE) ELSE <<>>))

\* parse_single_crs_def().  Everything but that code is read before the system
\* is registered.
RegisterAsSaid(registry, conf, code, texts, flags) ==
  LET text == [n \in DOMAIN texts |-> CHOOSE v \in texts[n].value : TRUE]
      flag == [n \in DOMAIN flags |-> CHOOSE v \in flags[n].value : TRUE]
  IN IF \/ \E n \in DOMAIN texts : texts[n].ended = "throw"
        \/ \E n \in DOMAIN flags : flags[n].ended = "throw"
     THEN NotRegistered(registry)
     ELSE Described(conf, RegisterDescribed(registry, conf, CHOOSE c \in code.value : TRUE, text, flag.swapCoord),
                    text, flag.showHeight, Mandatory(conf, "epsgCode", "int"))

ParseWith(registry, conf, code) ==
  RegisterAsSaid(registry, conf, code, DescribedTexts(conf, code), DescribedFlags(conf))

ParseDefinition(registry, conf) == ParseWith(registry, conf, Mandatory(conf, "epsg", "int"))

\* read_crs_dir(): the files in the order that the directory has them.
ReadDefinitions(files) ==
  FoldLeft(LAMBDA r, conf : IF r.ended = "throw" THEN r ELSE ParseDefinition(r.registry, conf),
           Accepted(<<>>), files)

\* An address of the OpenGIS stands for "EPSG::" and its code.
OpenGis(name) == name[1] = "http://www.opengis.net/def/crs/epsg/"
AsCode(name)  == <<"epsg::", Last(name)>>

Matches(entry, name) ==
  \/ OpenGis(LowerName(name)) /\ AsCode(LowerName(name)) \in entry.pattern
  \/ LowerName(name) \in entry.pattern

\* get_entry(), at most one: by its name, else the first whose pattern matches.
GetEntry(registry, name) ==
  LET matching == {k \in DOMAIN CrsKeys : CrsKeys[k] \in DOMAIN registry /\ Matches(registry[CrsKeys[k]], name)}
  IN CASE LowerName(name) \in DOMAIN registry -> {LowerName(name)}
       [] OTHER -> {CrsKeys[k] : k \in {m \in matching : \A n \in matching : m <= n}}

GetAttribute(registry, name, attribute, type) ==
  LET found == GetEntry(registry, name)
      all   == registry[CHOOSE e \in found : TRUE].attributes
  IN CASE found = {} -> NoValue("throw")
       [] found # {} /\ attribute \notin DOMAIN all -> NoValue("none")
       [] OTHER -> IF all[attribute].type = type THEN [ended |-> "ok", value |-> {all[attribute].value}]
                   ELSE NoValue("throw")

---------------------------------------------------------------------------
(* Points.                                                                 *)

Swapped(yes, p) == IF yes THEN <<p[2], p[1]>> ELSE p

\* OGRCoordinateTransformation, between systems with the axes they have.
Transform(from, to, p) ==
  LET plain == Swapped(from.crossed, p)
  IN Swapped(to.crossed, [k \in 1 .. 2 |-> plain[k] - from.shift[k] + to.shift[k]])

TransformPoint(registry, from, to, p) ==
  LET a == GetEntry(registry, from)
      b == GetEntry(registry, to)
      s == registry[CHOOSE e \in a : TRUE]
      d == registry[CHOOSE e \in b : TRUE]
  IN CASE a = {} \/ b = {} -> NoValue("throw")
       [] a = b /\ a # {}  -> [ended |-> "ok", value |-> {p}]
       [] OTHER -> [ended |-> "ok", value |-> {Swapped(d.swap, Transform(s.cs, d.cs, Swapped(s.swap, p)))}]

\* convert_bbox(): the corners of the envelope.  Coordinates are not swapped.
ConvertBox(registry, box, to) ==
  LET a == GetEntry(registry, box.crs)
      b == GetEntry(registry, to)
      move(p) == Transform(registry[CHOOSE e \in a : TRUE].cs, registry[CHOOSE e \in b : TRUE].cs, p)
  IN CASE a = {} \/ b = {} -> NoValue("throw")
       [] a = b /\ a # {}  -> [ended |-> "ok", value |-> {box}]
       [] OTHER -> [ended |-> "ok", value |-> {[low |-> move(box.low), high |-> move(box.high), crs |-> to]}]
=============================================================================
