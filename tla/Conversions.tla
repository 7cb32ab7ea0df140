----------------------------- MODULE Conversions -----------------------------
(***************************************************************************)
(* The parts of the library that compute an answer from what they are      *)
(* given: a question is asked and answered.  The properties compare each   *)
(* answer with what it should be.                                          *)
(***************************************************************************)
EXTENDS RequestAnswers, JsonDocument, Values

\* A plugin expands a document with the parameters of a request, or replaces
\* the references among them.
Substituted(a) ==
  IF a.references THEN ReplaceReferences(a.doc, a.params, a.insensitive)
  ELSE Expand(a.doc, a.params, a.insensitive)

\* A value is read from the configuration, which may leave it at its default,
\* and checked.
Checked(a) ==
  LET value == FromConfig(a.setting, {a.default})
  IN [value  |-> value,
      inside |-> IF value = {} THEN "throw" ELSE InsideLimits(Only(value), a.lower, a.upper, a.now),
      passes |-> value # {} /\ CheckLimits(Only(value), a.lower, a.upper, a.now)]

TimeMeant(a) == StringToTime(a.text, a.now)

ConversionNext ==
  \/ Answer("parameters", Substituted)
  \/ Answer("includes", Preprocess)
  \/ Answer("references", Dereference)
  \/ Answer("limits", Checked)
  \/ Answer("time", TimeMeant)
  \/ Answer("text", ToText)
  \/ RequestNext

---------------------------------------------------------------------------
(* JSON documents                                                          *)

\* Where a parameter belongs: to the object of that name which comes last in
\* the document, or to the document itself.
Place(doc, name, insensitive) ==
  LET small(x) == IF insensitive /\ x \in DOMAIN LowerCase THEN LowerCase[x] ELSE x
      owns(p)  == /\ Append(p, "qid") \in DOMAIN doc
                  /\ small(doc[Append(p, "qid")].to[1]) = small(name[1])
      owners   == {p \in DOMAIN doc : owns(p)}
      last     == CHOOSE p \in owners : \A r \in owners \ {p} : Earlier(r, p)
      lowered  == [k \in DOMAIN name |-> small(name[k])]
  IN IF owners = {} THEN lowered ELSE last \o Tail(lowered)

Related(p, r) == IsPrefix(p, r) \/ IsPrefix(r, p)

\* Each parameter that the pass is for ends up at its place, below the object
\* that its first component names, unless a later one is stored over or into
\* it; of several with one name the first counts.  Nothing else changes.  The
\* pass is cut short only where a place cannot be made, and writes through a
\* pointer that has gone only after a parameter was stored over an object
\* with a name of its own.
ParametersReachTheirPlaces ==
  Asks("parameters") =>
    LET value(k)  == IF arg.params[k].text \in DOMAIN Parses THEN Parses[arg.params[k].text]
                     ELSE Leaf(arg.params[k].text)
        used == {k \in DOMAIN arg.params :
                   /\ \A m \in 1 .. k - 1 : arg.params[m].name # arg.params[k].name
                   /\ (value(k)[<<>>].is \in {"ref", "json"}) = arg.references}
        place(k)  == Place(arg.doc, arg.params[k].name, arg.insensitive)
        named     == {p \in DOMAIN arg.doc : Append(p, "qid") \in DOMAIN arg.doc}
    IN /\ result.ended = "undefined" => \E k \in used : \E p \in named : IsStrictPrefix(place(k), p)
       /\ used = {} /\ result.ended = "ok" => result.doc = arg.doc
       /\ result.ended = "ok" =>
            /\ \A k \in used :
                 (\A m \in used : m > k => ~Related(place(m), place(k)))
                   => /\ place(k) \in DOMAIN result.doc
                      /\ Subtree(result.doc, place(k)) = value(k)
            /\ \A p \in DOMAIN arg.doc : (\A k \in used : ~Related(place(k), p))
                 => p \in DOMAIN result.doc /\ result.doc[p] = arg.doc[p]
            /\ \A p \in DOMAIN result.doc \ DOMAIN arg.doc : \E k \in used : Related(place(k), p)

\* The file that a node includes: the document's directory comes first for a
\* relative name, then the root, its resources/layers and its resources.
Nearest(node) ==
  LET rank == [path |-> 1, root |-> 2, layers |-> 3, resources |-> 4]
      of   == {f \in DOMAIN Files : f[2] = node.to[Len(node.to)]
                                    /\ (node.to[1] = "/" => f[1] # "path")}
  IN {f \in of : \A g \in of : rank[f[1]] <= rank[g[1]]}

Includes(doc)  == {p \in DOMAIN doc : doc[p].is = "json"}
NearestIn(doc) == UNION {Nearest(doc[p]) : p \in Includes(doc)}
RECURSIVE Closure(_)
Closure(files) ==
  LET more == files \cup UNION {NearestIn(Files[f]) : f \in files}
  IN IF more = files THEN files ELSE Closure(more)

\* A document whose files all exist and do not contain themselves is expanded
\* completely: no include is left, each is what its nearest file expands to
\* on its own, and everything else is as it was.  Any other document fails.
IncludesAreExpanded ==
  Asks("includes") =>
    LET files  == Closure(NearestIn(arg))
        found  == \A p \in Includes(arg) : Nearest(arg[p]) # {}
        exist  == \A f \in files : \A p \in Includes(Files[f]) : Nearest(Files[f][p]) # {}
        finite == \A f \in files : f \notin Closure(NearestIn(Files[f]))
    IN /\ (result.ended = "ok") = (found /\ exist /\ finite)
       /\ result.ended = "ok" =>
            /\ Includes(result.doc) = {}
            /\ \A p \in DOMAIN arg \ Includes(arg) : result.doc[p] = arg[p]
            /\ \A p \in Includes(arg) : \A f \in Nearest(arg[p]) :
                 Subtree(result.doc, p) = Preprocess(Files[f]).doc

\* In the finished document a reference is equal to what it refers to, unless
\* that has references of its own which come later; those are copied as
\* they are.
ReferencesAreCopies ==
  Asks("references") /\ result.ended = "ok" =>
    LET refs == {p \in DOMAIN arg : arg[p].is = "ref"}
    IN \A p \in refs :
         LET target == arg[p].to
         IN (\A r \in refs : Related(r, target) => Earlier(r, p)) =>
              Subtree(result.doc, p) = Subtree(result.doc, target)

\* A document is put together from its files, references and parameters.
DocumentsArePutTogether ==
  ParametersReachTheirPlaces /\ IncludesAreExpanded /\ ReferencesAreCopies

---------------------------------------------------------------------------
(* Values                                                                  *)

\* What a number or a text means, in halves, whatever type it has.
IsNumber(v) == \/ v.kind \in {"int", "uint", "double"}
               \/ v.kind = "string" /\ v.form \in {"integer", "decimal"}
Meaning(v) == IF \/ v.kind \in {"int", "uint"}
                 \/ v.kind = "string" /\ v.form = "integer" THEN 2 * v.n[1] ELSE v.n[1]

\* A number passes the check only within its limits, whatever types these
\* have; one within them is refused only when a limit cannot be read as the
\* type of the number.
LimitsAreRespected ==
  Asks("limits") /\ result.value # {} =>
    LET v == Only(result.value)
        least  == CASE v.kind = "int" -> LeastInt [] OTHER -> 0
        most   == CASE v.kind = "int" -> MostInt [] OTHER -> MostUint
        readable(l) == /\ IsNumber(l)
                       /\ v.kind # "double" =>
                            /\ l.kind # "double" /\ (l.kind = "string" => l.form = "integer")
                            /\ Meaning(l) >= 2 * least /\ Meaning(l) <= 2 * most
        within == /\ \A l \in arg.lower : IsNumber(l) /\ Meaning(l) <= Meaning(v)
                  /\ \A u \in arg.upper : IsNumber(u) /\ Meaning(v) <= Meaning(u)
        alike  == \A l \in arg.lower \cup arg.upper : readable(l)
    IN v.kind \in {"int", "uint", "double"} =>
         /\ result.passes => within
         /\ alike => /\ result.passes = within
                     /\ result.inside = IF within THEN "inside" ELSE "outside"

\* A phrase is that far from now, as long as the distance fits an integer;
\* rounded down or up it is the nearest such time of the day.
PhrasesMeanTimes ==
  Asks("time") /\ arg.text.form = "phrase" /\ result # {} =>
    LET sign    == [now |-> 0, ago |-> -1, after |-> 1]
        seconds == arg.text.n[1] * Unit(arg.text.unit)
        exact   == arg.now + sign[arg.text.tag] * seconds
        period  == arg.text.n[2] * MinuteSeconds
        t       == Only(result)
    IN seconds < 2 ^ (OffsetBits - 1) =>
         IF period = 0 THEN t = exact
         ELSE /\ t % period = 0
              /\ IF arg.text.up THEN exact <= t /\ t < exact + period
                 ELSE t <= exact /\ exact < t + period

\* Whether a number of halves is one of at most TextDigits significant digits.
FewDigits(n) ==
  LET tenths == 5 * (IF n < 0 THEN -n ELSE n)
  IN \E k \in 0 .. DigitsOf(tenths) : tenths % 10 ^ k = 0 /\ tenths < 10 ^ (k + TextDigits)

\* The number is the nearest there is of so few digits: itself if it can be.
NearestWithFewDigits(read, n) ==
  LET far == IF read < n THEN n - read ELSE read - n
  IN FewDigits(read) /\ \A m \in n - far + 1 .. n + far - 1 : ~FewDigits(m)

\* A value reads back from its text, but for points and boxes, which are
\* written with blanks and read with commas, and doubles of more significant
\* digits than a text has, which come back as the nearest one of so many.
TextsReadBack ==
  Asks("text") /\ result # {} =>
    LET text == Only(result)
    IN CASE arg.kind = "bool"   -> GetBool(text) = {arg.n[1] = 1}
         [] arg.kind = "int"    -> GetInt(text) = {arg.n[1]}
         [] arg.kind = "uint"   -> GetUint(text) = {arg.n[1]}
         [] arg.kind = "double" -> NearestWithFewDigits(Only(GetDouble(text)), arg.n[1])
         [] arg.kind = "time"   -> GetTime(text, TRUE, 0) = {arg.n[1]}
         [] arg.kind = "string" -> GetString(text) = {arg}
         [] arg.kind = "point"  -> GetPoint(text) = {}
         [] arg.kind = "bbox"   -> GetBox(text) = {}

\* A value keeps its meaning from the configuration to a limit or a text.
ValuesKeepTheirMeaning == LimitsAreRespected /\ PhrasesMeanTimes /\ TextsReadBack

=============================================================================
