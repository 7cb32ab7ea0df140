------------------------------- MODULE Values -------------------------------
(***************************************************************************)
(* Spine::Value, a value of one of several types that is read from a       *)
(* configuration or a text, and the times, points and boxes written as     *)
(* texts: src/spine/Value.cpp.                                             *)
(*                                                                         *)
(* A value has a kind and its numbers; a text also a form, which is what   *)
(* the characters are: an integer, a decimal, a list ("1,2,EPSG:4326"), a  *)
(* phrase ("2 hours ago rounded up 15 min"), an XML time.  Doubles are     *)
(* counted in halves, so that a decimal is an odd number.  Times are in    *)
(* seconds.  A getter that throws gives the empty set.  Integers are       *)
(* ValueBits wide, the offsets of string2ptime OffsetBits.                 *)
(***************************************************************************)
EXTENDS Integers, Sequences, SequencesExt

CONSTANTS ValueBits,   \* 64 in the code
          OffsetBits,  \* 32 in the code
          TextDigits,  \* 14 in the code: digits of a double in a text
          MinuteSeconds, HourSeconds, DaySeconds

ASSUME ValueAssumption ==
  /\ {ValueBits, OffsetBits, TextDigits, MinuteSeconds, HourSeconds, DaySeconds} \subseteq Nat \ {0}
  /\ DaySeconds % MinuteSeconds = 0

LeastInt == -(2 ^ (ValueBits - 1))
MostInt  == 2 ^ (ValueBits - 1) - 1
MostUint == 2 ^ ValueBits - 1

Val(kind, n)       == [kind |-> kind, form |-> "", n |-> n, tag |-> ""]
Text(form, n, tag) == [kind |-> "string", form |-> form, n |-> n, tag |-> tag]
Only(v)            == CHOOSE x \in v : TRUE
When(condition, x) == IF condition THEN {x} ELSE {}

---------------------------------------------------------------------------
(* Getters                                                                 *)

GetBool(v) ==
  CASE v.kind = "bool"            -> {v.n[1] = 1}
    [] v.kind \in {"int", "uint"} -> {v.n[1] # 0}
    [] v.kind = "string" -> When(v.form \in {"bool", "integer"} /\ v.n[1] \in {0, 1}, v.n[1] = 1)
    [] OTHER -> {}

GetInt(v) ==
  CASE v.kind = "int"    -> {v.n[1]}
    [] v.kind = "uint"   -> When(v.n[1] <= MostInt, v.n[1])
    [] v.kind = "string" -> When(v.form = "integer" /\ v.n[1] \in LeastInt .. MostInt, v.n[1])
    [] OTHER -> {}

GetUint(v) ==
  CASE v.kind = "uint"   -> {v.n[1]}
    [] v.kind = "int"    -> When(v.n[1] >= 0, v.n[1])
    [] v.kind = "string" -> When(v.form = "integer" /\ v.n[1] \in 0 .. MostUint, v.n[1])
    [] OTHER -> {}

GetDouble(v) ==
  CASE v.kind \in {"int", "uint"} -> {2 * v.n[1]}
    [] v.kind = "double"          -> {v.n[1]}
    [] v.kind = "string" /\ v.form = "integer" -> {2 * v.n[1]}
    [] v.kind = "string" /\ v.form = "decimal" -> {v.n[1]}
    [] OTHER -> {}

\* x,y or x,y,crs
GetPoint(v) ==
  CASE v.kind = "point" -> {v}
    [] v.kind = "string" /\ v.form = "list" /\ Len(v.n) = 2 ->
         {[Val("point", v.n) EXCEPT !.tag = v.tag]}
    [] OTHER -> {}

\* xmin,ymin,xmax,ymax, and all that follows is the crs.
GetBox(v) ==
  CASE v.kind = "bbox" -> {v}
    [] v.kind = "string" /\ v.form = "list" /\ Len(v.n) = 4 ->
         {[Val("bbox", v.n) EXCEPT !.tag = v.tag]}
    [] OTHER -> {}

GetString(v) == When(v.kind = "string", v)

---------------------------------------------------------------------------
(* Times                                                                   *)

\* Fmi::TimeParser, which knows the time stamps and XML times.
TimeParser(text) ==
  CASE text.form = "iso" -> {text.n[1]}
    [] text.form = "xml" -> {text.n[1] - text.n[2] * MinuteSeconds}
    [] OTHER -> {}

\* parse_xml_time(): "none" when it is no such time, an exception when it has
\* no zone.  An XML time has a capital T.
ParseXmlTime(text, lowered) ==
  CASE text.form # "xml" \/ lowered -> [is |-> "none", t |-> {}]
    [] text.form = "xml" /\ ~lowered /\ text.tag = "no zone" -> [is |-> "throw", t |-> {}]
    [] OTHER -> [is |-> "time", t |-> {text.n[1] - text.n[2] * MinuteSeconds}]

Unit(name) ==
  CASE name = "second" -> 1 [] name = "minute" -> MinuteSeconds
    [] name = "hour" -> HourSeconds [] name = "day" -> DaySeconds

\* static_cast<int> of an unsigned product.
Wrapped(u) == LET w == u % 2 ^ OffsetBits
              IN IF w >= 2 ^ (OffsetBits - 1) THEN w - 2 ^ OffsetBits ELSE w

\* Rounded within its day; up may reach the start of the next day.
Rounded(t, minutes, up) ==
  LET period == minutes * MinuteSeconds
      day    == t - (t % DaySeconds)
      off    == IF up THEN period - 1 ELSE 0
  IN IF minutes = 0 THEN t ELSE day + period * (((t % DaySeconds) + off) \div period)

\* A phrase has the number and the minutes to round to, its tag is "now",
\* "ago" or "after", and it has a unit and a direction of rounding.
Phrase(tag, number, unit, minutes, up) ==
  [kind |-> "string", form |-> "phrase", n |-> <<number, minutes>>, tag |-> tag,
   unit |-> unit, up |-> up]

Offset(p) ==
  CASE p.tag = "now"   -> 0
    [] p.tag = "ago"   -> -Wrapped(p.n[1] * Unit(p.unit))
    [] p.tag = "after" -> Wrapped(p.n[1] * Unit(p.unit))

\* string2ptime(): the text that it offers to parse_xml_time() is in lower
\* case.
StringToTime(text, now) ==
  LET xml == ParseXmlTime(text, TRUE)
  IN CASE text.form = "phrase" ->
            When(text.n[2] = 0 \/ (DaySeconds \div MinuteSeconds) % text.n[2] = 0,
                 Rounded(now + Offset(text), text.n[2], text.up))
       [] text.form # "phrase" /\ xml.is = "none" -> TimeParser(text)
       [] OTHER -> xml.t

GetTime(v, extensions, now) ==
  CASE v.kind = "time" -> {v.n[1]}
    [] v.kind = "string" -> IF extensions THEN StringToTime(v, now) ELSE TimeParser(v)
    [] OTHER -> {}

---------------------------------------------------------------------------
(* Limits, each a set of at most one value, are read as the type of the    *)
(* value that is checked; a limit that cannot be is an exception.          *)

Limited == {"int", "uint", "double", "time"}

ReadAs(kind, v, now) ==
  CASE kind = "int" -> GetInt(v)
    [] kind = "uint" -> GetUint(v)
    [] kind = "double" -> GetDouble(v)
    [] kind = "time" -> GetTime(v, TRUE, now)

\* The upper limit is not read when the value is below the lower one.
InsideLimits(v, lower, upper, now) ==
  LET arg   == Only(ReadAs(v.kind, v, now))
      as(l) == ReadAs(v.kind, Only(l), now)
  IN CASE v.kind \notin Limited -> IF lower \cup upper = {} THEN "inside" ELSE "throw"
       [] v.kind \in Limited /\ lower # {} /\ as(lower) = {} -> "throw"
       [] v.kind \in Limited /\ lower # {} /\ as(lower) # {} /\ arg < Only(as(lower)) -> "outside"
       [] OTHER -> CASE upper = {} -> "inside"
                     [] upper # {} /\ as(upper) = {} -> "throw"
                     [] OTHER -> IF arg <= Only(as(upper)) THEN "inside" ELSE "outside"

\* check_limits() lets values of other types pass.
CheckLimits(v, lower, upper, now) ==
  v.kind \notin Limited \/ InsideLimits(v, lower, upper, now) = "inside"

---------------------------------------------------------------------------
(* Texts and configurations                                                *)

\* A number of halves that is printed with TextDigits significant digits, to
\* the nearest such number and of two to the one whose last digit is even.
DigitsOf(m) == CHOOSE d \in 0 .. m : m < 10 ^ d /\ (d = 0 \/ m >= 10 ^ (d - 1))
RoundedTo(m, unit) ==
  LET down == m \div unit
      rest == 2 * (m % unit)
      up   == rest > unit \/ (rest = unit /\ down % 2 = 1)
  IN (IF up THEN down + 1 ELSE down) * unit
Printed(n) ==
  LET tenths == 5 * (IF n < 0 THEN -n ELSE n)
      excess == DigitsOf(tenths) - TextDigits
      text   == RoundedTo(tenths, IF excess > 0 THEN 10 ^ excess ELSE 1) \div 5
  IN IF n < 0 THEN -text ELSE text

\* From 10 ^ TextDigits on a double is printed with an exponent.
LooksInteger(halves) ==
  /\ halves % 2 = 0
  /\ halves \div 2 \in -(10 ^ TextDigits) + 1 .. 10 ^ TextDigits - 1

\* to_string(): a double is printed with TextDigits digits, points and boxes
\* come out with spaces, not commas.
ToText(v) ==
  CASE v.kind = "empty"  -> {}
    [] v.kind = "bool"   -> {Text("bool", v.n, "")}
    [] v.kind \in {"int", "uint"} -> {Text("integer", v.n, "")}
    [] v.kind = "double" -> LET n == Printed(v.n[1])
                            IN {IF LooksInteger(n) THEN Text("integer", <<n \div 2>>, "")
                                ELSE Text("decimal", <<n>>, "")}
    [] v.kind = "string" -> {v}
    [] v.kind = "time"   -> {Text("iso", v.n, "")}
    [] v.kind \in {"point", "bbox"} -> {Text("spaced", v.n, v.tag)}

\* A setting is its type and the value it has; there may be none.
FromConfig(setting, default) ==
  CASE setting = {} -> default
    [] OTHER -> LET s == Only(setting)
                IN CASE s.type = "bool" -> {Val("bool", s.n)}
                     [] s.type \in {"int", "int64"} -> {Val("int", s.n)}
                     [] s.type = "float" -> {Val("double", s.n)}
                     [] s.type = "string" -> {Text(s.form, s.n, "")}
                     [] OTHER -> {}

---------------------------------------------------------------------------
(* Options of requests: src/spine/Convenience.cpp.  A text is a set of at  *)
(* most one; a text without characters has the form "nothing".             *)

ParsedAs(kind, text) ==
  CASE kind = "string" -> {text}
    [] kind \in {"bool", "int"} ->
         When(text.form = "integer" /\ text.n[1] \in -(2 ^ (OffsetBits - 1)) .. 2 ^ (OffsetBits - 1) - 1,
              IF kind = "bool" THEN text.n[1] # 0 ELSE text.n[1])
    [] kind \in {"size", "unsigned_long"} -> When(text.form = "integer" /\ text.n[1] \in 0 .. MostUint, text.n[1])
    [] kind = "char"   -> When(text.form # "nothing", <<"first of", text>>)
    [] kind = "double" -> GetDouble(text)
    [] kind = "time"   -> TimeParser(text)

OptionalValue(kind, text, default) == IF text = {} THEN {default} ELSE ParsedAs(kind, Only(text))

RequiredValue(kind, text) == IF text = {} THEN {} ELSE ParsedAs(kind, Only(text))

\* duration_string_to_minutes(): the last character is a unit when it is no
\* digit, the tag.  The product of two ints wraps in the builds there are.
DurationToMinutes(text) ==
  LET n == CASE text.tag \in {"", "m"} -> 1
             [] text.tag = "h" -> HourSeconds \div MinuteSeconds
             [] text.tag = "d" -> DaySeconds \div MinuteSeconds
             [] OTHER -> 0
  IN When(text.form = "integer" /\ n # 0, Wrapped(text.n[1] * n))

\* boost_any_to_string(): nothing, a text (of no tokens when it is empty), a
\* number, a pair, a vector of such, or a type it does not know.
Missing == <<"missing">>
AnyToText(any) ==
  LET written[v \in {any} \cup (IF any.kind = "vector" THEN {any.values[k] : k \in DOMAIN any.values} ELSE {})] ==
        CASE v.kind = "empty"  -> Missing
          [] v.kind = "string" -> v.text
          [] v.kind = "number" -> v.text
          [] v.kind = "pair"   -> <<v.text[1], ",", v.text[2]>>
          [] v.kind = "vector" ->
               LET open == IF Len(v.values) > 1 THEN <<"[">> ELSE <<>>
                   text == FoldLeft(LAMBDA s, x : s \o (IF Len(s) > Len(open) THEN <<" ">> ELSE <<>>) \o written[x],
                                    open, v.values)
                           \o (IF Len(v.values) > 1 THEN <<"]">> ELSE <<>>)
               IN IF text = <<>> THEN Missing ELSE text
  IN written[any]
=============================================================================
