--------------------------- MODULE RequestAnswers ---------------------------
(***************************************************************************)
(* What the core computes from a request and from what it knows at that    *)
(* moment: whether what the request says of itself lets it be served - the *)
(* tags it has, who makes it, from where (Preconditions, Access) - and the *)
(* tables that the admin requests answer with (AdminReports).  A question  *)
(* is asked and answered.  Other parts of the library that compute an      *)
(* answer from what they are given ask in the same way (Conversions,       *)
(* Startup).                                                               *)
(***************************************************************************)
EXTENDS Preconditions, Access, AdminReports

CONSTANTS Questions,  \* function from what is asked about to the sets of arguments
          CacheNames  \* names of caches, in order

\* An entity tag is [weak, opaque, bare].  A bare one, without quotes, is not of
\* RFC 7232 but accepted: it must not look like something else.  Between
\* quotes everything but a quote may stand.
EntityTag(t) ==
  /\ t.weak \in BOOLEAN /\ t.bare \in BOOLEAN /\ t.opaque \in Seq(Character)
  /\ Quote \notin Range(t.opaque)
  /\ t.bare => /\ t.opaque # <<>> /\ CommaMark \notin Range(t.opaque)
               /\ t.opaque[1] \notin {Blank, WeakMark} /\ t.opaque[Len(t.opaque)] # Blank

Word == STRING

UserCall(c) ==
  /\ c.op \in {"add", "remove", "clear"} /\ c.name \in Word
  /\ c.op = "add" => c.password \in Word /\ c.groups \subseteq Nat

FormatField(f) == f.is \in {"any", "single", "padded", "range", "other"} /\ f.lo \in Nat /\ f.hi \in Nat

\* A header is there or not; the words after "basic" are a name and a password;
\* an address has four fields.
Header(h) ==
  h # {} => \E tags \in h :
              /\ h = {tags}
              /\ tags \in Seq(Range(tags)) /\ \A t \in Range(tags) : EntityTag(t)

Credentials(c) ==
  c # {} => \E words \in c :
              /\ c = {words}
              /\ Len(words) >= 2 /\ words[1] = "basic" => words[2] \in Word \X Word

Distinct(s) == \A j, k \in DOMAIN s : s[j] = s[k] => j = k

\* The log of a view, a registered handler with it, what owns caches.
ViewLog(log) ==
  /\ log \in Seq(Range(log)) /\ Distinct(ForEach(log, LAMBDA e : e.id))
  /\ \A e \in Range(log) : e.end \in Nat /\ e.duration \in Nat /\ e.cpu \in Nat

LoggedHandlers(handlers) ==
  /\ handlers \in Seq(Range(handlers)) /\ Distinct(ForEach(handlers, LAMBDA h : h.uri))
  /\ \A h \in Range(handlers) : ViewLog(h.log)

CacheOwners(owners) ==
  /\ owners \in Seq(Range(owners))
  /\ \A o \in Range(owners) : /\ o.ready \in BOOLEAN /\ o.caches \in Seq(Range(o.caches))
                              /\ \A c \in Range(o.caches) : c.name \in Range(CacheNames)

ASSUME RequestAnswersAssumption ==
  /\ \A a \in Questions["precondition"] :
       Header(a.mustMatch) /\ Header(a.mayNotMatch) /\ EntityTag(a.tag) /\ a.probing \in BOOLEAN
  /\ \A a \in Questions["user"] :
       /\ a.history \in Seq(Range(a.history)) /\ \A c \in Range(a.history) : UserCall(c)
       /\ Credentials(a.credentials)
  /\ \A a \in Questions["address"] :
       /\ a.address \in [1 .. 4 -> Nat] /\ a.formats \in Seq(Range(a.formats))
       /\ \A f \in Range(a.formats) : f \in Seq(Range(f)) /\ \A field \in Range(f) : FormatField(field)
  /\ \A a \in Questions["requests"] :
       a.server.logging \in BOOLEAN /\ a.server.now \in Nat /\ LoggedHandlers(a.server.handlers)
  /\ CacheNames \in Seq(Range(CacheNames)) /\ Distinct(CacheNames)
  /\ \A a \in Questions["state"] :
       /\ CacheOwners(a.engines) /\ CacheOwners(a.plugins) /\ a.dnsCache.name \in Range(CacheNames)
       /\ a.requests \in Seq(Range(a.requests)) /\ \A r \in Range(a.requests) : r.public \in BOOLEAN
       /\ \A t, u \in a.target : t = u

VARIABLES question, reply
conversionVars == <<question, reply>>

Unasked    == [about |-> "nothing"]
Unanswered == [about |-> "nothing"]

ConversionInit ==
  /\ \E about \in DOMAIN Questions :
       \E a \in Questions[about] : question = [about |-> about, arg |-> a]
  /\ reply = Unanswered

Answer(about, Result(_)) ==
  /\ question.about = about
  /\ reply = Unanswered
  /\ reply' = [about |-> about, result |-> Result(question.arg)]
  /\ UNCHANGED question

---------------------------------------------------------------------------
WrittenTag(t) ==
  (IF t.weak THEN <<WeakMark>> ELSE <<>>)
    \o (IF t.bare THEN t.opaque ELSE <<Quote>> \o t.opaque \o <<Quote>>)

Listed(s, t) == s \o (IF s = <<>> THEN <<>> ELSE <<CommaMark, Blank>>) \o WrittenTag(t)
WrittenList(tags) == FoldLeft(Listed, <<>>, tags)

\* The headers are written by a client, the tag by the plugin.
Precondition(a) ==
  ConditionalResponseStatus(a.probing, {WrittenList(h) : h \in a.mustMatch},
                            {WrittenList(h) : h \in a.mayNotMatch}, WrittenTag(a.tag))

Authenticated(a) ==
  Authenticate(Users(a.history), a.denyByDefault, a.credentials, a.asked, a.groups)

Filtered(a) == FilterMatches(a.formats, a.address)

RequestTables(a) ==
  [last     |-> LastRequests(a.server, a.plugin, a.minutes, a.fields),
   services |-> ServiceStats(a.server, a.plugin)]

StateTables(a) ==
  [caches   |-> CacheReport(a, CacheNames),
   active   |-> ActiveRequestsReport(a),
   engines  |-> EngineInfo(a),
   plugins  |-> PluginInfo(a),
   logging  |-> LoggingStatus(a),
   requests |-> AdminRequestsReport(a.requests, a.unique, a.target, FALSE),
   info     |-> AdminRequestsReport(a.requests, a.unique, {}, TRUE),
   names    |-> [builtin \in BOOLEAN |->
                   [nonPublic \in BOOLEAN |-> AdminRequestNames(a.requests, builtin, nonPublic)]]]

RequestNext ==
  \/ Answer("precondition", Precondition)
  \/ Answer("user", Authenticated)
  \/ Answer("address", Filtered)
  \/ Answer("requests", RequestTables)
  \/ Answer("state", StateTables)

\* Another part answers what it is asked about.
AskedElsewhere ==
  /\ question.about \notin {"precondition", "user", "address", "requests", "state"}
  /\ reply'.about = question.about
  /\ UNCHANGED question

AnswerSpec == ConversionInit /\ [][RequestNext \/ AskedElsewhere]_conversionVars

\* The question that was answered, and the answer.
Asks(about) == reply.about = about
arg    == question.arg
result == reply.result

---------------------------------------------------------------------------
\* The answer to a conditional request is that of RFC 7232: If-Match first,
\* with the strong comparison, then If-None-Match with the weak one, for
\* tags with commas, blanks and asterisks in them.
ConditionsAreThoseOfTheRfc ==
  Asks("precondition") =>
    LET tags(header) == UNION {Range(h) : h \in header}
        any(header)  == \E t \in tags(header) : t.bare /\ ~t.weak /\ t.opaque = <<Asterisk>>
        strong == \/ any(arg.mustMatch)
                  \/ \E t \in tags(arg.mustMatch) :
                       ~t.weak /\ ~arg.tag.weak /\ t.opaque = arg.tag.opaque
        weak   == \/ any(arg.mayNotMatch)
                  \/ \E t \in tags(arg.mayNotMatch) : t.opaque = arg.tag.opaque
        holds  == arg.mustMatch = {} \/ strong
    IN result = CASE arg.probing -> {}
                  [] ~arg.probing /\ ~holds -> {"precondition_failed"}
                  [] ~arg.probing /\ holds /\ weak -> {"not_modified"}
                  [] OTHER -> {}

\* Credentials are those of a user exactly when the last call about the user
\* added them, with a group that may make the request.
LastCallDecides ==
  Asks("user") /\ arg.credentials # {} =>
    LET words == CHOOSE w \in arg.credentials : TRUE
        about(k) == arg.history[k].op = "clear" \/ arg.history[k].name = words[2][1]
        calls == {k \in DOMAIN arg.history : about(k)}
        last  == arg.history[CHOOSE k \in calls : \A m \in calls : m <= k]
    IN Len(words) = 2 /\ words[1] = "basic" =>
         ((result = "pass") = (/\ calls # {}
                               /\ last.op = "add"
                               /\ last.password = words[2][2]
                               /\ last.groups \cap arg.groups # {}))

\* An address passes exactly when it is in one of the ranges, with the limits
\* of a range in any order.
AddressesInRangePass ==
  Asks("address") /\ (\A k \in DOMAIN arg.formats : Acceptable(arg.formats[k])) =>
    LET numbers(f) == CASE f.is = "any" -> Range(arg.address)
                        [] f.is = "single" -> {f.lo}
                        [] f.is = "padded" -> {}
                        [] f.is = "range" -> (f.lo .. f.hi) \cup (f.hi .. f.lo)
        covered == \E k \in DOMAIN arg.formats :
                     \A m \in 1 .. 4 : arg.address[m] \in numbers(arg.formats[k][m])
    IN result = IF covered THEN "pass" ELSE "refuse"

\* What a request says of itself - the tags it has, who makes it, from where -
\* is understood as it was meant.
RequestsAreUnderstood ==
  ConditionsAreThoseOfTheRfc /\ LastCallDecides /\ AddressesInRangePass

---------------------------------------------------------------------------
(* Admin reports                                                           *)

\* Every request that ended within the time asked for has a row of its own,
\* in the order of the log; the rows begin with one that did, and any other
\* row is of a request that was logged after it.
RecentRequestsAreReported ==
  Asks("requests") =>
    LET urls(h) == Selected(result.last.rows, {row \in Range(result.last.rows) : row[1] = h.uri})
        since   == arg.server.now - arg.minutes * Minute
        whole(h) ==
          LET ids == [k \in DOMAIN urls(h) |-> urls(h)[k][2][2]]
              log == [k \in DOMAIN h.log |-> h.log[k].id]
          IN /\ \A k \in DOMAIN h.log : h.log[k].end > since => log[k] \in Range(ids)
             /\ \E k \in 0 .. Len(log) :
                  /\ ids = SubSeq(log, k + 1, Len(log))
                  /\ k < Len(log) => h.log[k + 1].end > since - Second
    IN arg.server.logging /\ arg.plugin = "all" /\ arg.fields = <<"plugin", "requeststring">>
       /\ arg.minutes \in 1 .. MaxMinutes => \A h \in Range(arg.server.handlers) : whole(h)

\* The totals are the sums of the handlers' columns; the minute is part of the
\* hour and the hour of the day; and when nothing in the log is older than a
\* day, an average is the mean over the requests counted.
StatisticsAddUp ==
  Asks("requests") =>
    LET rows   == Front(result.services.rows)
        totals == Last(result.services.rows)
        logged == IF ~arg.server.logging THEN {}
                  ELSE {h \in Range(arg.server.handlers) : arg.plugin \in {"all", h.plugin}}
        entries == UNION {{h} \X Range(h.log) : h \in logged}
    IN /\ Len(rows) = Cardinality(logged)
       /\ \A c \in 2 .. 4 : totals[c] = SumOf([k \in DOMAIN rows |-> rows[k][c]])
       /\ totals[2] <= totals[3] /\ totals[3] <= totals[4]
       /\ (\A e \in entries : arg.server.now - e[2].end < Day) =>
            /\ totals[4] = Cardinality(entries)
            /\ \A c \in 5 .. 6 : /\ totals[c].total = SumOf([k \in DOMAIN rows |-> rows[k][c].total])
                                 /\ totals[c].count = totals[4]

\* Each cache of a ready engine or plugin is reported once, with its number,
\* the first owner's when two have caches of one name; and no cache of one
\* that is reported as not ready.
CachesAreReportedOnce ==
  Asks("state") =>
    LET owners == Selected(arg.engines \o arg.plugins, {o \in Range(arg.engines \o arg.plugins) : o.ready})
        names  == {arg.dnsCache.name}
                    \cup UNION {{o.caches[k].name : k \in DOMAIN o.caches} : o \in Range(owners)}
        rows   == result.caches.rows
        owns(o, name) == \E c \in DOMAIN owners[o].caches : owners[o].caches[c].name = name
    IN /\ {rows[k][2] : k \in DOMAIN rows} = names
       /\ Len(rows) = Cardinality(names)
       /\ \A k \in DOMAIN rows :
            /\ rows[k][1] = k
            /\ \A o \in DOMAIN owners :
                 owns(o, rows[k][2]) /\ (\A m \in 1 .. o - 1 : ~owns(m, rows[k][2]))
                   => \E c \in DOMAIN owners[o].caches :
                        /\ owners[o].caches[c].name = rows[k][2]
                        /\ owners[o].caches[c].hits = rows[k][6]
       /\ \A t \in {result.engines, result.plugins} : \A k \in DOMAIN t.rows :
            t.rows[k][2] = "no" => \E o \in Range(arg.engines \o arg.plugins) :
                                     o.name = t.rows[k][1] /\ ~o.ready

\* The table of admin requests, the public table and the sets of names tell
\* of the same requests.
RegistryIsReported ==
  Asks("state") =>
    LET told(t)  == {t.rows[k][1] : k \in DOMAIN t.rows}
        at(target) == {r \in Range(arg.requests) : r.target = target}
    IN /\ arg.target = {} => told(result.requests) = result.names[TRUE][TRUE]
       /\ \A t \in arg.target : told(result.requests) = {r.what : r \in at(t)}
       /\ told(result.info) = result.names[TRUE][FALSE]
       /\ \A b \in BOOLEAN : result.names[b][FALSE] \subseteq result.names[b][TRUE]
       /\ result.names[FALSE][TRUE] = UNION {{r.what : r \in at(t)} :
                                              t \in {r.target : r \in Range(arg.requests)} \ {"none"}}

\* The built-in admin requests tell what there is, once.
ReportsAreComplete ==
  /\ RecentRequestsAreReported
  /\ StatisticsAddUp
  /\ CachesAreReportedOnce
  /\ RegistryIsReported
=============================================================================
