---------------------------- MODULE AdminReports ----------------------------
(***************************************************************************)
(* The tables that the built-in admin requests answer with, as functions   *)
(* of what the server is at that moment: src/spine/Reactor.cpp, and        *)
(* ContentHandlerMap.cpp for the requests about requests.  A report is the *)
(* table as it is filled: its column names, the number of its first row    *)
(* and the rows.  How a table is written out is in Formatters.  A time is  *)
(* a number of ticks; a text about a request that nothing here depends on  *)
(* is told by the field it is in and the request.                          *)
(***************************************************************************)
EXTENDS Integers, Sequences, FiniteSets, SequencesExt, Functions

CONSTANTS Second, Minute, Hour, Day,  \* in ticks
          MaxMinutes                  \* the longest time asked for, 1440 in the code

ASSUME ReportAssumption ==
  /\ {Second, Minute, Hour, Day, MaxMinutes} \subseteq Nat \ {0}
  /\ Minute < Hour /\ Hour < Day /\ Minute % Second = 0

Report(names, rows) == [names |-> names, first |-> 0, rows |-> rows]
ForEach(s, Row(_)) == [k \in DOMAIN s |-> Row(s[k])]
YesNo(b)            == IF b THEN "yes" ELSE "no"
SumOf(s)            == FoldLeft(LAMBDA a, b : a + b, 0, s)
Joined(ss)          == FoldLeft(LAMBDA a, b : a \o b, <<>>, ss)

\* The elements of s that are in S, in their order.
Selected(s, S) == FoldLeft(LAMBDA a, b : IF b \in S THEN Append(a, b) ELSE a, <<>>, s)

\* getLoggedRequests(): per URI of the plugin, or of all plugins, the log of
\* its view; nothing when logging is off.
LoggedRequests(server, plugin) ==
  IF server.logging
  THEN Selected(server.handlers, {h \in Range(server.handlers) : plugin \in {"all", h.plugin}})
  ELSE <<>>

---------------------------------------------------------------------------
(* requestLastRequests                                                     *)

Fields == <<"time", "endtime", "starttime", "duration", "cpu", "ip", "status", "size",
            "method", "version", "etag", "apikey", "plugin", "url">>
Canonical(field) ==
  CASE field = "requeststring" -> "url" [] field = "bytes" -> "size" [] OTHER -> field

\* Unknown names are dropped; when none is left, every field is told.
SelectedFields(tokens) ==
  LET known == Selected(ForEach(tokens, Canonical), Range(Fields))
  IN IF known = <<>> THEN Fields ELSE known

FieldText(field, entry, uri) ==
  CASE field \in {"time", "endtime"} -> entry.end
    [] field = "starttime" -> entry.end - entry.duration
    [] field = "duration"  -> entry.duration
    [] field = "cpu"       -> entry.cpu
    [] field = "plugin"    -> uri
    [] OTHER               -> <<field, entry.id>>

Clamped(minutes) ==
  CASE minutes < 1 -> 1 [] minutes > MaxMinutes -> MaxMinutes [] OTHER -> minutes

\* SecondClock: whole seconds.
FirstValidTime(now, minutes) == (now - (now % Second)) - (Clamped(minutes) * Minute)

\* Fault: what follows the last entry that is too old.
SnapshotAfterLastOld(log, firstValid) ==
  LET k == SelectLastInSeq(log, LAMBDA e : e.end <= firstValid)
  IN SubSeq(log, k + 1, Len(log))

\* From the first entry that is recent enough on, whatever follows it.
Snapshot(log, firstValid) ==
  LET k == SelectInSeq(log, LAMBDA e : e.end > firstValid)
  IN IF k = 0 THEN <<>> ELSE SubSeq(log, k, Len(log))

LastRequests(server, plugin, minutes, tokens) ==
  LET fields == SelectedFields(tokens)
      rows(h) == ForEach(Snapshot(h.log, FirstValidTime(server.now, minutes)),
                       LAMBDA e : [c \in DOMAIN fields |-> FieldText(fields[c], e, h.uri)])
  IN Report(fields, Joined(ForEach(LoggedRequests(server, plugin), rows)))

---------------------------------------------------------------------------
(* requestServiceStats                                                     *)

CountSince(log, now, span) == Len(Selected(log, {e \in Range(log) : now - e.end < span}))

\* average_and_format(): total / count; 0 / 0 is "Not available".
Average(total, count) == [total |-> total, count |-> count]

\* The durations are of the whole log, the counts of the last day.
StatisticsRow(name, log, now) ==
  LET day == CountSince(log, now, Day)
  IN <<name, CountSince(log, now, Minute), CountSince(log, now, Hour), day,
       Average(SumOf(ForEach(log, LAMBDA e : e.duration)), day),
       Average(SumOf(ForEach(log, LAMBDA e : e.cpu)), day)>>

ServiceStats(server, plugin) ==
  LET logged == LoggedRequests(server, plugin)
      all    == Joined(ForEach(logged, LAMBDA h : h.log))
  IN Report(<<"Handler", "LastMinute", "LastHour", "Last24Hours", "AverageDuration", "AverageCPUMs">>,
            Append(ForEach(logged, LAMBDA h : StatisticsRow(h.uri, h.log, server.now)),
                   StatisticsRow("Total requests", all, server.now)))

---------------------------------------------------------------------------
(* requestCacheStats: getCacheStats() collects a map, so that of the caches *)
(* of one name the first inserted stays; rows are counted from 1.          *)

\* Engines first, then plugins, the cache of HostInfo last.
CacheStats(server) ==
  LET components == server.engines \o server.plugins
      ready == Selected(components, {o \in Range(components) : o.ready})
      all   == Append(Joined(ForEach(ready, LAMBDA o : o.caches)), server.dnsCache)
  IN [name \in {c.name : c \in Range(all)} |-> all[SelectInSeq(all, LAMBDA c : c.name = name)]]

\* A rate is a fraction, 0 where there is nothing to divide by.
Rate(part, whole) == IF whole = 0 THEN Average(0, 1) ELSE Average(part, whole)

CacheRow(r, c, now) ==
  <<r, c.name, c.maxsize, c.size, c.inserts, c.hits, c.misses, Rate(100 * c.hits, c.hits + c.misses),
    Rate(60 * c.hits, now - c.start), Rate(60 * c.inserts, now - c.start), c.start, now - c.start>>

\* The rows of the map, whose order nameOrder has.
CacheRows(stats, now, nameOrder) ==
  LET named == Selected(nameOrder, DOMAIN stats)
  IN [r \in DOMAIN named |-> CacheRow(r, stats[named[r]], now)]

CacheReport(server, nameOrder) ==
  [names |-> <<"#", "cache_name", "maxsize", "size", "inserts", "hits", "misses", "hitrate",
               "hits/min", "inserts/min", "created", "age">>,
   first |-> 1,
   rows  |-> CacheRows(CacheStats(server), server.now, nameOrder)]

---------------------------------------------------------------------------
(* The other tables: one row for each thing there is.                      *)

\* The origin is what a proxy says of the client; its name is that of the
\* first address of the list.
ActiveRequestsReport(server) ==
  LET host(ip) == <<"host of", ip>>
      row(a) == <<a.id, a.time, server.now - a.time, a.ip, host(a.ip), a.forwarded,
                  IF a.forwarded = <<>> THEN <<>> ELSE host(a.forwarded[1]),
                  IF a.apikey = {} THEN "-" ELSE CHOOSE k \in a.apikey : TRUE, a.uri>>
  IN Report(<<"Id", "Time", "Duration", "ClientIP", "ClientHost", "OriginIP", "OriginHost",
              "Apikey", "RequestString">>, ForEach(server.active, row))

EngineInfo(server) ==
  Report(<<"Engine", "Ready", "Class name">>,
         ForEach(server.engines, LAMBDA e : <<e.name, YesNo(e.ready), <<"class of", e.name>> >>))

PluginInfo(server) ==
  Report(<<"Plugin", "Ready", "Class name", "File name", "Config file">>,
         ForEach(server.plugins, LAMBDA p : <<p.name, YesNo(p.ready), <<"class of", p.name>>,
                                            <<"file of", p.name>>, <<"config of", p.name>> >>))

LoggingStatus(server) ==
  Report(<<"LoggingStatus">>, << <<IF server.logging THEN "Enabled" ELSE "Disabled">> >>)

\* getAdminRequestsImpl: requests is the registry in its order; target is a
\* set of at most one.
AdminRequestsReport(requests, unique, target, publicOnly) ==
  LET told == Selected(requests, {r \in Range(requests) : /\ publicOnly => r.public
                                                      /\ \A t \in target : r.target = t})
      row(r) == IF publicOnly THEN <<r.what, r.target, r.description>>
                ELSE <<r.what, r.target, YesNo(r.authentication), YesNo(r.public),
                       YesNo(r.what \in unique), r.description>>
  IN Report(IF publicOnly THEN <<"What", "Target", "Description">>
            ELSE <<"What", "Target", "Authentication", "Public", "Unique", "Description">>,
            ForEach(told, row))

AdminRequestNames(requests, includeBuiltin, includeNonPublic) ==
  {requests[k].what : k \in {m \in DOMAIN requests :
     /\ includeNonPublic \/ requests[m].public
     /\ includeBuiltin \/ requests[m].target # "none"}}

=============================================================================
