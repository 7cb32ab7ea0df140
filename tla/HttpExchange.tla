----------------------------- MODULE HttpExchange -----------------------------
(***************************************************************************)
(* A request that a chain of servers parses, edits and sends on, and the   *)
(* response on its way back (spine/HTTP.cpp, spine/HTTPParsers.h, and the  *)
(* log entry of spine/HandlerView.cpp).  The connections are the server's, *)
(* outside this library; Preconditions has ETagFilter.                     *)
(*                                                                         *)
(* A parameter is a name and a text.  Texts are encoded when written, and  *)
(* a "spaced" one is told apart because urlencode makes it longer than the *)
(* "+" form of browsers.  Names are written as they are: one that was      *)
(* decoded may be cut into several, or break the request line.  Lengths    *)
(* are counted in pairs, one more for a text that urlencode makes longer.  *)
(***************************************************************************)
EXTENDS Naturals, Sequences, FiniteSets, Bags

CONSTANTS
  ParameterName,  \* names of parameters, in objects and on the wire
  DecodedName,    \* per name: what urldecode makes of it
  CutAt,          \* per name: the names between its "&"s
  BeforeSign,     \* per name: what stands before its "="
  Blanked,        \* the names with a blank
  Foreign,        \* requests as clients outside write them
  Status,         \* statuses a handler sets
  Added,          \* bound: the parameters that servers add
  MaxPairs,       \* bound: parameters a server adds up to
  MaxHops,        \* bound: servers that send the request on
  MaxSteps,       \* bound: operations on one response
  MaxBytes,       \* bound: bytes of a stream
  None, Unknown

ASSUME HttpExchangeAssumption ==
  /\ IsFiniteSet(ParameterName) /\ "" \notin ParameterName /\ Blanked \subseteq ParameterName
  /\ {DecodedName, BeforeSign} \subseteq [ParameterName -> ParameterName]
  /\ CutAt \in [ParameterName -> Seq(ParameterName)]
  /\ Added \subseteq ParameterName \X {"plain", "spaced"}
  /\ {MaxPairs, MaxHops, MaxSteps, MaxBytes} \subseteq Nat
  /\ None \notin Nat \cup Status /\ Unknown \notin Nat
  /\ {"ok", "service_unavailable", "high_load", "shutdown"} \subseteq Status

Method   == {"GET", "POST", "OPTIONS"}
\* A "joined" text has a "=", of the name it was written after.
Pair     == ParameterName \X {"empty", "plain", "spaced", "joined"}
Nameless == <<"", "empty">>
Custom   == {"high_load", "shutdown"}

NoBody == [pairs |-> EmptyBag, plus |-> TRUE]

VARIABLES
  phase,     \* where the exchange is
  hop,       \* servers that have sent the request on
  wire,      \* the request as it was sent
  arrived,   \* 0, or 1 and the length of the body's part that has arrived
  request,   \* the Request object of the server that holds it
  edited,    \* whether that server has changed it
  altered,   \* whether what is under way differs from what was received
  meant,     \* the parameters its sender had
  response,  \* the Response object
  steps,     \* operations on it
  handler,   \* itsStreamCompletionHandler is set
  bytes,     \* bytes streamed
  log        \* lengths in the view's log entries for this exchange

requestVars  == <<hop, wire, arrived, request, edited, altered, meant>>
responseVars == <<response, steps, handler, bytes, log>>
exchangeVars == <<phase, requestVars, responseVars>>

(* The pairs of a bag, each as often as it is there.                        *)
Copies(pairs) == UNION {{p} \X (1 .. pairs[p]) : p \in DOMAIN pairs}

Length(body) ==
  Cardinality(Copies(body.pairs))
    + IF body.plus THEN 0 ELSE Cardinality({c \in Copies(body.pairs) : c[1][2] \in {"spaced", "joined"}})

Empty(body) == body.pairs = EmptyBag
SameBytes(a, b) == a.pairs = b.pairs /\ Length(a) = Length(b)

(* A client names its parameters and, if it declares a length, means it.    *)
ASSUME ForeignAssumption ==
  \A w \in Foreign :
    /\ w.form \in BOOLEAN /\ w.declared \in {None, Length(w.body)}
    /\ w.body \in [pairs : {w.body.pairs}, plus : BOOLEAN]
    /\ IsABag(w.query) /\ IsABag(w.body.pairs)
    /\ DOMAIN w.query \cup DOMAIN w.body.pairs \subseteq Pair

-----------------------------------------------------------------------------
(* Request::toString.                                                       *)

(* A GET without parameters must not have content.                          *)
Unwritable(r) == r.method = "GET" /\ r.params = EmptyBag /\ ~Empty(r.content)

FormBody(r) == r.params # EmptyBag /\ r.form /\ ~Empty(r.content)

FaultWritten(r) ==  \* fault: a form's parameters go to the body and to the line
  [method |-> r.method, form |-> r.form, declared |-> r.declared,
   query  |-> IF r.method # "OPTIONS" THEN r.params ELSE EmptyBag,
   body   |-> IF r.method # "POST" THEN NoBody
              ELSE IF FormBody(r) THEN [pairs |-> r.params, plus |-> FALSE] ELSE r.content]

Written(r) ==
  [method |-> r.method, form |-> r.form, declared |-> r.declared,
   query  |-> IF r.method = "GET" THEN r.params ELSE EmptyBag,
   body   |-> IF r.method # "POST" THEN NoBody
              ELSE IF FormBody(r) THEN [pairs |-> r.params, plus |-> FALSE] ELSE r.content]

(* parseRequest.                                                            *)

Total(w) == 1 + Length(w.body)

(* The grammar wants a name before "=" on the request line, which a blank   *)
(* ends.                                                                    *)
Garbled(w) == w.method \notin Method \/ \E p \in DOMAIN w.query : p = Nameless \/ p[1] \in Blanked

FaultParsing(w, n) ==  \* fault: a missing byte goes unnoticed
  IF n = 0 THEN "INCOMPLETE"
  ELSE IF Garbled(w) THEN "FAILED"
  ELSE IF w.declared = None THEN "COMPLETE"
  ELSE IF n < w.declared THEN "INCOMPLETE"
  ELSE IF n - 1 > w.declared THEN "FAILED"
  ELSE "COMPLETE"

(* The outcome once n has arrived.                                          *)
Parsing(w, n) ==
  IF n = 0 THEN "INCOMPLETE"
  ELSE IF Garbled(w) THEN "FAILED"
  ELSE IF w.declared = None THEN "COMPLETE"
  ELSE IF n - 1 < w.declared THEN "INCOMPLETE"
  ELSE IF n - 1 > w.declared THEN "FAILED"
  ELSE "COMPLETE"

(* An empty form is split into one empty token.                             *)
FormPairs(body) == IF Empty(body) THEN SetToBag({Nameless}) ELSE body.pairs

(* Names are decoded on the request line and taken as they are in a form.   *)
Key(name, line) == IF line THEN DecodedName[BeforeSign[name]] ELSE BeforeSign[name]

Intact(name, line) == name = "" \/ (CutAt[name] = <<name>> /\ BeforeSign[name] = name /\ Key(name, line) = name)

(* The i-th of what a pair is cut into, the last of which has its text.     *)
Piece(p, i, line) ==
  LET name   == CutAt[p[1]][i]
      isLast == i = Len(CutAt[p[1]])
      text   == IF BeforeSign[name] = name THEN IF isLast THEN p[2] ELSE "empty"
                ELSE IF isLast THEN "joined" ELSE "plain"
  IN  <<Key(name, line), text>>

ReadBack(pairs, line) ==
  LET intact == {p \in DOMAIN pairs : Intact(p[1], line)}
      torn   == UNION {{c} \X DOMAIN CutAt[c[1][1]] : c \in {d \in Copies(pairs) : d[1] \notin intact}}
      read   == [t \in torn |-> Piece(t[1][1], t[2], line)]
  IN  [p \in intact |-> pairs[p]]
        (+) [x \in {read[t] : t \in torn} |-> Cardinality({t \in torn : read[t] = x})]

Parameters(w, body) ==
  ReadBack(w.query, TRUE) (+) (IF w.form THEN ReadBack(FormPairs(body), FALSE) ELSE EmptyBag)

SubBags(pairs) ==
  {b \in UNION {[D -> 1 .. Cardinality(Copies(pairs))] : D \in SUBSET DOMAIN pairs} : b \sqsubseteq pairs}

(* What of the body has arrived; a pair that is cut in two is left out.     *)
Parts(w, n) ==
  IF n = Total(w) THEN {w.body}
  ELSE {b \in [pairs : SubBags(w.body.pairs), plus : {w.body.plus}] : Length(b) < n}

Parsed(w, body) ==
  [method |-> w.method, form |-> w.form, declared |-> w.declared,
   params |-> Parameters(w, body), content |-> body]

-----------------------------------------------------------------------------
NoWire     == [method |-> "GET", form |-> FALSE, declared |-> None, query |-> EmptyBag, body |-> NoBody]
NothingParsed  == Parsed(NoWire, NoBody)
NoResponse == [status |-> None, kind |-> "string", size |-> 0, chunked |-> FALSE, error |-> None]

ExchangeTypeOK ==
  /\ phase \in {"transit", "held", "failed", "thrown", "answering", "sending",
             "sent", "lost", "closed", "broken"}
  /\ hop \in 0 .. MaxHops /\ arrived \in 0 .. Total(wire)
  /\ \A w \in {wire, Written(request)} :
       /\ w.declared \in Nat \cup {None} /\ {w.form, w.body.plus} \subseteq BOOLEAN
       /\ IsABag(w.query) /\ IsABag(w.body.pairs)
       /\ DOMAIN w.query \cup DOMAIN w.body.pairs \subseteq Pair \cup {Nameless}
  /\ edited \in BOOLEAN /\ altered \in BOOLEAN /\ IsABag(meant)
  /\ response.status \in Status \cup {None} /\ response.error \in Custom \cup {None}
  /\ response.kind \in {"string", "vector", "stream"}
  /\ response.size \in Nat \cup {Unknown}
  /\ response.size = Unknown => response.kind = "stream" /\ response.chunked
  /\ steps \in 0 .. MaxSteps /\ bytes \in 0 .. MaxBytes
  /\ handler \in BOOLEAN /\ handler => response.kind = "stream"
  /\ log \in Seq(Nat)

ExchangeInit ==
  /\ wire \in Foreign /\ meant = Parameters(wire, wire.body)
  /\ phase = "transit" /\ hop = 0 /\ arrived = 0
  /\ request = NothingParsed /\ edited = FALSE /\ altered = FALSE
  /\ response = NoResponse /\ steps = 0 /\ handler = FALSE /\ bytes = 0 /\ log = <<>>

-----------------------------------------------------------------------------
(* The connection parses what it has whenever more arrives.                 *)
Receive(n) ==
  /\ phase = "transit" /\ n > arrived /\ arrived' = n
  /\ \/ Parsing(wire, n) = "INCOMPLETE" /\ UNCHANGED <<phase, request, edited>>
     \/ Parsing(wire, n) = "FAILED" /\ phase' = "failed" /\ UNCHANGED <<request, edited>>
     \/ /\ Parsing(wire, n) = "COMPLETE"
        /\ phase' = "held" /\ edited' = FALSE
        /\ \E body \in Parts(wire, n) : request' = Parsed(wire, body)
  /\ UNCHANGED <<hop, wire, altered, meant, responseVars>>

Edit(r) ==
  /\ phase = "held" /\ ~edited
  /\ request' = r /\ edited' = TRUE
  /\ UNCHANGED <<phase, hop, wire, arrived, altered, meant, responseVars>>

Without(params, name) == [p \in {q \in DOMAIN params : q[1] # name} |-> params[p]]

SetParameter(p)       == Edit([request EXCEPT !.params = Without(@, p[1]) (+) SetToBag({p})])
AddParameter(p)       == BagCardinality(request.params) < MaxPairs /\ Edit([request EXCEPT !.params = @ (+) SetToBag({p})])
RemoveParameter(name) == Edit([request EXCEPT !.params = Without(@, name)])
SetMethod(m)          == Edit([request EXCEPT !.method = m])
SetContent(body)      == Edit([request EXCEPT !.content = body])
SetLength(n)          == Edit([request EXCEPT !.declared = n])

(* The next server is sent what toString() gives, headers and all.          *)
SendOn ==
  /\ phase = "held" /\ hop < MaxHops
  /\ IF Unwritable(request)
     THEN phase' = "thrown" /\ UNCHANGED requestVars
     ELSE /\ phase' = "transit" /\ hop' = hop + 1
          /\ wire' = Written(request) /\ arrived' = 0
          /\ altered' = (altered \/ edited \/ ~SameBytes(wire'.body, request.content))
          /\ meant' = request.params
          /\ UNCHANGED <<request, edited>>
  /\ UNCHANGED responseVars

(* A server hands the request to a handler; the request's data is done with.*)
Respond ==
  /\ phase = "held"
  /\ phase' = "answering" /\ response' = NoResponse /\ steps' = 0
  /\ wire' = NoWire /\ arrived' = 0 /\ request' = NothingParsed
  /\ edited' = FALSE /\ altered' = FALSE /\ meant' = EmptyBag
  /\ UNCHANGED <<hop, handler, bytes, log>>

-----------------------------------------------------------------------------
(* Operations on a response.                                                *)
Work(r) ==
  /\ phase = "answering" /\ steps < MaxSteps
  /\ steps' = steps + 1 /\ response' = r
  /\ UNCHANGED <<phase, requestVars, handler, bytes, log>>

SetStatus(s) == Work([response EXCEPT !.status = s])

(* With stock content, which 200 and 204 have none of.                      *)
SetStatusAndContent(s) ==
  Work([response EXCEPT !.status = s, !.kind = "string", !.size = IF s \in {"ok", "no_content"} THEN 0 ELSE 1])

SetPlainContent(kind, n) == Work([response EXCEPT !.kind = kind, !.size = n])

SetStream(n) ==
  Work([response EXCEPT !.kind = "stream", !.size = n, !.chunked = @ \/ n = Unknown])

(* Anything but a string refuses an addition with an exception.             *)
AppendContent == response.kind = "string" /\ response.size < MaxBytes /\ Work([response EXCEPT !.size = @ + 1])

RemoveError == Work([response EXCEPT !.error = None])

(* HandlerView::handle logs the response, or leaves the entry of a stream   *)
(* to the completion handler.  Headers without a status cannot be written.  *)
Handled ==
  /\ phase = "answering"
  /\ IF response.kind = "stream" THEN handler' = TRUE /\ log' = <<>>
     ELSE handler' = FALSE /\ log' = <<response.size>>
  /\ phase' = IF response.status = None THEN "thrown" ELSE "sending"
  /\ bytes' = 0
  /\ UNCHANGED <<requestVars, response, steps>>

-----------------------------------------------------------------------------
FaultRunCompletion ==  \* fault: the handler stays set
  /\ log' = IF handler THEN Append(log, bytes) ELSE log
  /\ UNCHANGED handler

(* runStreamCompletionHandler: every end of the connection calls it.        *)
RunCompletion ==
  /\ log' = IF handler THEN Append(log, bytes) ELSE log
  /\ handler' = FALSE

SendChunk ==
  /\ phase = "sending" /\ response.kind = "stream" /\ bytes < MaxBytes
  /\ bytes' = bytes + 1
  /\ UNCHANGED <<phase, requestVars, response, steps, handler, log>>

Complete == phase = "sending" /\ phase' = "sent" /\ RunCompletion /\ UNCHANGED <<requestVars, response, steps, bytes>>
Break    == phase = "sending" /\ phase' = "lost" /\ RunCompletion /\ UNCHANGED <<requestVars, response, steps, bytes>>

(* The error headers of a response: its own, then its map's.                *)
Errors(r) ==
  (IF r.status \in Custom THEN <<r.status>> ELSE <<>>) \o (IF r.error # None THEN <<r.error>> ELSE <<>>)

Code(r) == IF r.status \in Custom THEN "service_unavailable" ELSE r.status

FaultRecovered(r) ==  \* fault: the last of several headers counts
  LET errors == Errors(r)
      error  == IF errors = <<>> THEN None ELSE errors[Len(errors)]
  IN  [NoResponse EXCEPT !.status = IF Code(r) = "service_unavailable" /\ error # None THEN error ELSE Code(r),
                         !.error = error]

(* headersToString, then parseResponse: the header map keeps the first of   *)
(* several headers, and a custom status is recovered from it.               *)
Recovered(r) ==
  LET error == IF Errors(r) = <<>> THEN None ELSE Head(Errors(r))
  IN  [NoResponse EXCEPT !.status = IF Code(r) = "service_unavailable" /\ error # None THEN error ELSE Code(r),
                         !.error = error]

(* The connection is torn down, after a success or a failure.               *)
TearDown ==
  /\ phase \in {"sent", "lost"}
  /\ phase' = IF phase = "sent" THEN "closed" ELSE "broken"
  /\ RunCompletion
  /\ UNCHANGED <<requestVars, response, steps, bytes>>

(* What was sent whole is parsed by the server that had sent the request    *)
(* on and becomes its response; otherwise it has to make one of its own.    *)
GiveBack ==
  /\ phase \in {"closed", "broken"} /\ hop > 0
  /\ phase' = "answering" /\ hop' = hop - 1
  /\ LET n == IF response.kind = "stream" THEN bytes ELSE response.size
     IN  response' = IF phase = "broken" THEN NoResponse
                     ELSE IF n = 0 THEN Recovered(response)
                     ELSE [Recovered(response) EXCEPT !.kind = "vector", !.size = n]
  /\ steps' = 0 /\ handler' = FALSE /\ bytes' = 0 /\ log' = <<>>
  /\ UNCHANGED <<wire, arrived, request, edited, altered, meant>>

-----------------------------------------------------------------------------
RequestStep ==
  \/ \E n \in 1 .. Total(wire) : Receive(n)
  \/ \E p \in Added : SetParameter(p) \/ AddParameter(p)
  \/ \E name \in ParameterName : RemoveParameter(name)
  \/ \E m \in Method : SetMethod(m)
  \/ \E w \in Foreign : SetContent(w.body) \/ SetLength(w.declared)
  \/ SendOn \/ Respond

ResponseStep ==
  \/ \E s \in Status : SetStatus(s) \/ SetStatusAndContent(s)
  \/ \E kind \in {"string", "vector"}, n \in {0, 1} : SetPlainContent(kind, n)
  \/ SetStream(1) \/ SetStream(Unknown) \/ AppendContent \/ RemoveError
  \/ Handled \/ SendChunk \/ Complete \/ Break \/ TearDown \/ GiveBack

ExchangeNext == RequestStep \/ ResponseStep

ExchangeSpec == ExchangeInit /\ [][ExchangeNext]_exchangeVars

-----------------------------------------------------------------------------
(* Clients outside declare the length they send.  However the bytes are cut *)
(* up, a server then takes a request of a declared length only whole, never *)
(* rejects one and never waits for what will not come, unless a server on   *)
(* the way has changed the body and left the length as it was, or the line  *)
(* has a parameter without a name, or with a blank in its name: toString()  *)
(* writes both as they are, whoever sent them encoded (HTTP.cpp:615).       *)
TakenWholeUnlessAltered ==
  \/ phase = "failed"
  \/ phase = "transit" /\ arrived = Total(wire)
  \/ phase = "held" /\ wire.declared # None /\ arrived < Total(wire)
  => altered \/ Garbled(wire)

(* A query string, and a form that has both content and parameters, reach   *)
(* the next server with the very parameters of the sender's object,         *)
(* duplicates included: urlencode and urldecode, and the two places a       *)
(* parameter can be in, agree, but for names that need encoding: a "&", a   *)
(* "=" or, in a query string, what urldecode decodes.  (A form whose last   *)
(* parameter was removed is sent with its old content, one without content  *)
(* as an empty form.)                                                       *)
Carried(w) ==
  /\ \A p \in DOMAIN meant : Intact(p[1], ~w.form)
  /\ IF w.form THEN w.method = "POST" /\ ~Empty(w.body) /\ meant # EmptyBag ELSE w.method = "GET"

ParametersKept ==
  phase = "held" /\ ~edited /\ arrived = Total(wire) /\ Carried(wire) => request.params = meant

(* A response that is sent whole has the same status at the server before,  *)
(* custom ones included, over any number of servers that set it anew: only  *)
(* a plain 503 set over a custom status' header turns into that status.     *)
StatusKeptUnlessLeftOver ==
  [][phase = "closed" /\ phase' = "answering" =>
       \/ response'.status = response.status
       \/ response.status = "service_unavailable" /\ response.error # None]_exchangeVars

(* Each response is logged once, with the bytes that were sent of a stream  *)
(* and the length of anything else, however its connection ends.            *)
LoggedOnce ==
  /\ Len(log) <= 1
  /\ phase \in {"closed", "broken"} => log = <<IF response.kind = "stream" THEN bytes ELSE response.size>>

=============================================================================
