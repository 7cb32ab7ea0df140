------------------------------ MODULE TcpQueries ------------------------------
(***************************************************************************)
(* Parallel queries under one timer (spine/TcpMultiQuery.cpp).  execute()  *)
(* runs an asio io_context: one handler at a time, each of which starts    *)
(* the next operation of its query, until the context is stopped or has    *)
(* nothing left to wait for.  A stopped context is never restarted.        *)
(*                                                                         *)
(* How an operation ends is the network's choice, made when its handler    *)
(* runs.  What a peer sends is counted in pieces.                          *)
(***************************************************************************)
EXTENDS Naturals, FiniteSets

CONSTANTS
  Query,        \* identifiers of queries
  MaxData,      \* bound: pieces a peer sends
  MaxExecutes,  \* bound: calls of execute()
  MayStop       \* whether another thread may call stop()

ASSUME TcpQueriesAssumption ==
  /\ IsFiniteSet(Query)
  /\ MaxData \in Nat /\ MaxExecutes \in Nat /\ MayStop \in BOOLEAN

VARIABLES
  added,      \* the keys of query_map
  op,         \* per query: the operation its next handler is for
  finished,   \* queries whose input has ended
  desc, code, \* per query: error_desc, error_code
  result,     \* per query: pieces received
  sent,       \* per query: pieces its peer has sent
  closed,     \* queries whose peer has closed the connection
  timer,      \* the timer: waiting, or its handler is due
  completed,  \* num_completed_requests
  stopped,    \* whether the context is stopped
  executing,  \* whether execute() is in run()
  executes    \* calls of execute() so far

queryVars == <<added, op, finished, desc, code, result>>
peerVars  == <<sent, closed>>
loopVars  == <<timer, completed, stopped>>
callVars  == <<executing, executes>>
tcpVars  == <<queryVars, peerVars, loopVars, callVars>>

Operation == {"resolve", "connect", "write", "read"}
NoDesc == ""

TcpTypeOK ==
  /\ added \subseteq Query /\ finished \subseteq added /\ closed \subseteq added
  /\ op \in [Query -> Operation \cup {"none", "over"}]
  /\ \A q \in Query : q \in added <=> op[q] # "none"
  /\ desc \in [Query -> Operation \cup {NoDesc}]
  /\ code \in [Query -> {"ok", "failed", "timed_out"}]
  /\ result \in [Query -> 0 .. MaxData] /\ sent \in [Query -> 0 .. MaxData]
  /\ \A q \in Query : result[q] <= sent[q]
  /\ timer \in {"waiting", "expired", "cancelled", "over"}
  /\ completed = Cardinality({q \in Query : op[q] = "over"})
  /\ stopped \in BOOLEAN /\ executing \in BOOLEAN /\ executes \in 0 .. MaxExecutes

(* The constructor starts the timer.                                        *)
TcpInit ==
  /\ added = {} /\ finished = {} /\ closed = {}
  /\ op = [q \in Query |-> "none"]
  /\ desc = [q \in Query |-> NoDesc] /\ code = [q \in Query |-> "ok"]
  /\ result = [q \in Query |-> 0] /\ sent = [q \in Query |-> 0]
  /\ timer = "waiting" /\ completed = 0 /\ stopped = FALSE
  /\ executing = FALSE /\ executes = 0

-----------------------------------------------------------------------------

(* A second query of the same identifier is refused with an exception.      *)
AddQuery(q) ==
  /\ ~executing /\ q \notin added
  /\ added' = added \cup {q} /\ op' = [op EXCEPT ![q] = "resolve"]
  /\ UNCHANGED <<finished, desc, code, result, peerVars, loopVars, callVars>>

ExecuteBegin ==
  /\ ~executing /\ added # {} /\ executes < MaxExecutes
  /\ executing' = TRUE /\ executes' = executes + 1
  /\ UNCHANGED <<queryVars, peerVars, loopVars>>

OutOfWork == timer = "over" /\ \A q \in added : op[q] = "over"

FaultExecuteEnd ==  \* fault: an unfinished query is not marked
  /\ executing /\ (stopped \/ OutOfWork)
  /\ stopped' = TRUE /\ executing' = FALSE
  /\ UNCHANGED <<queryVars, peerVars, timer, completed, executes>>

(* run() returns once the context is stopped or out of work, which stops    *)
(* it; then every query whose input has not ended is marked.                *)
ExecuteEnd ==
  /\ executing /\ (stopped \/ OutOfWork)
  /\ stopped' = TRUE /\ executing' = FALSE
  /\ desc' = [q \in Query |-> IF q \in added \ finished THEN NoDesc ELSE desc[q]]
  /\ code' = [q \in Query |-> IF q \in added \ finished THEN "timed_out" ELSE code[q]]
  /\ UNCHANGED <<added, op, finished, result, peerVars, timer, completed, executes>>

(* stop(), of another thread.                                               *)
Stop ==
  /\ MayStop /\ ~stopped
  /\ stopped' = TRUE
  /\ UNCHANGED <<queryVars, peerVars, timer, completed, callVars>>

-----------------------------------------------------------------------------
Handling == executing /\ ~stopped

TimerExpires ==
  /\ timer = "waiting"
  /\ timer' = "expired"
  /\ UNCHANGED <<queryVars, peerVars, completed, stopped, callVars>>

FaultOnTimer ==  \* fault: the error code is tested the wrong way round
  /\ Handling /\ timer \in {"expired", "cancelled"}
  /\ timer' = "over" /\ stopped' = (timer = "cancelled")
  /\ UNCHANGED <<queryVars, peerVars, completed, callVars>>

OnTimer ==
  /\ Handling /\ timer \in {"expired", "cancelled"}
  /\ timer' = "over" /\ stopped' = (timer = "expired")
  /\ UNCHANGED <<queryVars, peerVars, completed, callVars>>

FaultReportRequestComplete(q) ==  \* fault: the timer is cancelled one query too early
  /\ op' = [op EXCEPT ![q] = "over"]
  /\ completed' = completed + 1
  /\ timer' = IF completed' + 1 >= Cardinality(added) /\ timer = "waiting" THEN "cancelled" ELSE timer

ReportRequestComplete(q) ==
  /\ op' = [op EXCEPT ![q] = "over"]
  /\ completed' = completed + 1
  /\ timer' = IF completed' >= Cardinality(added) /\ timer = "waiting" THEN "cancelled" ELSE timer

ReportError(q) ==
  /\ desc' = [desc EXCEPT ![q] = op[q]] /\ code' = [code EXCEPT ![q] = "failed"]
  /\ ReportRequestComplete(q)

(* Any operation may fail.                                                  *)
Fail(q) ==
  /\ Handling /\ op[q] \in Operation
  /\ ReportError(q)
  /\ UNCHANGED <<added, finished, result, peerVars, stopped, callVars>>

Proceed(q, from, to) ==
  /\ Handling /\ op[q] = from
  /\ op' = [op EXCEPT ![q] = to]
  /\ UNCHANGED <<added, finished, desc, code, result, peerVars, loopVars, callVars>>

OnEndpointResolved(q) == Proceed(q, "resolve", "connect")
OnConnected(q)        == Proceed(q, "connect", "write")
OnRequestSent(q)      == Proceed(q, "write", "read")

OnDataReceived(q) ==
  /\ Handling /\ op[q] = "read" /\ result[q] < sent[q]
  /\ result' = [result EXCEPT ![q] = @ + 1]
  /\ UNCHANGED <<added, op, finished, desc, code, peerVars, loopVars, callVars>>

OnEndOfInput(q) ==
  /\ Handling /\ op[q] = "read" /\ q \in closed /\ result[q] = sent[q]
  /\ finished' = finished \cup {q}
  /\ ReportRequestComplete(q)
  /\ UNCHANGED <<added, desc, code, result, peerVars, stopped, callVars>>

-----------------------------------------------------------------------------
(* The peer answers while it reads the request, or after it.                *)
Open(q) == op[q] \in {"write", "read"} /\ q \notin closed

PeerSends(q) ==
  /\ Open(q) /\ sent[q] < MaxData
  /\ sent' = [sent EXCEPT ![q] = @ + 1]
  /\ UNCHANGED <<queryVars, closed, loopVars, callVars>>

PeerCloses(q) ==
  /\ Open(q)
  /\ closed' = closed \cup {q}
  /\ UNCHANGED <<queryVars, sent, loopVars, callVars>>

-----------------------------------------------------------------------------
Handler(q) ==
  OnEndpointResolved(q) \/ OnConnected(q) \/ OnRequestSent(q) \/ OnDataReceived(q) \/ OnEndOfInput(q)

TcpNext ==
  \/ \E q \in Query : AddQuery(q) \/ Handler(q) \/ Fail(q) \/ PeerSends(q) \/ PeerCloses(q)
  \/ ExecuteBegin \/ ExecuteEnd \/ Stop \/ TimerExpires \/ OnTimer

TcpSpec == TcpInit /\ [][TcpNext]_tcpVars

(* A steady clock reaches the deadline; asio runs what is due; the network  *)
(* owes nothing.                                                            *)
TcpFairSpec == TcpSpec /\ WF_tcpVars(TimerExpires) /\ WF_tcpVars(OnTimer) /\ WF_tcpVars(ExecuteEnd)

-----------------------------------------------------------------------------
Whole(q) == q \in closed /\ result[q] = sent[q]

(* When execute() returns a query is without an error exactly if its peer   *)
(* has closed the connection and all it sent is in the result; whatever     *)
(* happens later, a result that was whole stays so.                         *)
AnswersTold ==
  [][/\ executing /\ ~executing' => \A q \in added : code'[q] = "ok" <=> Whole(q) /\ q \in finished
     /\ \A q \in finished : result'[q] = result[q] /\ code'[q] = "ok"]_tcpVars

(* While a query is under way in a live context the timer is waiting or     *)
(* about to stop it; once none is, nobody waits for the timer.              *)
TimerWhileWaiting ==
  ~stopped /\ added # {} =>
    IF \A q \in added : op[q] = "over" THEN timer # "waiting" ELSE timer \in {"waiting", "expired"}

(* execute() returns, even if no peer ever answers.                         *)
ExecuteReturns == executing ~> ~executing

=============================================================================
