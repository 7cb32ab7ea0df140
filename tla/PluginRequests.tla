---------------------------- MODULE PluginRequests ----------------------------
(***************************************************************************)
(* One plugin, from the initialisation that registers its URI to its       *)
(* destruction, while the server's threads send it requests                *)
(* (spine/SmartMetPlugin.cpp, DynamicPlugin.cpp, HandlerView::handle and   *)
(* shutdown_plugins of Reactor.cpp).                                       *)
(*                                                                         *)
(* The shutdown flag and both counters are atomics.  A request thread gets *)
(* a raw pointer to the view, and through it to the plugin; the shutdown   *)
(* frees the view, waits until the counters are equal, and unloads the     *)
(* plugin.  The operands of "responseCounter < requestCounter" are read    *)
(* from left to right.                                                     *)
(***************************************************************************)
EXTENDS Integers, FiniteSets

CONSTANTS
  Thread,       \* the threads of the server that route requests
  MaxRequests,  \* bound: requests that arrive
  MayThrow      \* whether request handlers may throw

ASSUME PluginRequestsAssumption ==
  IsFiniteSet(Thread) /\ MaxRequests \in Nat /\ MayThrow \in BOOLEAN

VARIABLES
  init,  \* progress of initPlugin; "active" is itsInitActive
  view,  \* the plugin's HandlerView
  down,  \* Reactor::isShuttingDown()
  requestCounter, responseCounter,
  at,    \* per thread: where its request is
  drain, \* progress of the plugin's shutdown task
  seen   \* the responses that the drain has read

vars == <<init, view, down, requestCounter, responseCounter, at, drain, seen>>

(* "routed" and "leaving" are in the view, the others in the plugin.        *)
InView == {"routed", "leaving"}
InPlugin == {"admitted", "handler", "answer"}
In(places) == {t \in Thread : at[t] \in places}

TypeOK ==
  /\ init \in {"queued", "active", "registered", "done", "failed", "dropped"}
  /\ view \in {"none", "live", "freed"}
  /\ down \in BOOLEAN
  /\ requestCounter \in Nat /\ responseCounter \in Nat
  /\ at \in [Thread -> {"idle"} \cup InView \cup InPlugin]
  /\ drain \in {"waiting", "views", "read", "compare", "drained", "closed"}
  /\ seen \in Nat
  /\ responseCounter <= requestCounter
  /\ drain # "waiting" => down
  /\ view = "live" => drain = "waiting"

Init ==
  /\ init = "queued" /\ view = "none" /\ down = FALSE
  /\ requestCounter = 0 /\ responseCounter = 0 /\ seen = 0
  /\ at = [t \in Thread |-> "idle"]
  /\ drain = "waiting"

counters == <<requestCounter, responseCounter>>

-----------------------------------------------------------------------------
(* initPlugin, a task of the reactor.  A shutdown stops the tasks: a queued *)
(* one is dropped, and one that starts nevertheless skips init().           *)
InitBegin ==
  /\ init = "queued"
  /\ init' \in {"active"} \cup (IF down THEN {"dropped"} ELSE {})
  /\ UNCHANGED <<view, down, counters, at, drain, seen>>

Register ==
  /\ init = "active"
  /\ ~down
  /\ init' = "registered" /\ view' = "live"
  /\ UNCHANGED <<down, counters, at, drain, seen>>

InitEnd ==
  /\ init = "registered" \/ (init = "active" /\ down)
  /\ init' = "done"
  /\ UNCHANGED <<view, down, counters, at, drain, seen>>

(* The exception of an init() that fails: itsInitActive is cleared first,   *)
(* then the failure is reported, which requests the shutdown.               *)
InitFail ==
  /\ init \in {"active", "registered"}
  /\ init' = "failed"
  /\ UNCHANGED <<view, down, counters, at, drain, seen>>

RequestShutdown ==
  /\ ~down
  /\ down' = TRUE
  /\ UNCHANGED <<init, view, counters, at, drain, seen>>

-----------------------------------------------------------------------------
(* A request: getHandlerView, HandlerView::handle, callRequestHandler.      *)
Go(t, from, to) == at[t] = from /\ at' = [at EXCEPT ![t] = to]

Route(t) ==
  /\ requestCounter + Cardinality(In({"routed", "admitted"})) < MaxRequests
  /\ view = "live"
  /\ Go(t, "idle", "routed")
  /\ UNCHANGED <<init, view, down, counters, drain, seen>>

InitActive == init \in {"active", "registered"}

Test(t) ==
  /\ Go(t, "routed", IF down \/ InitActive THEN "leaving" ELSE "admitted")
  /\ UNCHANGED <<init, view, down, counters, drain, seen>>

Count(t) ==
  /\ Go(t, "admitted", "handler")
  /\ requestCounter' = requestCounter + 1
  /\ UNCHANGED <<init, view, down, responseCounter, drain, seen>>

Return(t) ==
  /\ Go(t, "handler", "answer")
  /\ UNCHANGED <<init, view, down, counters, drain, seen>>

Throw(t) ==
  /\ MayThrow
  /\ Go(t, "handler", "leaving")
  /\ UNCHANGED <<init, view, down, counters, drain, seen>>

Answer(t) ==
  /\ Go(t, "answer", "leaving")
  /\ responseCounter' = responseCounter + 1
  /\ UNCHANGED <<init, view, down, requestCounter, drain, seen>>

Leave(t) ==  \* removeActiveRequest and appendLoggedRequest
  /\ Go(t, "leaving", "idle")
  /\ UNCHANGED <<init, view, down, counters, drain, seen>>

-----------------------------------------------------------------------------
(* shutdown_impl waits for the initialisation; then the plugin's task.      *)
RemoveViews ==
  /\ down /\ drain = "waiting"
  /\ init \in {"done", "failed", "dropped"}
  /\ view' = IF view = "live" THEN "freed" ELSE view
  /\ drain' = "views"
  /\ UNCHANGED <<init, down, counters, at, seen>>

(* SmartMetPlugin::shutdownPlugin: the plugin's own shutdown(), then the    *)
(* two loops.                                                               *)
ShutdownPlugin ==
  /\ drain = "views" /\ ~InitActive
  /\ drain' = "read"
  /\ UNCHANGED <<init, view, down, counters, at, seen>>

ReadResponses ==
  /\ drain = "read"
  /\ seen' = responseCounter
  /\ drain' = "compare"
  /\ UNCHANGED <<init, view, down, counters, at>>

FaultCompare ==  \* fault: one request may be left
  /\ drain = "compare"
  /\ drain' = IF seen + 1 < requestCounter THEN "read" ELSE "drained"
  /\ UNCHANGED <<init, view, down, counters, at, seen>>

FaultCompareEqual ==  \* fault: equal counters do not end the loop
  /\ drain = "compare"
  /\ drain' = IF seen <= requestCounter THEN "read" ELSE "drained"
  /\ UNCHANGED <<init, view, down, counters, at, seen>>

Compare ==
  /\ drain = "compare"
  /\ drain' = IF seen < requestCounter THEN "read" ELSE "drained"
  /\ UNCHANGED <<init, view, down, counters, at, seen>>

(* Handlers are removed once more, and the plugin is unloaded.              *)
Close ==
  /\ drain = "drained"
  /\ drain' = "closed"
  /\ UNCHANGED <<init, view, down, counters, at, seen>>

-----------------------------------------------------------------------------
(* What the plugin itself does: init(), its handlers and its shutdown().    *)
Plugin == Register \/ InitEnd \/ InitFail \/ ShutdownPlugin \/ \E t \in Thread : Return(t) \/ Throw(t)

Serve(t) == Test(t) \/ Count(t) \/ Answer(t) \/ Leave(t)
Shutdown == RemoveViews \/ ReadResponses \/ Compare \/ Close

Next ==
  \/ InitBegin \/ RequestShutdown \/ Plugin
  \/ \E t \in Thread : Route(t) \/ Serve(t)
  \/ Shutdown

Spec == Init /\ [][Next]_vars

(* Every thread runs on outside the plugin; a failed init() requests the    *)
(* shutdown.  The plugin need never return, requests need not arrive, and   *)
(* nobody need ask for the shutdown otherwise.                              *)
Fairness ==
  /\ WF_vars(InitBegin) /\ WF_vars(Shutdown)
  /\ WF_vars(init = "failed" /\ RequestShutdown)
  /\ \A t \in Thread : WF_vars(Serve(t))
FairSpec == Spec /\ Fairness

-----------------------------------------------------------------------------
(* The drain ends only when no request is in its handler: a request that is *)
(* counted before the comparison holds up the plugin's destruction.         *)
DrainWaits ==
  [][drain = "compare" /\ drain' = "drained" => In({"handler", "answer"}) = {}]_vars

(* A response is missing for good: some handler has thrown.                 *)
Apart == requestCounter - responseCounter > Cardinality(In({"handler", "answer"}))

(* The plugin never returns: from init(), its shutdown(), or a handler.     *)
PluginHangs ==
  <>[]InitActive \/ <>[](drain = "views") \/ \E t \in Thread : <>[](at[t] = "handler")

(* The plugin's shutdown ends, whatever requests are under way when it      *)
(* begins, unless a handler has thrown or the plugin never returns: the     *)
(* drain waits without a limit, but for nothing else.                       *)
ShutdownCompletesUnlessApart == down ~> (drain = "closed" \/ Apart \/ PluginHangs)

(* The initialisation never runs into the plugin's shutdown: nothing is     *)
(* registered for a plugin whose views have been removed.                   *)
InitBeforeDrain == drain # "waiting" => ~InitActive

=============================================================================
