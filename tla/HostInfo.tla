------------------------------ MODULE HostInfo ------------------------------
(***************************************************************************)
(* The background reverse-DNS resolver (spine/HostInfo.cpp).  Request and  *)
(* admin threads (Caller) call prefetch() and getHostName(); worker        *)
(* threads take addresses from a bounded, deduplicated queue, resolve them *)
(* without holding the lock and store the answer in a cache; shutdown() is *)
(* called by a Stopper and joins the workers.                              *)
(*                                                                         *)
(* Every action is one critical section of itsMutex, or one step a thread  *)
(* takes between two of them.  A condition-variable wait is explicit: a    *)
(* worker in "wait" is parked until notified (or woken spuriously), and    *)
(* only then evaluates its predicate again.                                *)
(***************************************************************************)
EXTENDS Naturals, FiniteSets, Sequences

CONSTANTS
  Ip,        \* normalised, non-empty client addresses
  Caller,    \* threads that call prefetch() and getHostName()
  Worker,    \* identities for worker threads; joined ones are reused
  Stopper,   \* threads that call shutdown()
  Options,   \* the policies configure() may be called with
  Default,   \* the policy in force before configure()
  CacheSize, \* capacity of the LRU cache
  PendingLimit, \* no policy allows more pending lookups
  NoIp       \* a worker or caller that holds no address

Policy == [enabled : BOOLEAN, threads : Nat, maxQueue : Nat]

ASSUME HostInfoAssumption ==
  /\ NoIp \notin Ip
  /\ IsFiniteSet(Ip) /\ IsFiniteSet(Worker)
  /\ Options \subseteq Policy
  /\ Default \in Policy /\ Default.maxQueue > 0
  /\ CacheSize \in Nat \ {0}
  /\ PendingLimit \in Nat \ {0}
  /\ \A o \in Options \cup {Default} : o.maxQueue <= PendingLimit

Missing == "missing"  \* no entry; the others: the entry's TTL holds or has lapsed
Fresh == "fresh"
Stale == "stale"

VARIABLES
  policy,    \* itsEnabled, the thread count and itsMaxQueueSize
  cache,     \* freshness of each address's entry, or Missing
  queue,     \* itsQueue
  inFlight,  \* itsInFlight
  workers,   \* itsWorkers, as a set of identities
  running,   \* itsRunning
  stop,      \* itsStop
  wpc,       \* where each worker thread is
  wip,       \* the address a worker has taken from the queue
  cpc,       \* where each caller is: "idle", or between its cache read and the lock
  cip,       \* the address that caller works on
  spc,       \* where each stopper is
  joining    \* the worker threads a stopper has swapped out and must join

shared == <<policy, cache, queue, inFlight>>
threadVars == <<workers, running, stop>>
vars == <<policy, cache, queue, inFlight, workers, running, stop, wpc, wip, cpc, cip, spc, joining>>

TypeOK ==
  /\ policy \in Policy /\ policy.maxQueue > 0
  /\ cache \in [Ip -> {Missing, Fresh, Stale}]
  /\ queue \in Seq(Ip)
  /\ inFlight \in SUBSET Ip
  /\ workers \in SUBSET Worker
  /\ running \in BOOLEAN /\ stop \in BOOLEAN
  /\ wpc \in [Worker -> {"none", "top", "wait", "lookup", "settle", "done"}]
  /\ wip \in [Worker -> Ip \cup {NoIp}]
  /\ cpc \in [Caller -> {"idle", "prefetch", "getHostName"}]
  /\ cip \in [Caller -> Ip \cup {NoIp}]
  /\ spc \in [Stopper -> {"idle", "notify", "join"}]
  /\ joining \in [Stopper -> SUBSET Worker]

Init ==
  /\ policy = Default
  /\ cache = [i \in Ip |-> Missing]
  /\ queue = <<>> /\ inFlight = {}
  /\ workers = {} /\ running = FALSE /\ stop = FALSE
  /\ wpc = [w \in Worker |-> "none"]
  /\ wip = [w \in Worker |-> NoIp]
  /\ cpc = [c \in Caller |-> "idle"]
  /\ cip = [c \in Caller |-> NoIp]
  /\ spc = [s \in Stopper |-> "idle"]
  /\ joining = [s \in Stopper |-> {}]

-----------------------------------------------------------------------------
(* startWorkersLocked: at least n threads in itsWorkers, and the resolver   *)
(* running.  New threads begin at the top of workerLoop.                    *)
StartWorkers(n, started) ==
  /\ started \subseteq {w \in Worker : wpc[w] = "none"}
  /\ Cardinality(started) = IF Cardinality(workers) < n THEN n - Cardinality(workers) ELSE 0
  /\ workers' = workers \cup started
  /\ running' = TRUE
  /\ stop' = (running /\ stop)

(* notify_one moves one parked worker, if there is one, to the top of its   *)
(* wait loop; begun are the threads the same step has started.              *)
NotifyOne(begun) ==
  LET parked == {w \in Worker : wpc[w] = "wait"}
      start == [w \in Worker |-> IF w \in begun THEN "top" ELSE wpc[w]]
  IN IF parked = {} THEN wpc' = start
     ELSE \E w \in parked : wpc' = [start EXCEPT ![w] = "top"]

(* configure: adopt a policy and, when enabled, start its threads.          *)

Adopted(o) == [o EXCEPT !.maxQueue = IF @ = 0 THEN 1 ELSE @]

Configure(o, started) ==
  /\ policy' = Adopted(o)
  /\ IF o.enabled
     THEN /\ StartWorkers(IF o.threads = 0 THEN 1 ELSE o.threads, started)
          /\ wpc' = [w \in Worker |-> IF w \in started THEN "top" ELSE wpc[w]]
     ELSE started = {} /\ UNCHANGED <<threadVars, wpc>>
  /\ UNCHANGED <<cache, queue, inFlight, wip, cpc, cip, spc, joining>>

(* prefetch, up to the lock: an address whose entry is fresh needs nothing. *)
Prefetch(c, i) ==
  /\ cpc[c] = "idle" /\ policy.enabled
  /\ cache[i] # Fresh
  /\ cpc' = [cpc EXCEPT ![c] = "prefetch"]
  /\ cip' = [cip EXCEPT ![c] = i]
  /\ UNCHANGED <<shared, threadVars, wpc, wip, spc, joining>>

(* getHostName, up to the lock: only a stale entry leads to more than a read.*)
GetHostName(c, i) ==
  /\ cpc[c] = "idle" /\ policy.enabled
  /\ cache[i] = Stale
  /\ cpc' = [cpc EXCEPT ![c] = "getHostName"]
  /\ cip' = [cip EXCEPT ![c] = i]
  /\ UNCHANGED <<shared, threadVars, wpc, wip, spc, joining>>

(* scheduleResolve: under the lock, restart the workers if they have been   *)
(* stopped, then enqueue unless the address is pending or the pool is full. *)
FaultAdmissibleTwice(i) == Cardinality(inFlight) < policy.maxQueue  \* fault: no dedup

Admissible(i) == i \notin inFlight /\ Cardinality(inFlight) < policy.maxQueue

ScheduleResolve(c, started) ==
  /\ cpc[c] # "idle"
  /\ StartWorkers(1, started)
  /\ IF Admissible(cip[c])
     THEN /\ inFlight' = inFlight \cup {cip[c]}
          /\ queue' = Append(queue, cip[c])
          /\ NotifyOne(started)
     ELSE /\ wpc' = [w \in Worker |-> IF w \in started THEN "top" ELSE wpc[w]]
          /\ UNCHANGED <<queue, inFlight>>
  /\ cpc' = [cpc EXCEPT ![c] = "idle"]
  /\ cip' = [cip EXCEPT ![c] = NoIp]
  /\ UNCHANGED <<policy, cache, wip, spc, joining>>

-----------------------------------------------------------------------------
(* workerLoop, the locked part: park, return, or take the next address.     *)
WorkerPark(w) ==
  /\ wpc[w] = "top" /\ ~stop /\ queue = <<>>
  /\ wpc' = [wpc EXCEPT ![w] = "wait"]
  /\ UNCHANGED <<shared, threadVars, wip, cpc, cip, spc, joining>>

FaultWorkerReturn(w) ==  \* fault: stop without draining the queue
  /\ wpc[w] = "top" /\ stop
  /\ wpc' = [wpc EXCEPT ![w] = "done"]
  /\ UNCHANGED <<shared, threadVars, wip, cpc, cip, spc, joining>>

WorkerReturn(w) ==
  /\ wpc[w] = "top" /\ stop /\ queue = <<>>
  /\ wpc' = [wpc EXCEPT ![w] = "done"]
  /\ UNCHANGED <<shared, threadVars, wip, cpc, cip, spc, joining>>

WorkerTake(w) ==
  /\ wpc[w] = "top" /\ queue # <<>>
  /\ wip' = [wip EXCEPT ![w] = Head(queue)]
  /\ queue' = Tail(queue)
  /\ wpc' = [wpc EXCEPT ![w] = "lookup"]
  /\ UNCHANGED <<policy, cache, inFlight, threadVars, cpc, cip, spc, joining>>

SpuriousWakeup(w) ==
  /\ wpc[w] = "wait"
  /\ wpc' = [wpc EXCEPT ![w] = "top"]
  /\ UNCHANGED <<shared, threadVars, wip, cpc, cip, spc, joining>>

(* blockingLookup and cacheStore: the answer, positive or negative, enters  *)
(* the cache; a full cache drops another entry (LRU order is abstracted).   *)
Cached == {i \in Ip : cache[i] # Missing}

WorkerResolve(w) ==
  /\ wpc[w] = "lookup"
  /\ LET i == wip[w]
         stored == [cache EXCEPT ![i] = Fresh]
     IN IF i \in Cached \/ Cardinality(Cached) < CacheSize
        THEN cache' = stored
        ELSE \E victim \in Cached : cache' = [stored EXCEPT ![victim] = Missing]
  /\ wpc' = [wpc EXCEPT ![w] = "settle"]
  /\ UNCHANGED <<policy, queue, inFlight, threadVars, wip, cpc, cip, spc, joining>>

(* workerLoop, the last locked part: the address is no longer pending.      *)
WorkerSettle(w) ==
  /\ wpc[w] = "settle"
  /\ inFlight' = inFlight \ {wip[w]}
  /\ wip' = [wip EXCEPT ![w] = NoIp]
  /\ wpc' = [wpc EXCEPT ![w] = "top"]
  /\ UNCHANGED <<policy, cache, queue, threadVars, cpc, cip, spc, joining>>

(* The clock passes an entry's expiry.                                      *)
Expire(i) ==
  /\ cache[i] = Fresh
  /\ cache' = [cache EXCEPT ![i] = Stale]
  /\ UNCHANGED <<policy, queue, inFlight, threadVars, wpc, wip, cpc, cip, spc, joining>>

-----------------------------------------------------------------------------
(* shutdown: flag and swap under the lock, then notify, then join.  A call  *)
(* that finds the resolver stopped returns at once and is no step.          *)
ShutdownBegin(s) ==
  /\ spc[s] = "idle" /\ running
  /\ running' = FALSE
  /\ stop' = TRUE
  /\ joining' = [joining EXCEPT ![s] = workers]
  /\ workers' = {}
  /\ spc' = [spc EXCEPT ![s] = "notify"]
  /\ UNCHANGED <<shared, wpc, wip, cpc, cip>>

FaultShutdownNotify(s) ==  \* fault: nobody is notified of the stop
  /\ spc[s] = "notify"
  /\ spc' = [spc EXCEPT ![s] = "join"]
  /\ UNCHANGED <<shared, threadVars, wpc, wip, cpc, cip, joining>>

ShutdownNotify(s) ==
  /\ spc[s] = "notify"
  /\ wpc' = [w \in Worker |-> IF wpc[w] = "wait" THEN "top" ELSE wpc[w]]
  /\ spc' = [spc EXCEPT ![s] = "join"]
  /\ UNCHANGED <<shared, threadVars, wip, cpc, cip, joining>>

ShutdownJoin(s) ==
  /\ spc[s] = "join"
  /\ \A w \in joining[s] : wpc[w] = "done"
  /\ wpc' = [w \in Worker |-> IF w \in joining[s] THEN "none" ELSE wpc[w]]
  /\ joining' = [joining EXCEPT ![s] = {}]
  /\ spc' = [spc EXCEPT ![s] = "idle"]
  /\ UNCHANGED <<shared, threadVars, wip, cpc, cip>>

-----------------------------------------------------------------------------
CallerStep(c) ==
  \/ \E i \in Ip : Prefetch(c, i) \/ GetHostName(c, i)
  \/ \E started \in SUBSET Worker : ScheduleResolve(c, started)

WorkerStep(w) ==
  WorkerPark(w) \/ WorkerReturn(w) \/ WorkerTake(w) \/ WorkerResolve(w) \/ WorkerSettle(w)

StopperStep(s) == ShutdownBegin(s) \/ ShutdownNotify(s) \/ ShutdownJoin(s)

Next ==
  \/ \E o \in Options, started \in SUBSET Worker : Configure(o, started)
  \/ \E c \in Caller : CallerStep(c)
  \/ \E w \in Worker : WorkerStep(w) \/ SpuriousWakeup(w)
  \/ \E i \in Ip : Expire(i)
  \/ \E s \in Stopper : StopperStep(s)

Spec == Init /\ [][Next]_vars

(* A thread that can run does run; nobody has to call anything, and a       *)
(* caller that has read the cache goes on to the lock.                      *)
Fairness ==
  /\ \A w \in Worker : WF_vars(WorkerStep(w))
  /\ \A c \in Caller : WF_vars(\E started \in SUBSET Worker : ScheduleResolve(c, started))
  /\ \A s \in Stopper : WF_vars(ShutdownNotify(s) \/ ShutdownJoin(s))

FairSpec == Spec /\ Fairness

-----------------------------------------------------------------------------
Busy == {w \in Worker : wpc[w] \in {"lookup", "settle"}}
Taken == {wip[w] : w \in Busy}
Queued == {queue[k] : k \in DOMAIN queue}

(* Single flight: the pending addresses are exactly those queued and those  *)
(* in the hands of a worker, no address is queued twice, queued while it is *)
(* being resolved, or resolved by two workers (itsInFlight's purpose).      *)
SingleFlight ==
  /\ inFlight = Queued \cup Taken
  /\ Queued \cap Taken = {}
  /\ \A j, k \in DOMAIN queue : queue[j] = queue[k] => j = k
  /\ \A v, w \in Busy : wip[v] = wip[w] => v = w

(* No worker thread is lost by the swap in shutdown() or by a restart: every*)
(* live thread is in itsWorkers or in exactly one shutdown() call's list,   *)
(* and none is in both.                                                     *)
WorkersOwned ==
  /\ \A w \in Worker : wpc[w] # "none" <=> w \in workers \cup UNION {joining[s] : s \in Stopper}
  /\ \A s \in Stopper : joining[s] \cap workers = {}
  /\ \A s, t \in Stopper : s # t => joining[s] \cap joining[t] = {}

(* A pending lookup always has somebody to perform it: while addresses are  *)
(* queued, some worker is neither parked nor gone (no lost wake-up, and a   *)
(* stop lets the queue drain first).                                        *)
Awake == {"top", "lookup", "settle"}

QueueAttended == queue # <<>> => \E w \in Worker : wpc[w] \in Awake

(* Whoever is pending is answered and then settled, whatever shutdown() and *)
(* restarts do in between: the resolver implements PendingLookups, with the *)
(* largest limit any policy sets.                                           *)
Lookups == INSTANCE PendingLookups
  WITH pending <- inFlight,
       answered <- {wip[w] : w \in {v \in Worker : wpc[v] = "settle"}},
       Limit <- PendingLimit

ImplementsLookups == Lookups!Spec
ImplementsFairLookups == Lookups!FairSpec

(* A shutdown() that nobody undoes returns: its workers drain the queue,    *)
(* see the flag and end, so the join ends too.                              *)
ShutdownEndsUnlessRestarted ==
  \A s \in Stopper : spc[s] # "idle" ~> (spc[s] = "idle" \/ running)

-----------------------------------------------------------------------------
(* What the documentation says and the code does not do.                    *)

(* Reactor.cpp on the call of shutdown(): the join is delayed by at most a  *)
(* DNS timeout, so it ends.                                                 *)
ShutdownEnds == \A s \in Stopper : spc[s] # "idle" ~> spc[s] = "idle"

=============================================================================
