--------------------------- MODULE NetworkProofs ----------------------------
(***************************************************************************)
(* Proofs about HostInfo: type correctness, single flight, ownership of    *)
(* the worker threads, no lost wake-up, and the refinement of              *)
(* PendingLookups, for any numbers of addresses, threads and policies; and *)
(* about TcpQueries, for any number of parallel queries.                   *)
(***************************************************************************)
EXTENDS HostInfo, TcpQueries, SequenceTheorems, FiniteSetTheorems, TLAPS

(* A caller past its cache read and a worker past the queue hold an address.*)
Holding ==
  /\ \A c \in Caller : cpc[c] # "idle" => cip[c] \in Ip
  /\ \A w \in Busy : wip[w] \in Ip

(* The stop flag is up only while there are no threads in itsWorkers; so a  *)
(* thread that has returned is on a shutdown() call's list.                 *)
StopMeansSwapped ==
  /\ stop => ~running /\ workers = {}
  /\ \A w \in workers : wpc[w] # "done"
  /\ \A s \in Stopper : spc[s] = "idle" => joining[s] = {}

-----------------------------------------------------------------------------
(* What appending and dropping the head do to the elements of a sequence    *)
(* without repetitions.                                                     *)
LEMMA AppendElements ==
  ASSUME NEW S, NEW q \in Seq(S), NEW e \in S,
         \A j, k \in DOMAIN q : q[j] = q[k] => j = k,
         e \notin {q[k] : k \in DOMAIN q}
  PROVE  /\ Append(q, e) \in Seq(S)
         /\ {Append(q, e)[k] : k \in DOMAIN Append(q, e)} = {q[k] : k \in DOMAIN q} \cup {e}
         /\ \A j, k \in DOMAIN Append(q, e) : Append(q, e)[j] = Append(q, e)[k] => j = k
<1>. DEFINE r == Append(q, e)
<1>1. /\ r \in Seq(S) /\ Len(r) = Len(q) + 1 /\ r[Len(q) + 1] = e
      /\ \A k \in 1 .. Len(q) : r[k] = q[k]
  BY AppendProperties
<1>2. DOMAIN q = 1 .. Len(q) /\ DOMAIN r = 1 .. (Len(q) + 1) /\ Len(q) \in Nat
  BY <1>1, LenProperties
<1>3. DOMAIN r = DOMAIN q \cup {Len(q) + 1} /\ Len(q) + 1 \notin DOMAIN q
  BY <1>2
<1>. HIDE DEF r
<1>4. {r[k] : k \in DOMAIN r} = {q[k] : k \in DOMAIN q} \cup {e}
  BY <1>1, <1>2, <1>3
<1>5. \A j, k \in DOMAIN r : r[j] = r[k] => j = k
  BY <1>1, <1>2, <1>3
<1>. QED  BY <1>1, <1>4, <1>5 DEF r

LEMMA TailElements ==
  ASSUME NEW S, NEW q \in Seq(S), q # <<>>,
         \A j, k \in DOMAIN q : q[j] = q[k] => j = k
  PROVE  /\ Head(q) \in S /\ Tail(q) \in Seq(S)
         /\ {q[k] : k \in DOMAIN q} = {Tail(q)[k] : k \in DOMAIN Tail(q)} \cup {Head(q)}
         /\ Head(q) \notin {Tail(q)[k] : k \in DOMAIN Tail(q)}
         /\ \A j, k \in DOMAIN Tail(q) : Tail(q)[j] = Tail(q)[k] => j = k
<1>. DEFINE t == Tail(q)
<1>1. /\ Head(q) \in S /\ t \in Seq(S) /\ Len(t) = Len(q) - 1
      /\ \A k \in 1 .. Len(t) : t[k] = q[k + 1]
      /\ Head(q) = q[1] /\ Len(q) \in Nat /\ Len(q) > 0
  BY HeadTailProperties, LenProperties, EmptySeq
<1>2. DOMAIN q = 1 .. Len(q) /\ DOMAIN t = 1 .. (Len(q) - 1)
  BY <1>1, LenProperties
<1>. HIDE DEF t
<1>3. ASSUME NEW k \in DOMAIN q PROVE q[k] = Head(q) \/ (k - 1 \in DOMAIN t /\ q[k] = t[k - 1])
  BY <1>1, <1>2
<1>4. ASSUME NEW k \in DOMAIN t PROVE k + 1 \in DOMAIN q /\ t[k] = q[k + 1]
  BY <1>1, <1>2
<1>5. {q[k] : k \in DOMAIN q} = {t[k] : k \in DOMAIN t} \cup {Head(q)}
  BY <1>1, <1>2, <1>3, <1>4
<1>6. Head(q) \notin {t[k] : k \in DOMAIN t}
  BY <1>1, <1>2, <1>4, SMTT(60)
<1>7. \A j, k \in DOMAIN t : t[j] = t[k] => j = k
  BY <1>1, <1>2, <1>4, SMTT(60)
<1>. QED  BY <1>1, <1>5, <1>6, <1>7 DEF t

-----------------------------------------------------------------------------
(* Type correctness; the held addresses are carried along because they are  *)
(* what is appended to the queue.                                           *)
LEMMA TypeInit == Init => TypeOK /\ Holding
<1>1. Init => Default \in Policy /\ Default.maxQueue > 0 /\ <<>> \in Seq(Ip)
  BY HostInfoAssumption
<1>2. Init => running \in BOOLEAN /\ stop \in BOOLEAN
  BY DEF Init
<1>. QED  BY <1>1, <1>2 DEF Init, TypeOK, Holding, Busy, Missing

LEMMA TypeStep ==
  ASSUME TypeOK, Holding, [Next]_vars
  PROVE  TypeOK' /\ Holding'
<1>. USE DEF TypeOK, Holding, Busy
<1>1. ASSUME NEW o \in Options, NEW started \in SUBSET Worker, Configure(o, started)
      PROVE  TypeOK' /\ Holding'
  <2>1. o \in Policy
    BY HostInfoAssumption
  <2>2. Adopted(o) \in Policy /\ Adopted(o).maxQueue > 0
    BY <2>1, SMTT(60) DEF Adopted, Policy
  <2>3. running' \in BOOLEAN /\ stop' \in BOOLEAN
    BY <1>1 DEF Configure, StartWorkers, threadVars
  <2>4. /\ workers' \in SUBSET Worker /\ UNCHANGED <<cache, queue, inFlight, wip, cpc, cip, spc, joining>>
        /\ wpc' \in [Worker -> {"none", "top", "wait", "lookup", "settle", "done"}]
        /\ \A w \in Worker : wpc'[w] \in {"lookup", "settle"} => wpc[w] \in {"lookup", "settle"}
        /\ policy' = Adopted(o)
    BY <1>1 DEF Configure, StartWorkers, threadVars
  <2>. QED  BY <2>2, <2>3, <2>4
<1>2. ASSUME NEW c \in Caller, NEW i \in Ip, Prefetch(c, i) \/ GetHostName(c, i)
      PROVE  TypeOK' /\ Holding'
  BY <1>2, ZenonT(60) DEF Prefetch, GetHostName, shared, threadVars
<1>3. ASSUME NEW c \in Caller, NEW started \in SUBSET Worker, ScheduleResolve(c, started)
      PROVE  TypeOK' /\ Holding'
  <2>1. /\ cip[c] \in Ip
        /\ wpc' \in [Worker -> {"none", "top", "wait", "lookup", "settle", "done"}]
        /\ \A w \in Worker : wpc'[w] \in {"lookup", "settle"} => wpc[w] \in {"lookup", "settle"}
    BY <1>3, ZenonT(60) DEF ScheduleResolve, NotifyOne
  <2>2. Append(queue, cip[c]) \in Seq(Ip)
    BY <2>1, AppendProperties
  <2>. QED  BY <1>3, <2>1, <2>2, ZenonT(60) DEF ScheduleResolve, StartWorkers
<1>4. ASSUME NEW w \in Worker, WorkerPark(w) \/ WorkerReturn(w) \/ SpuriousWakeup(w)
      PROVE  TypeOK' /\ Holding'
  BY <1>4 DEF WorkerPark, WorkerReturn, SpuriousWakeup, shared, threadVars
<1>5. ASSUME NEW w \in Worker, WorkerTake(w)
      PROVE  TypeOK' /\ Holding'
  <2>1. Head(queue) \in Ip /\ Tail(queue) \in Seq(Ip)
    BY <1>5, HeadTailProperties DEF WorkerTake
  <2>. QED  BY <1>5, <2>1 DEF WorkerTake, threadVars
<1>6. ASSUME NEW w \in Worker, WorkerResolve(w)
      PROVE  TypeOK' /\ Holding'
  BY <1>6 DEF WorkerResolve, Cached, threadVars, Missing, Fresh
<1>7. ASSUME NEW w \in Worker, WorkerSettle(w)
      PROVE  TypeOK' /\ Holding'
  BY <1>7 DEF WorkerSettle, threadVars
<1>8. ASSUME NEW i \in Ip, Expire(i)
      PROVE  TypeOK' /\ Holding'
  BY <1>8 DEF Expire, threadVars, Stale
<1>9. ASSUME NEW s \in Stopper, StopperStep(s)
      PROVE  TypeOK' /\ Holding'
  <2>1. CASE ShutdownBegin(s)
    <3>1. running' \in BOOLEAN /\ stop' \in BOOLEAN
      BY <2>1 DEF ShutdownBegin
    <3>. QED  BY <2>1, <3>1 DEF ShutdownBegin, shared
  <2>2. CASE ShutdownNotify(s)
    BY <2>2 DEF ShutdownNotify, shared, threadVars
  <2>3. CASE ShutdownJoin(s)
    BY <2>3 DEF ShutdownJoin, shared, threadVars
  <2>. QED  BY <1>9, <2>1, <2>2, <2>3 DEF StopperStep
<1>10. CASE UNCHANGED vars
  BY <1>10 DEF vars
<1>. QED
  BY <1>1, <1>2, <1>3, <1>4, <1>5, <1>6, <1>7, <1>8, <1>9, <1>10 DEF Next, CallerStep, WorkerStep

(* Type correctness of every behaviour (all of HostInfo.cpp's state).       *)
THEOREM TypeCorrect == Spec => []TypeOK
<1>1. TypeOK /\ Holding /\ [Next]_vars => TypeOK' /\ Holding'
  BY TypeStep
<1>. QED  BY TypeInit, <1>1, PTL DEF Spec

-----------------------------------------------------------------------------
(* Single flight.  Only enqueueing, taking and settling touch the pending   *)
(* addresses; every other action leaves the queue, the set and who is busy  *)
(* with what as they were.                                                  *)
LEMMA FlightFrame ==
  ASSUME TypeOK, SingleFlight, queue' = queue, inFlight' = inFlight, wip' = wip, Busy' = Busy
  PROVE  SingleFlight'
BY DEF SingleFlight, Queued, Taken

LEMMA FlightStep ==
  ASSUME TypeOK, Holding, SingleFlight, [Next]_vars
  PROVE  SingleFlight'
<1>1. ASSUME NEW o \in Options, NEW started \in SUBSET Worker, Configure(o, started)
      PROVE  SingleFlight'
  BY <1>1, FlightFrame DEF Configure, StartWorkers, Busy, TypeOK
<1>2. ASSUME NEW c \in Caller, NEW i \in Ip, Prefetch(c, i) \/ GetHostName(c, i)
      PROVE  SingleFlight'
  BY <1>2, FlightFrame DEF Prefetch, GetHostName, shared, Busy
<1>3. ASSUME NEW c \in Caller, NEW started \in SUBSET Worker, ScheduleResolve(c, started)
      PROVE  SingleFlight'
  <2>1. Busy' = Busy /\ wip' = wip
    BY <1>3, ZenonT(60) DEF ScheduleResolve, StartWorkers, NotifyOne, Busy, TypeOK
  <2>2. CASE Admissible(cip[c])
    <3>1. cip[c] \in Ip /\ cip[c] \notin inFlight
      BY <1>3, <2>2 DEF Holding, ScheduleResolve, Admissible
    <3>2. queue \in Seq(Ip) /\ cip[c] \notin Queued /\ \A j, k \in DOMAIN queue : queue[j] = queue[k] => j = k
      BY <3>1 DEF SingleFlight, TypeOK
    <3>3. queue' = Append(queue, cip[c]) /\ inFlight' = inFlight \cup {cip[c]}
      BY <1>3, <2>2 DEF ScheduleResolve
    <3>4. /\ Queued' = Queued \cup {cip[c]}
          /\ \A j, k \in DOMAIN queue' : queue'[j] = queue'[k] => j = k
      BY <3>1, <3>2, <3>3, AppendElements DEF Queued
    <3>5. Taken' = Taken
      BY <2>1 DEF Taken
    <3>. QED  BY <2>1, <3>1, <3>3, <3>4, <3>5 DEF SingleFlight
  <2>3. CASE ~Admissible(cip[c])
    BY <1>3, <2>1, <2>3, FlightFrame DEF ScheduleResolve
  <2>. QED  BY <2>2, <2>3
<1>4. ASSUME NEW w \in Worker, WorkerPark(w) \/ WorkerReturn(w) \/ SpuriousWakeup(w)
      PROVE  SingleFlight'
  BY <1>4, FlightFrame DEF WorkerPark, WorkerReturn, SpuriousWakeup, shared, Busy, TypeOK
<1>5. ASSUME NEW w \in Worker, WorkerTake(w)
      PROVE  SingleFlight'
  <2>1. /\ w \notin Busy /\ Busy' = Busy \cup {w} /\ inFlight' = inFlight
        /\ wip'[w] = Head(queue) /\ \A v \in Busy : wip'[v] = wip[v]
        /\ queue # <<>> /\ queue' = Tail(queue) /\ queue \in Seq(Ip)
    BY <1>5 DEF WorkerTake, Busy, TypeOK
  <2>2. /\ Queued = Queued' \cup {Head(queue)} /\ Head(queue) \notin Queued'
        /\ \A j, k \in DOMAIN queue' : queue'[j] = queue'[k] => j = k
    <3>1. \A j, k \in DOMAIN queue : queue[j] = queue[k] => j = k
      BY DEF SingleFlight
    <3>2. /\ Queued = {Tail(queue)[k] : k \in DOMAIN Tail(queue)} \cup {Head(queue)}
          /\ Head(queue) \notin {Tail(queue)[k] : k \in DOMAIN Tail(queue)}
          /\ \A j, k \in DOMAIN Tail(queue) : Tail(queue)[j] = Tail(queue)[k] => j = k
      BY <2>1, <3>1, TailElements, Zenon DEF Queued
    <3>3. Queued' = {Tail(queue)[k] : k \in DOMAIN Tail(queue)}
      BY <2>1 DEF Queued
    <3>. QED  BY <2>1, <3>2, <3>3
  <2>3. Taken' = Taken \cup {Head(queue)}
    BY <2>1 DEF Taken
  <2>4. Head(queue) \notin Taken
    BY <2>2 DEF SingleFlight
  <2>5. \A u, v \in Busy' : wip'[u] = wip'[v] => u = v
    BY <2>1, <2>4 DEF SingleFlight, Taken
  <2>. QED  BY <2>1, <2>2, <2>3, <2>4, <2>5 DEF SingleFlight
<1>6. ASSUME NEW w \in Worker, WorkerResolve(w)
      PROVE  SingleFlight'
  BY <1>6, FlightFrame DEF WorkerResolve, Busy, TypeOK
<1>7. ASSUME NEW w \in Worker, WorkerSettle(w)
      PROVE  SingleFlight'
  <2>1. /\ w \in Busy /\ Busy' = Busy \ {w} /\ inFlight' = inFlight \ {wip[w]}
        /\ \A v \in Busy' : wip'[v] = wip[v]
        /\ queue' = queue
    BY <1>7 DEF WorkerSettle, Busy, TypeOK
  <2>2. Taken' = Taken \ {wip[w]}
    BY <2>1 DEF SingleFlight, Taken
  <2>3. Queued' = Queued /\ wip[w] \notin Queued
    BY <2>1 DEF SingleFlight, Taken, Queued
  <2>. QED  BY <2>1, <2>2, <2>3 DEF SingleFlight
<1>8. ASSUME NEW i \in Ip, Expire(i)
      PROVE  SingleFlight'
  BY <1>8, FlightFrame DEF Expire, Busy
<1>9. ASSUME NEW s \in Stopper, StopperStep(s)
      PROVE  SingleFlight'
  <2>1. UNCHANGED shared /\ wip' = wip
    BY <1>9 DEF StopperStep, ShutdownBegin, ShutdownNotify, ShutdownJoin
  <2>2. Busy' = Busy
    BY <1>9 DEF StopperStep, ShutdownBegin, ShutdownNotify, ShutdownJoin, Busy, TypeOK
  <2>. QED  BY <2>1, <2>2, FlightFrame DEF shared
<1>10. CASE UNCHANGED vars
  BY <1>10, FlightFrame DEF vars, Busy
<1>. QED
  BY <1>1, <1>2, <1>3, <1>4, <1>5, <1>6, <1>7, <1>8, <1>9, <1>10 DEF Next, CallerStep, WorkerStep

(* Single flight, for any numbers of callers, workers and addresses.        *)
THEOREM SingleFlightAlways == Spec => []SingleFlight
<1>1. Init => TypeOK /\ Holding /\ SingleFlight
  <2>1. Init => Queued = {} /\ Taken = {} /\ Busy = {} /\ DOMAIN queue = {} /\ inFlight = {}
    BY DEF Init, Queued, Taken, Busy
  <2>. QED  BY TypeInit, <2>1 DEF SingleFlight
<1>2. TypeOK /\ Holding /\ SingleFlight /\ [Next]_vars => TypeOK' /\ Holding' /\ SingleFlight'
  BY TypeStep, FlightStep
<1>. QED  BY <1>1, <1>2, PTL DEF Spec

-----------------------------------------------------------------------------
(* Ownership of the worker threads.  A step that neither swaps nor joins,   *)
(* starts threads or ends one keeps every part.                             *)
Owned == WorkersOwned /\ StopMeansSwapped
Joined == UNION {joining[s] : s \in Stopper}

LEMMA OwnedFrame ==
  ASSUME Owned, UNCHANGED <<threadVars, spc, joining>>,
         \A w \in Worker : (wpc'[w] = "none" <=> wpc[w] = "none") /\ (wpc'[w] = "done" => wpc[w] = "done"),
         TypeOK
  PROVE  Owned'
<1>1. workers' = workers /\ joining' = joining /\ spc' = spc /\ UNCHANGED <<running, stop>>
  BY DEF threadVars
<1>2. WorkersOwned'
  BY <1>1 DEF Owned, WorkersOwned
<1>3. StopMeansSwapped'
  BY <1>1 DEF Owned, StopMeansSwapped, TypeOK
<1>. QED  BY <1>2, <1>3 DEF Owned

(* Starting threads, as configure() and scheduleResolve() do.               *)
LEMMA OwnedStart ==
  ASSUME TypeOK, Owned, NEW n \in Nat, NEW started \in SUBSET Worker, StartWorkers(n, started),
         UNCHANGED <<spc, joining>>,
         \A w \in Worker : w \in started => wpc'[w] = "top",
         \A w \in Worker \ started : (wpc'[w] = "none" <=> wpc[w] = "none") /\ (wpc'[w] = "done" => wpc[w] = "done")
  PROVE  Owned'
<1>1. /\ \A w \in started : wpc[w] = "none"
      /\ workers' = workers \cup started /\ stop' = (running /\ stop)
      /\ joining' = joining /\ spc' = spc
  BY DEF StartWorkers
<1>2. ~stop'
  BY <1>1 DEF Owned, StopMeansSwapped
<1>3. WorkersOwned'
  BY <1>1 DEF Owned, WorkersOwned, TypeOK
<1>4. StopMeansSwapped'
  BY <1>1, <1>2 DEF Owned, StopMeansSwapped, TypeOK
<1>. QED  BY <1>3, <1>4 DEF Owned

LEMMA OwnedStep ==
  ASSUME TypeOK, Owned, [Next]_vars
  PROVE  Owned'
<1>1. ASSUME NEW o \in Options, NEW started \in SUBSET Worker, Configure(o, started)
      PROVE  Owned'
  <2>1. CASE o.enabled
    <3>1. o.threads \in Nat
      BY HostInfoAssumption DEF Policy
    <3>. DEFINE n == IF o.threads = 0 THEN 1 ELSE o.threads
    <3>2. n \in Nat /\ StartWorkers(n, started) /\ UNCHANGED <<spc, joining>>
      BY <1>1, <2>1, <3>1 DEF Configure
    <3>3. wpc' = [w \in Worker |-> IF w \in started THEN "top" ELSE wpc[w]]
      BY <1>1, <2>1 DEF Configure
    <3>. QED  BY <3>2, <3>3, OwnedStart
  <2>2. CASE ~o.enabled
    BY <1>1, <2>2, OwnedFrame DEF Configure
  <2>. QED  BY <2>1, <2>2
<1>2. ASSUME NEW c \in Caller, NEW i \in Ip, Prefetch(c, i) \/ GetHostName(c, i)
      PROVE  Owned'
  BY <1>2, OwnedFrame DEF Prefetch, GetHostName
<1>3. ASSUME NEW c \in Caller, NEW started \in SUBSET Worker, ScheduleResolve(c, started)
      PROVE  Owned'
  <2>1. StartWorkers(1, started) /\ UNCHANGED <<spc, joining>>
    BY <1>3 DEF ScheduleResolve
  <2>2. /\ \A w \in started : wpc'[w] = "top"
        /\ \A w \in Worker \ started : wpc'[w] = wpc[w] \/ (wpc[w] = "wait" /\ wpc'[w] = "top")
    BY <1>3 DEF ScheduleResolve, NotifyOne, TypeOK
  <2>. QED  BY <2>1, <2>2, OwnedStart
<1>4. ASSUME NEW w \in Worker, WorkerPark(w) \/ SpuriousWakeup(w) \/ WorkerTake(w) \/ WorkerResolve(w) \/ WorkerSettle(w)
      PROVE  Owned'
  <2>1. UNCHANGED <<threadVars, spc, joining>>
    BY <1>4 DEF WorkerPark, SpuriousWakeup, WorkerTake, WorkerResolve, WorkerSettle
  <2>2. \A v \in Worker : (wpc'[v] = "none" <=> wpc[v] = "none") /\ (wpc'[v] = "done" => wpc[v] = "done")
    BY <1>4 DEF WorkerPark, SpuriousWakeup, WorkerTake, WorkerResolve, WorkerSettle, TypeOK
  <2>. QED  BY <2>1, <2>2, OwnedFrame
<1>5. ASSUME NEW w \in Worker, WorkerReturn(w)
      PROVE  Owned'
  <2>1. /\ wpc[w] = "top" /\ stop /\ wpc' = [wpc EXCEPT ![w] = "done"]
        /\ UNCHANGED <<workers, running, stop, spc, joining>>
    BY <1>5 DEF WorkerReturn, threadVars
  <2>2. workers = {}
    BY <2>1 DEF Owned, StopMeansSwapped
  <2>3. WorkersOwned'
    BY <2>1 DEF Owned, WorkersOwned, TypeOK
  <2>4. StopMeansSwapped'
    BY <2>1, <2>2 DEF Owned, StopMeansSwapped
  <2>. QED  BY <2>3, <2>4 DEF Owned
<1>6. ASSUME NEW i \in Ip, Expire(i)
      PROVE  Owned'
  BY <1>6, OwnedFrame DEF Expire
<1>7. ASSUME NEW s \in Stopper, ShutdownBegin(s)
      PROVE  Owned'
  <2>1. /\ spc[s] = "idle" /\ ~running' /\ stop' /\ wpc' = wpc
        /\ joining' = [joining EXCEPT ![s] = workers] /\ workers' = {}
        /\ spc' = [spc EXCEPT ![s] = "notify"]
    BY <1>7 DEF ShutdownBegin
  <2>2. joining[s] = {}
    BY <2>1 DEF Owned, StopMeansSwapped
  <2>3. Joined' = Joined \cup workers
    BY <2>1, <2>2 DEF Joined, TypeOK
  <2>4. WorkersOwned'
    BY <2>1, <2>2, <2>3 DEF Owned, WorkersOwned, TypeOK, Joined
  <2>5. StopMeansSwapped'
    BY <2>1 DEF Owned, StopMeansSwapped, TypeOK
  <2>. QED  BY <2>4, <2>5 DEF Owned
<1>8. ASSUME NEW s \in Stopper, ShutdownNotify(s)
      PROVE  Owned'
  <2>1. /\ spc[s] = "notify" /\ spc' = [spc EXCEPT ![s] = "join"]
        /\ wpc' = [w \in Worker |-> IF wpc[w] = "wait" THEN "top" ELSE wpc[w]]
        /\ UNCHANGED <<workers, running, stop, joining>>
    BY <1>8 DEF ShutdownNotify, threadVars
  <2>2. \A v \in Worker : (wpc'[v] = "none" <=> wpc[v] = "none") /\ (wpc'[v] = "done" => wpc[v] = "done")
    BY <2>1
  <2>3. WorkersOwned'
    BY <2>1, <2>2 DEF Owned, WorkersOwned
  <2>4. StopMeansSwapped'
    BY <2>1, <2>2 DEF Owned, StopMeansSwapped, TypeOK
  <2>. QED  BY <2>3, <2>4 DEF Owned
<1>9. ASSUME NEW s \in Stopper, ShutdownJoin(s)
      PROVE  Owned'
  <2>1. /\ spc[s] = "join" /\ spc' = [spc EXCEPT ![s] = "idle"]
        /\ \A w \in joining[s] : wpc[w] = "done"
        /\ wpc' = [w \in Worker |-> IF w \in joining[s] THEN "none" ELSE wpc[w]]
        /\ joining' = [joining EXCEPT ![s] = {}]
        /\ UNCHANGED <<workers, running, stop>>
    BY <1>9 DEF ShutdownJoin, threadVars
  <2>2. Joined' = Joined \ joining[s]
    BY <2>1 DEF Owned, WorkersOwned, TypeOK, Joined
  <2>3. WorkersOwned'
    BY <2>1, <2>2 DEF Owned, WorkersOwned, TypeOK, Joined
  <2>4. StopMeansSwapped'
    BY <2>1 DEF Owned, StopMeansSwapped, WorkersOwned, TypeOK
  <2>. QED  BY <2>3, <2>4 DEF Owned
<1>10. CASE UNCHANGED vars
  BY <1>10, OwnedFrame DEF vars, threadVars
<1>. QED
  BY <1>1, <1>2, <1>3, <1>4, <1>5, <1>6, <1>7, <1>8, <1>9, <1>10
  DEF Next, CallerStep, WorkerStep, StopperStep

LEMMA OwnedInit == Init => Owned
<1>. SUFFICES ASSUME Init PROVE Owned
  OBVIOUS
<1>1. /\ workers = {} /\ \A s \in Stopper : joining[s] = {} /\ spc[s] = "idle"
      /\ \A w \in Worker : wpc[w] = "none"
      /\ ~stop
  BY DEF Init
<1>2. Joined = {}
  BY <1>1 DEF Joined
<1>. QED  BY <1>1, <1>2 DEF Owned, WorkersOwned, StopMeansSwapped, Joined

(* No worker thread is lost, for any numbers of threads, stops and restarts.*)
THEOREM WorkersOwnedAlways == Spec => []WorkersOwned
<1>1. Init => TypeOK /\ Holding /\ Owned
  BY TypeInit, OwnedInit
<1>2. TypeOK /\ Holding /\ Owned /\ [Next]_vars => TypeOK' /\ Holding' /\ Owned'
  BY TypeStep, OwnedStep
<1>3. Owned => WorkersOwned
  BY DEF Owned
<1>. QED  BY <1>1, <1>2, <1>3, PTL DEF Spec

-----------------------------------------------------------------------------
(* No lost wake-up.  An awake worker stays awake while addresses are        *)
(* queued, and whoever enqueues makes sure that there is one.               *)
LEMMA AttendedFrame ==
  ASSUME QueueAttended, queue' # <<>> => queue # <<>>,
         \A w \in Worker : wpc[w] \in Awake => wpc'[w] \in Awake
  PROVE  QueueAttended'
BY DEF QueueAttended

LEMMA StartedNonempty ==
  ASSUME TypeOK, NEW started \in SUBSET Worker, StartWorkers(1, started)
  PROVE  workers' # {}
<1>1. IsFiniteSet(workers) /\ IsFiniteSet(started)
  BY HostInfoAssumption, FS_Subset DEF TypeOK
<1>2. CASE workers = {}
  <2>1. Cardinality(workers) = 0
    BY <1>2, FS_EmptySet
  <2>2. Cardinality(started) = 1
    BY <2>1 DEF StartWorkers
  <2>3. started # {}
    BY <2>2, FS_EmptySet
  <2>. QED  BY <2>3 DEF StartWorkers
<1>3. CASE workers # {}
  BY <1>3 DEF StartWorkers
<1>. QED  BY <1>2, <1>3

LEMMA AttendedStep ==
  ASSUME TypeOK, Owned, QueueAttended, [Next]_vars
  PROVE  QueueAttended'
<1>1. ASSUME NEW o \in Options, NEW started \in SUBSET Worker, Configure(o, started)
      PROVE  QueueAttended'
  BY <1>1, AttendedFrame DEF Configure, StartWorkers, Awake, TypeOK
<1>2. ASSUME NEW c \in Caller, NEW i \in Ip, Prefetch(c, i) \/ GetHostName(c, i)
      PROVE  QueueAttended'
  BY <1>2, AttendedFrame DEF Prefetch, GetHostName, shared
<1>3. ASSUME NEW c \in Caller, NEW started \in SUBSET Worker, ScheduleResolve(c, started)
      PROVE  QueueAttended'
  <2>1. StartWorkers(1, started)
    BY <1>3 DEF ScheduleResolve
  <2>2. CASE Admissible(cip[c])
    <3>1. PICK w \in Worker : w \in workers'
      BY <2>1, StartedNonempty DEF StartWorkers, TypeOK
    <3>2. w \in started \/ wpc[w] \in {"top", "wait", "lookup", "settle"}
      BY <2>1, <3>1 DEF StartWorkers, Owned, WorkersOwned, StopMeansSwapped, TypeOK
    <3>3. \A v \in started : wpc[v] = "none"
      BY <2>1 DEF StartWorkers
    <3>4. NotifyOne(started)
      BY <1>3, <2>2 DEF ScheduleResolve
    <3>5. \E v \in Worker : wpc'[v] \in Awake
      BY <3>1, <3>2, <3>3, <3>4 DEF NotifyOne, Awake, TypeOK
    <3>. QED  BY <3>5 DEF QueueAttended
  <2>3. CASE ~Admissible(cip[c])
    BY <1>3, <2>1, <2>3, AttendedFrame DEF ScheduleResolve, StartWorkers, Awake, TypeOK
  <2>. QED  BY <2>2, <2>3
<1>4. ASSUME NEW w \in Worker, WorkerPark(w) \/ WorkerReturn(w)
      PROVE  QueueAttended'
  BY <1>4 DEF WorkerPark, WorkerReturn, shared, QueueAttended
<1>5. ASSUME NEW w \in Worker, WorkerTake(w) \/ WorkerResolve(w) \/ WorkerSettle(w) \/ SpuriousWakeup(w)
      PROVE  QueueAttended'
  <2>1. \A v \in Worker : wpc[v] \in Awake => wpc'[v] \in Awake
    BY <1>5 DEF WorkerTake, WorkerResolve, WorkerSettle, SpuriousWakeup, Awake, TypeOK
  <2>2. queue' # <<>> => queue # <<>>
    BY <1>5 DEF WorkerTake, WorkerResolve, WorkerSettle, SpuriousWakeup, shared
  <2>. QED  BY <2>1, <2>2, AttendedFrame
<1>6. ASSUME NEW i \in Ip, Expire(i)
      PROVE  QueueAttended'
  BY <1>6, AttendedFrame DEF Expire
<1>7. ASSUME NEW s \in Stopper, StopperStep(s)
      PROVE  QueueAttended'
  <2>1. \A v \in Worker : wpc[v] \in Awake => wpc'[v] \in Awake
    BY <1>7 DEF StopperStep, ShutdownBegin, ShutdownNotify, ShutdownJoin, Awake, TypeOK
  <2>2. queue' = queue
    BY <1>7 DEF StopperStep, ShutdownBegin, ShutdownNotify, ShutdownJoin, shared
  <2>. QED  BY <2>1, <2>2, AttendedFrame
<1>8. CASE UNCHANGED vars
  BY <1>8, AttendedFrame DEF vars
<1>. QED
  BY <1>1, <1>2, <1>3, <1>4, <1>5, <1>6, <1>7, <1>8 DEF Next, CallerStep, WorkerStep

(* The resolver never leaves a queued address without an awake worker.      *)
THEOREM QueueAttendedAlways == Spec => []QueueAttended
<1>1. Init => TypeOK /\ Holding /\ Owned /\ QueueAttended
  BY TypeInit, OwnedInit DEF Init, QueueAttended
<1>2. TypeOK /\ Holding /\ Owned /\ QueueAttended /\ [Next]_vars
      => TypeOK' /\ Holding' /\ Owned' /\ QueueAttended'
  BY TypeStep, OwnedStep, AttendedStep
<1>. QED  BY <1>1, <1>2, PTL DEF Spec

-----------------------------------------------------------------------------
(* The refinement: enqueueing admits, storing the answer answers, and       *)
(* settling settles; everything else is a stutter of PendingLookups.        *)
Answered == {wip[w] : w \in {v \in Worker : wpc[v] = "settle"}}

(* The limit in force never exceeds the constant.                           *)
LimitInForce == policy.maxQueue <= PendingLimit

LEMMA LimitStep == TypeOK /\ LimitInForce /\ [Next]_vars => LimitInForce'
<1>. SUFFICES ASSUME TypeOK, LimitInForce, [Next]_vars PROVE LimitInForce'
  OBVIOUS
<1>1. CASE policy' = policy
  BY <1>1 DEF LimitInForce
<1>2. ASSUME NEW o \in Options, policy' = Adopted(o)
      PROVE  LimitInForce'
  <2>1. o \in Policy /\ o.maxQueue <= PendingLimit /\ PendingLimit >= 1
    BY HostInfoAssumption
  <2>2. Adopted(o).maxQueue = IF o.maxQueue = 0 THEN 1 ELSE o.maxQueue
    BY <2>1 DEF Adopted, Policy
  <2>. QED  BY <1>2, <2>1, <2>2 DEF LimitInForce, Policy
<1>3. (\E o \in Options : policy' = Adopted(o)) \/ policy' = policy
  BY DEF Next, CallerStep, WorkerStep, StopperStep, Configure, Prefetch, GetHostName, ScheduleResolve,
         WorkerPark, WorkerReturn, WorkerTake, WorkerResolve, WorkerSettle, SpuriousWakeup, Expire,
         ShutdownBegin, ShutdownNotify, ShutdownJoin, shared, vars
<1>. QED  BY <1>1, <1>2, <1>3

LEMMA LookupsStep ==
  ASSUME TypeOK, Holding, SingleFlight, LimitInForce, [Next]_vars
  PROVE  [Lookups!Next]_<<inFlight, Answered>>
<1>. DEFINE Stutter == inFlight' = inFlight /\ Answered' = Answered
<1>1. ASSUME NEW o \in Options, NEW started \in SUBSET Worker, Configure(o, started)
      PROVE  Stutter
  BY <1>1 DEF Configure, StartWorkers, Answered, TypeOK
<1>2. ASSUME NEW c \in Caller, NEW i \in Ip, Prefetch(c, i) \/ GetHostName(c, i)
      PROVE  Stutter
  BY <1>2 DEF Prefetch, GetHostName, shared, Answered
<1>3. ASSUME NEW c \in Caller, NEW started \in SUBSET Worker, ScheduleResolve(c, started)
      PROVE  Stutter \/ Lookups!Next
  <2>1. Answered' = Answered
    <3>1. /\ wip' = wip
          /\ \A v \in Worker : wpc'[v] = "settle" <=> wpc[v] = "settle"
      BY <1>3, ZenonT(60) DEF ScheduleResolve, StartWorkers, NotifyOne, TypeOK
    <3>. QED  BY <3>1 DEF Answered
  <2>2. CASE Admissible(cip[c])
    <3>1. PICK i \in Ip : i = cip[c]
      BY <1>3 DEF ScheduleResolve, Holding
    <3>2. IsFiniteSet(inFlight) /\ Cardinality(inFlight) \in Nat
      BY HostInfoAssumption, FS_Subset, FS_CardinalityType DEF TypeOK
    <3>3. Cardinality(inFlight) < PendingLimit
      BY <2>2, <3>2, HostInfoAssumption DEF Admissible, LimitInForce, TypeOK, Policy
    <3>4. Lookups!Admit(i)
      <4>1. i \notin inFlight /\ inFlight' = inFlight \cup {i}
        BY <1>3, <2>2, <3>1 DEF ScheduleResolve, Admissible
      <4>2. Lookups!Cardinality(inFlight) = Cardinality(inFlight)
        BY DEF Cardinality, Lookups!Cardinality
      <4>. QED  BY <2>1, <3>3, <4>1, <4>2 DEF Lookups!Admit, Answered
    <3>. QED  BY <3>4 DEF Lookups!Next
  <2>3. CASE ~Admissible(cip[c])
    BY <1>3, <2>1, <2>3 DEF ScheduleResolve
  <2>. QED  BY <2>2, <2>3
<1>4. ASSUME NEW w \in Worker, WorkerPark(w) \/ WorkerReturn(w) \/ WorkerTake(w) \/ SpuriousWakeup(w)
      PROVE  Stutter
  <2>1. inFlight' = inFlight
    BY <1>4 DEF WorkerPark, WorkerReturn, WorkerTake, SpuriousWakeup, shared
  <2>2. \A v \in Worker : /\ wpc'[v] = "settle" <=> wpc[v] = "settle"
                          /\ wpc[v] = "settle" => wip'[v] = wip[v]
    BY <1>4 DEF WorkerPark, WorkerReturn, WorkerTake, SpuriousWakeup, TypeOK
  <2>. QED  BY <2>1, <2>2 DEF Answered
<1>5. ASSUME NEW w \in Worker, WorkerResolve(w)
      PROVE  Lookups!Next
  <2>1. /\ w \in Busy /\ wpc[w] = "lookup" /\ wip' = wip /\ inFlight' = inFlight
        /\ wpc' = [wpc EXCEPT ![w] = "settle"]
    BY <1>5 DEF WorkerResolve, Busy
  <2>. PICK i \in Ip : i = wip[w]
    BY <2>1 DEF Holding
  <2>2. i \in inFlight \ Answered
    BY <2>1 DEF SingleFlight, Taken, Answered, Busy, Holding
  <2>3. Answered' = Answered \cup {i}
    BY <2>1 DEF Answered, TypeOK
  <2>4. Lookups!Answer(i)
    BY <2>1, <2>2, <2>3 DEF Lookups!Answer, Answered
  <2>. QED  BY <2>4 DEF Lookups!Next
<1>6. ASSUME NEW w \in Worker, WorkerSettle(w)
      PROVE  Lookups!Next
  <2>1. /\ w \in Busy /\ wpc[w] = "settle" /\ wip' = [wip EXCEPT ![w] = NoIp]
        /\ inFlight' = inFlight \ {wip[w]} /\ wpc' = [wpc EXCEPT ![w] = "top"]
    BY <1>6 DEF WorkerSettle, Busy
  <2>. PICK i \in Ip : i = wip[w]
    BY <2>1 DEF Holding
  <2>2. i \in Answered
    BY <2>1 DEF Answered, Busy
  <2>3. Answered' = Answered \ {i}
    BY <2>1 DEF Answered, TypeOK, SingleFlight, Busy
  <2>4. Lookups!Settle(i)
    BY <2>1, <2>2, <2>3 DEF Lookups!Settle, Answered
  <2>. QED  BY <2>4 DEF Lookups!Next
<1>7. ASSUME NEW i \in Ip, Expire(i)
      PROVE  Stutter
  BY <1>7 DEF Expire, Answered
<1>8. ASSUME NEW s \in Stopper, StopperStep(s)
      PROVE  Stutter
  BY <1>8 DEF StopperStep, ShutdownBegin, ShutdownNotify, ShutdownJoin, shared, Answered, TypeOK
<1>9. CASE UNCHANGED vars
  BY <1>9 DEF vars, Answered
<1>. QED
  BY <1>1, <1>2, <1>3, <1>4, <1>5, <1>6, <1>7, <1>8, <1>9 DEF Next, CallerStep, WorkerStep

(* The resolver implements PendingLookups.                                  *)
THEOREM RefinesPendingLookups == Spec => ImplementsLookups
<1>1. Init => TypeOK /\ Holding /\ SingleFlight /\ LimitInForce /\ Lookups!Init
  <2>1. Init => TypeOK /\ Holding
    BY TypeInit
  <2>2. Init => Queued = {} /\ Taken = {} /\ Busy = {} /\ DOMAIN queue = {} /\ inFlight = {}
    BY DEF Init, Queued, Taken, Busy
  <2>3. Init => LimitInForce
    BY HostInfoAssumption DEF Init, LimitInForce
  <2>4. Init => Lookups!Init
    BY DEF Init, Lookups!Init
  <2>. QED  BY <2>1, <2>2, <2>3, <2>4 DEF SingleFlight
<1>2. TypeOK /\ Holding /\ SingleFlight /\ LimitInForce /\ [Next]_vars
      => TypeOK' /\ Holding' /\ SingleFlight' /\ LimitInForce'
  BY TypeStep, FlightStep, LimitStep
<1>3. TypeOK /\ Holding /\ SingleFlight /\ LimitInForce /\ [Next]_vars
      => [Lookups!Next]_<<inFlight, {wip[w] : w \in {v \in Worker : wpc[v] = "settle"}}>>
  BY LookupsStep DEF Answered
<1>. QED  BY <1>1, <1>2, <1>3, PTL DEF Spec, ImplementsLookups, Lookups!Spec

-----------------------------------------------------------------------------
(* The parallel queries.  A query that has ended well stays as it ended; a  *)
(* handler runs only in execute(), so that before it every query is at its  *)
(* start and nothing has cancelled the timer.                               *)
EndedWell == \A q \in finished : op[q] = "over" /\ code[q] = "ok" /\ Whole(q)
Unmarked == ~stopped => \A q \in Query : op[q] # "over" => code[q] = "ok"
Untouched == timer \in {"waiting", "expired"} /\ \A q \in added : op[q] = "resolve"
TcpInv ==
  /\ TcpTypeOK
  /\ EndedWell /\ Unmarked
  /\ executing => added # {}
  /\ ~executing /\ ~stopped => Untouched
  /\ TimerWhileWaiting

Over == {q \in Query : op[q] = "over"}

(* completed counts the queries that are over: it reaches the number of     *)
(* queries exactly with the last of them.                                   *)
LEMMA OverCounted ==
  ASSUME TcpTypeOK, NEW q \in Query, op[q] \in Operation,
         op' = [op EXCEPT ![q] = "over"], completed' = completed + 1
  PROVE  /\ completed' = Cardinality(Over')
         /\ completed' >= Cardinality(added) <=> \A p \in added : op'[p] = "over"
<1>1. IsFiniteSet(Over) /\ IsFiniteSet(Over') /\ IsFiniteSet(added)
  BY TcpQueriesAssumption, FS_Subset DEF Over, TcpTypeOK
<1>2. Over' = Over \cup {q} /\ q \notin Over /\ Over' \subseteq added
  BY DEF Over, TcpTypeOK, Operation
<1>3. completed' = Cardinality(Over')
  BY <1>1, <1>2, FS_AddElement DEF TcpTypeOK, Over
<1>4. Cardinality(Over') \in Nat /\ Cardinality(added) \in Nat
  BY <1>1, FS_CardinalityType
<1>5. Cardinality(Over') <= Cardinality(added)
      /\ (Cardinality(Over') = Cardinality(added) => Over' = added)
  BY <1>1, <1>2, FS_Subset
<1>6. Over' = added <=> \A p \in added : op'[p] = "over"
  BY <1>2 DEF Over, TcpTypeOK
<1>. QED  BY <1>3, <1>4, <1>5, <1>6

(* The end of a query, with an error or without.                            *)
LEMMA ReportKeepsTimer ==
  ASSUME TcpInv, Handling, NEW q \in Query, op[q] \in Operation, ReportRequestComplete(q),
         UNCHANGED <<added, stopped, executing>>
  PROVE  /\ completed' = Cardinality(Over') /\ timer' \in {"waiting", "expired", "cancelled", "over"}
         /\ TimerWhileWaiting'
<1>1. q \in added
  BY DEF TcpInv, TcpTypeOK, Operation
<1>2. timer \in {"waiting", "expired"}
  BY <1>1 DEF TcpInv, TimerWhileWaiting, Handling, Operation
<1>3. /\ completed' = Cardinality(Over')
      /\ completed' >= Cardinality(added) <=> \A p \in added : op'[p] = "over"
  BY OverCounted DEF TcpInv, ReportRequestComplete
<1>. QED  BY <1>2, <1>3 DEF ReportRequestComplete, TimerWhileWaiting

LEMMA TcpStep ==
  ASSUME TcpInv, [TcpNext]_tcpVars
  PROVE  TcpInv'
<1>. USE DEF queryVars, peerVars, loopVars, callVars, Operation
<1>1. ASSUME NEW q \in Query, AddQuery(q)
      PROVE  TcpInv'
  <2>1. UNCHANGED Over
    BY <1>1 DEF AddQuery, TcpInv, TcpTypeOK, Over
  <2>2. TcpTypeOK'
    BY <1>1, <2>1 DEF AddQuery, TcpInv, TcpTypeOK, Over
  <2>3. EndedWell' /\ Unmarked'
    BY <1>1 DEF AddQuery, TcpInv, TcpTypeOK, EndedWell, Whole, Unmarked
  <2>4. (~executing /\ ~stopped => Untouched)'
    BY <1>1 DEF AddQuery, TcpInv, TcpTypeOK, Untouched
  <2>5. TimerWhileWaiting'
    BY <1>1 DEF AddQuery, TcpInv, TcpTypeOK, Untouched, TimerWhileWaiting
  <2>. QED  BY <1>1, <2>2, <2>3, <2>4, <2>5 DEF AddQuery, TcpInv
<1>2. ASSUME NEW q \in Query, Fail(q)
      PROVE  TcpInv'
  <2>1. /\ completed' = Cardinality(Over') /\ timer' \in {"waiting", "expired", "cancelled", "over"}
        /\ TimerWhileWaiting'
    BY <1>2, ReportKeepsTimer DEF Fail, ReportError
  <2>2. TcpTypeOK'
    BY <1>2, <2>1 DEF Fail, ReportError, ReportRequestComplete, TcpInv, TcpTypeOK, Over
  <2>3. EndedWell' /\ Unmarked'
    BY <1>2 DEF Fail, ReportError, ReportRequestComplete, TcpInv, TcpTypeOK, EndedWell, Whole, Unmarked
  <2>. QED  BY <1>2, <2>1, <2>2, <2>3 DEF Fail, Handling, TcpInv
<1>3. ASSUME NEW q \in Query, OnEndOfInput(q)
      PROVE  TcpInv'
  <2>1. /\ completed' = Cardinality(Over') /\ timer' \in {"waiting", "expired", "cancelled", "over"}
        /\ TimerWhileWaiting'
    BY <1>3, ReportKeepsTimer DEF OnEndOfInput
  <2>2. TcpTypeOK'
    BY <1>3, <2>1 DEF OnEndOfInput, ReportRequestComplete, TcpInv, TcpTypeOK, Over
  <2>3. EndedWell' /\ Unmarked'
    BY <1>3 DEF OnEndOfInput, Handling, ReportRequestComplete, TcpInv, TcpTypeOK, EndedWell, Whole, Unmarked
  <2>. QED  BY <1>3, <2>1, <2>2, <2>3 DEF OnEndOfInput, Handling, TcpInv
<1>4. ASSUME NEW q \in Query, NEW from \in Operation, NEW to \in Operation, Proceed(q, from, to)
      PROVE  TcpInv'
  <2>1. UNCHANGED Over
    BY <1>4 DEF Proceed, TcpInv, TcpTypeOK, Over
  <2>2. TcpTypeOK'
    BY <1>4, <2>1 DEF Proceed, TcpInv, TcpTypeOK, Over
  <2>3. EndedWell' /\ Unmarked' /\ TimerWhileWaiting'
    BY <1>4 DEF Proceed, TcpInv, TcpTypeOK, EndedWell, Whole, Unmarked, TimerWhileWaiting
  <2>. QED  BY <1>4, <2>2, <2>3 DEF Proceed, Handling, TcpInv
<1>5. ASSUME NEW q \in Query, OnDataReceived(q) \/ PeerSends(q) \/ PeerCloses(q)
      PROVE  TcpInv'
  <2>1. UNCHANGED <<Over, added, timer, op, stopped, executing>>
    BY <1>5 DEF OnDataReceived, PeerSends, PeerCloses, Over
  <2>2. TcpTypeOK'
    <3>1. CASE OnDataReceived(q)
      <4>1. result[q] + 1 \in 0 .. MaxData /\ result[q] + 1 <= sent[q]
        BY <3>1, TcpQueriesAssumption DEF OnDataReceived, TcpInv, TcpTypeOK
      <4>. QED  BY <3>1, <2>1, <4>1 DEF OnDataReceived, TcpInv, TcpTypeOK, Over
    <3>2. CASE PeerSends(q)
      <4>1. sent[q] + 1 \in 0 .. MaxData /\ result[q] <= sent[q] + 1
        BY <3>2, TcpQueriesAssumption DEF PeerSends, TcpInv, TcpTypeOK
      <4>. QED  BY <3>2, <2>1, <4>1 DEF PeerSends, TcpInv, TcpTypeOK, Over
    <3>3. CASE PeerCloses(q)
      BY <3>3, <2>1 DEF PeerCloses, Open, TcpInv, TcpTypeOK, Over
    <3>. QED  BY <1>5, <3>1, <3>2, <3>3
  <2>3. EndedWell' /\ Unmarked'
    BY <1>5, <2>1 DEF OnDataReceived, PeerSends, PeerCloses, Open, TcpInv, TcpTypeOK, EndedWell, Whole, Unmarked
  <2>. QED  BY <2>1, <2>2, <2>3 DEF TcpInv, Untouched, TimerWhileWaiting
<1>6. CASE ExecuteEnd
  <2>1. TcpTypeOK' /\ EndedWell' /\ Unmarked'
    BY <1>6 DEF ExecuteEnd, TcpInv, TcpTypeOK, EndedWell, Whole, Unmarked
  <2>. QED  BY <1>6, <2>1 DEF ExecuteEnd, TcpInv, TimerWhileWaiting
<1>7. CASE ExecuteBegin \/ Stop \/ TimerExpires \/ UNCHANGED tcpVars
  <2>1. TcpTypeOK'
    <3>1. ExecuteBegin => executes' \in 0 .. MaxExecutes
      BY TcpQueriesAssumption DEF ExecuteBegin, TcpInv, TcpTypeOK
    <3>. QED  BY <1>7, <3>1 DEF ExecuteBegin, Stop, TimerExpires, tcpVars, TcpInv, TcpTypeOK
  <2>2. EndedWell' /\ Unmarked'
    BY <1>7 DEF ExecuteBegin, Stop, TimerExpires, tcpVars, TcpInv, EndedWell, Whole, Unmarked
  <2>3. TimerWhileWaiting'
    BY <1>7 DEF ExecuteBegin, Stop, TimerExpires, tcpVars, TcpInv, TimerWhileWaiting
  <2>4. (executing => added # {})' /\ (~executing /\ ~stopped => Untouched)'
    BY <1>7 DEF ExecuteBegin, Stop, TimerExpires, tcpVars, TcpInv, Untouched
  <2>. QED  BY <2>1, <2>2, <2>3, <2>4 DEF TcpInv
<1>8. CASE OnTimer
  <2>1. TcpTypeOK' /\ stopped' \in BOOLEAN
    BY <1>8 DEF OnTimer, TcpInv, TcpTypeOK
  <2>2. EndedWell' /\ Unmarked'
    BY <1>8 DEF OnTimer, Handling, TcpInv, EndedWell, Whole, Unmarked
  <2>3. timer = "cancelled" => \A q \in added : op[q] = "over"
    BY <1>8 DEF OnTimer, Handling, TcpInv, TimerWhileWaiting
  <2>4. TimerWhileWaiting'
    BY <1>8, <2>3 DEF OnTimer, TimerWhileWaiting
  <2>. QED  BY <1>8, <2>1, <2>2, <2>4 DEF OnTimer, Handling, TcpInv
<1>. QED
  BY <1>1, <1>2, <1>3, <1>4, <1>5, <1>6, <1>7, <1>8
  DEF TcpNext, Handler, OnEndpointResolved, OnConnected, OnRequestSent

LEMMA TcpInvariant == TcpSpec => []TcpInv
<1>1. TcpInit => TcpInv
  <2>1. TcpInit => {q \in Query : op[q] = "over"} = {}
    BY DEF TcpInit
  <2>2. TcpInit => TcpTypeOK
    <3>1. 0 \in 0 .. MaxData /\ 0 \in 0 .. MaxExecutes /\ Cardinality({}) = 0
      BY TcpQueriesAssumption, FS_EmptySet
    <3>2. TcpInit => completed = Cardinality({q \in Query : op[q] = "over"})
      BY <2>1, <3>1 DEF TcpInit
    <3>3. TcpInit => /\ result \in [Query -> 0 .. MaxData] /\ sent \in [Query -> 0 .. MaxData]
                     /\ \A q \in Query : result[q] <= sent[q]
      BY <3>1 DEF TcpInit
    <3>. QED  BY <3>1, <3>2, <3>3, ZenonT(60) DEF TcpInit, TcpTypeOK, Operation
  <2>3. TcpInit => Unmarked
    BY DEF TcpInit, Unmarked
  <2>. QED
    BY <2>2, <2>3 DEF TcpInit, TcpInv, EndedWell, Untouched, TimerWhileWaiting
<1>2. TcpInv /\ [TcpNext]_tcpVars => TcpInv'
  BY TcpStep
<1>. QED  BY <1>1, <1>2, PTL DEF TcpSpec

(* Type correctness: completed is the number of queries that are over.      *)
THEOREM TcpTypeCorrect == TcpSpec => []TcpTypeOK
<1>1. TcpInv => TcpTypeOK
  BY DEF TcpInv
<1>. QED  BY <1>1, TcpInvariant, PTL

(* The timer guards exactly the queries under way.                          *)
THEOREM TimerWhileWaitingAlways == TcpSpec => []TimerWhileWaiting
<1>1. TcpInv => TimerWhileWaiting
  BY DEF TcpInv
<1>. QED  BY <1>1, TcpInvariant, PTL

(* Only a result that is whole is told without an error, and stays so.      *)
THEOREM AnswersToldAlways == TcpSpec => AnswersTold
<1>1. TcpInv /\ [TcpNext]_tcpVars
      => [/\ executing /\ ~executing' => \A q \in added : code'[q] = "ok" <=> Whole(q) /\ q \in finished
          /\ \A q \in finished : result'[q] = result[q] /\ code'[q] = "ok"]_tcpVars
  <2>. SUFFICES ASSUME TcpInv, TcpNext
                PROVE  /\ executing /\ ~executing' => \A q \in added : code'[q] = "ok" <=> Whole(q) /\ q \in finished
                       /\ \A q \in finished : result'[q] = result[q] /\ code'[q] = "ok"
    OBVIOUS
  <2>. USE DEF queryVars, peerVars, loopVars, callVars, Operation
  <2>1. CASE ExecuteEnd
    BY <2>1 DEF ExecuteEnd, TcpInv, TcpTypeOK, EndedWell
  <2>2. ASSUME NEW q \in Query, Fail(q) \/ OnEndOfInput(q)
        PROVE  executing' = executing /\ \A p \in finished : result'[p] = result[p] /\ code'[p] = "ok"
    BY <2>2 DEF Fail, ReportError, OnEndOfInput, TcpInv, TcpTypeOK, EndedWell
  <2>3. ASSUME NEW q \in Query, OnDataReceived(q)
        PROVE  executing' = executing /\ \A p \in finished : result'[p] = result[p] /\ code'[p] = "ok"
    BY <2>3 DEF OnDataReceived, TcpInv, TcpTypeOK, EndedWell
  <2>4. ASSUME NEW q \in Query, \/ AddQuery(q) \/ PeerSends(q) \/ PeerCloses(q)
                                \/ OnEndpointResolved(q) \/ OnConnected(q) \/ OnRequestSent(q)
        PROVE  executing' = executing /\ \A p \in finished : result'[p] = result[p] /\ code'[p] = "ok"
    BY <2>4 DEF AddQuery, PeerSends, PeerCloses, OnEndpointResolved, OnConnected, OnRequestSent, Proceed, TcpInv, EndedWell
  <2>5. CASE ExecuteBegin \/ Stop \/ TimerExpires \/ OnTimer
    BY <2>5 DEF ExecuteBegin, Stop, TimerExpires, OnTimer, TcpInv, EndedWell
  <2>. QED  BY <2>1, <2>2, <2>3, <2>4, <2>5 DEF TcpNext, Handler
<1>. QED  BY <1>1, TcpInvariant, PTL DEF TcpSpec, AnswersTold

=============================================================================
