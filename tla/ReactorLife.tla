----------------------------- MODULE ReactorLife -----------------------------
(***************************************************************************)
(* The life of the server (spine/Reactor.cpp, SmartMetEngine.cpp): the     *)
(* main thread loads engines and plugins one after another and starts a    *)
(* task that initialises each, which waits for the engines it needs; the   *)
(* watch thread takes everything down once a shutdown is requested; other  *)
(* threads wait for its completion.                                        *)
(*                                                                         *)
(* shutdownRequestedMutex and itsInitMutex are held for one step only.     *)
(* shutdownFinishedMutex is held by a thread that waits for the start of   *)
(* the shutdown.                                                           *)
(***************************************************************************)
EXTENDS Naturals, FiniteSets, Sequences

CONSTANTS
  Engine, Plugin,  \* each has one initialisation task
  Order,           \* the engines in the order of the configuration
  Needs,           \* per task: the engines its init() asks for
  MayFail,         \* the tasks whose init() may throw
  Requests,        \* whether somebody requests a shutdown
  Waiter,          \* threads that call waitForShutdownComplete
  None,
  EarlyWait,       \* whether they may call it before a shutdown is requested
  Timeout,         \* shutdownTimeoutSec > 0, and no debugger or leak sanitizer
  Callback         \* shutdownTimedOutCallback is set

Task == Engine \cup Plugin

ASSUME ReactorLifeAssumption ==
  /\ IsFiniteSet(Engine) /\ Engine \cap Plugin = {}
  /\ Order \in [1 .. Cardinality(Engine) -> Engine]
  /\ Needs \in [Task -> SUBSET Engine] /\ MayFail \subseteq Task
  /\ None \notin Waiter
  /\ {Requests, EarlyWait, Timeout, Callback} \subseteq BOOLEAN

VARIABLES
  down,      \* gIsShuttingDown
  complete,  \* gShutdownComplete
  initDone,  \* gInitDone
  aborted,   \* abort() was called
  loaded,    \* the engines in itsSingletons
  status,    \* per task: its progress
  asks,      \* per task: the engine it asks for, if any
  got,       \* per task: the engines it has
  watch,     \* progress of the watch thread
  at,        \* per waiter: its progress
  owner      \* of shutdownFinishedMutex

taskVars == <<loaded, status, asks, got>>
ends     == <<complete, initDone, aborted, owner>>
vars     == <<down, ends, taskVars, watch, at>>

Ended == {"done", "failed", "dropped"}
Ready(e) == status[e] = "done"

TypeOK ==
  /\ down \in BOOLEAN /\ complete \in BOOLEAN /\ initDone \in BOOLEAN /\ aborted \in BOOLEAN
  /\ loaded \subseteq Engine
  /\ status \in [Task -> {"unloaded", "running", "testing", "dozing", "sleeping"} \cup Ended]
  /\ asks \in [Task -> Engine \cup {None}]
  /\ got \in [Task -> SUBSET Engine]
  /\ watch \in {"asleep", "stop", "join", "plugins", "engines", "notify", "done"}
  /\ at \in [Waiter -> {"idle", "enter", "holding", "starting", "waiting", "returned"}]
  /\ owner \in Waiter \cup {None}
  /\ \A w \in Waiter : at[w] \in {"holding", "starting"} <=> owner = w

Init ==
  /\ down = FALSE /\ complete = FALSE /\ initDone = FALSE /\ aborted = FALSE
  /\ loaded = {}
  /\ status = [k \in Task |-> "unloaded"] /\ asks = [k \in Task |-> None]
  /\ got = [k \in Task |-> {}]
  /\ watch = "asleep"
  /\ at = [w \in Waiter |-> "idle"] /\ owner = None

-----------------------------------------------------------------------------
(* requestShutdown: the flag is set once, and one of the threads that wait  *)
(* for the start is notified.  A notified waiter goes on to the wait for    *)
(* the completion.                                                          *)
Starting == {w \in Waiter : at[w] = "starting"}

Signal ==
  /\ down' = TRUE
  /\ IF down \/ (watch # "asleep" /\ Starting = {}) THEN UNCHANGED <<watch, at>>
     ELSE \/ watch = "asleep" /\ watch' = "stop" /\ UNCHANGED at
          \/ \E w \in Starting : at' = [at EXCEPT ![w] = "holding"] /\ UNCHANGED watch

RequestShutdown ==
  /\ Requests /\ ~down
  /\ Signal
  /\ UNCHANGED <<ends, taskVars>>

(* A condition variable may wake without a notification.                    *)
Spurious ==
  /\ down
  /\ \/ watch = "asleep" /\ watch' = "stop" /\ UNCHANGED at
     \/ \E w \in Starting : at' = [at EXCEPT ![w] = "holding"] /\ UNCHANGED watch
  /\ UNCHANGED <<down, ends, taskVars>>

-----------------------------------------------------------------------------
(* The main thread in init(): engines in their order, then the plugins.  An *)
(* engine's task runs before the engine can be found.                       *)
Load(k) ==
  /\ status[k] = "unloaded"
  /\ IF k \in Engine THEN k = Order[Cardinality(loaded) + 1] ELSE loaded = Engine
  /\ status' = [status EXCEPT ![k] = "running"]
  /\ UNCHANGED <<down, loaded, asks, got, watch, at, ends>>

Insert(e) ==
  /\ e \notin loaded /\ status[e] # "unloaded"
  /\ loaded' = loaded \cup {e}
  /\ UNCHANGED <<down, status, asks, got, watch, at, ends>>

(* getEnginePtr and getSingleton, up to the engine's wait().                *)
Ask(k) ==
  /\ status[k] = "running" /\ ~down
  /\ \E e \in (Needs[k] \ got[k]) \cap loaded : asks' = [asks EXCEPT ![k] = e]
  /\ status' = [status EXCEPT ![k] = "testing"]
  /\ UNCHANGED <<down, loaded, got, watch, at, ends>>

FaultTestReady(k) ==  \* fault: what the wait ended for is not looked at again
  /\ status[k] = "testing"
  /\ IF Ready(asks[k]) \/ down THEN
          /\ status' = [status EXCEPT ![k] = "running"] /\ asks' = [asks EXCEPT ![k] = None]
          /\ got' = [got EXCEPT ![k] = @ \cup {asks[k]}]
     ELSE status' = [status EXCEPT ![k] = "dozing"] /\ UNCHANGED <<asks, got>>
  /\ UNCHANGED <<down, loaded, watch, at, ends>>

(* wait() tests, then sleeps; after it, getSingleton gives no engine in a   *)
(* shutdown.                                                                *)
TestReady(k) ==
  /\ status[k] = "testing"
  /\ asks' = [asks EXCEPT ![k] = IF Ready(@) \/ down THEN None ELSE @]
  /\ got' = IF Ready(asks[k]) /\ ~down THEN [got EXCEPT ![k] = @ \cup {asks[k]}] ELSE got
  /\ status' = [status EXCEPT ![k] =
       IF down THEN "failed" ELSE IF Ready(asks[k]) THEN "running" ELSE "dozing"]
  /\ UNCHANGED <<down, loaded, watch, at, ends>>

Sleep(k) ==
  /\ status[k] = "dozing"
  /\ status' = [status EXCEPT ![k] = "sleeping"]
  /\ UNCHANGED <<down, loaded, asks, got, watch, at, ends>>

FaultPollReady(k) ==  \* fault: a shutdown does not end the wait
  /\ status[k] = "sleeping" /\ Ready(asks[k])
  /\ status' = [status EXCEPT ![k] = "testing"]
  /\ UNCHANGED <<down, loaded, asks, got, watch, at, ends>>

(* The second after which wait() looks again.                               *)
Poll(k) ==
  /\ status[k] = "sleeping"
  /\ status' = [status EXCEPT ![k] = "testing"]
  /\ UNCHANGED <<down, loaded, asks, got, watch, at, ends>>

(* An engine sets isReady and notifies without the mutex: a task between    *)
(* its test and its sleep misses it.                                        *)
FinishTask(k) ==
  /\ status[k] = "running" /\ Needs[k] = got[k]
  /\ status' = [j \in Task |->
       IF j = k THEN "done" ELSE IF status[j] = "sleeping" /\ asks[j] = k THEN "testing" ELSE status[j]]
  /\ UNCHANGED <<down, loaded, asks, got, watch, at, ends>>

(* An init() that throws, and one that is refused an engine: because of a   *)
(* shutdown or because it is not loaded yet.  Its failure is reported.      *)
Refused(k) == \E e \in Needs[k] \ got[k] : down \/ e \notin loaded

FailTask(k) ==
  /\ status[k] = "running"
  /\ k \in MayFail \/ Refused(k)
  /\ status' = [status EXCEPT ![k] = "failed"]
  /\ Signal
  /\ UNCHANGED <<loaded, asks, got, ends>>

(* The end of init().                                                       *)
InitDone ==
  /\ ~initDone
  /\ \A k \in Task : status[k] = "done"
  /\ initDone' = TRUE
  /\ UNCHANGED <<down, complete, aborted, owner, taskVars, watch, at>>

-----------------------------------------------------------------------------
(* The watch thread: shutdown_impl and notifyShutdownComplete.  No task is  *)
(* added to a group that was stopped.                                       *)
StopTasks ==
  /\ watch = "stop"
  /\ watch' = "join"
  /\ status' = [k \in Task |-> IF status[k] = "unloaded" THEN "dropped" ELSE status[k]]
  /\ UNCHANGED <<down, loaded, asks, got, at, ends>>

FaultJoinTasks ==  \* fault: the tasks are stopped but not waited for
  /\ watch = "join"
  /\ watch' = "plugins"
  /\ UNCHANGED <<down, taskVars, at, ends>>

JoinTasks ==
  /\ watch = "join"
  /\ \A k \in Task : status[k] \in Ended
  /\ watch' = "plugins"
  /\ UNCHANGED <<down, taskVars, at, ends>>

ShutdownPlugins ==
  /\ watch = "plugins"
  /\ watch' = "engines"
  /\ UNCHANGED <<down, taskVars, at, ends>>

ShutdownEngines ==
  /\ watch = "engines"
  /\ watch' = "notify" /\ loaded' = {}
  /\ UNCHANGED <<down, status, asks, got, at, ends>>

NotifyComplete ==
  /\ watch = "notify" /\ owner = None
  /\ complete' = TRUE
  /\ watch' = "done"
  /\ UNCHANGED <<down, initDone, aborted, owner, taskVars, at>>

-----------------------------------------------------------------------------
(* waitForShutdownComplete.  shutdown() requests it first.                  *)
Call(w) ==
  /\ at[w] = "idle"
  /\ EarlyWait \/ down
  /\ at' = [at EXCEPT ![w] = "enter"]
  /\ UNCHANGED <<down, taskVars, watch, ends>>

Lock(w) ==
  /\ at[w] = "enter" /\ owner = None
  /\ at' = [at EXCEPT ![w] = "holding"] /\ owner' = w
  /\ UNCHANGED <<down, complete, initDone, aborted, taskVars, watch>>

(* With a time limit the wait for the start comes first, under the mutex.   *)
AwaitStart(w) ==
  /\ at[w] = "holding" /\ Timeout /\ ~down
  /\ at' = [at EXCEPT ![w] = "starting"]
  /\ UNCHANGED <<down, taskVars, watch, ends>>

AwaitCompletion(w) ==
  /\ at[w] = "holding" /\ (Timeout => down)
  /\ at' = [at EXCEPT ![w] = IF complete THEN "returned" ELSE "waiting"]
  /\ owner' = None
  /\ UNCHANGED <<down, complete, initDone, aborted, taskVars, watch>>

Return(w) ==
  /\ at[w] = "waiting" /\ complete /\ owner = None
  /\ at' = [at EXCEPT ![w] = "returned"]
  /\ UNCHANGED <<down, taskVars, watch, ends>>

(* The time limit passes: the callback and abort(), or another round.       *)
TimeOut(w) ==
  /\ at[w] = "waiting" /\ Timeout /\ ~complete /\ owner = None
  /\ at' = [at EXCEPT ![w] = "holding"] /\ owner' = w
  /\ aborted' = Callback
  /\ UNCHANGED <<down, complete, initDone, taskVars, watch>>

-----------------------------------------------------------------------------
TaskStep(k) ==
  \/ Load(k) \/ Ask(k) \/ TestReady(k) \/ Sleep(k) \/ Poll(k) \/ FinishTask(k) \/ FailTask(k)
WatchStep == StopTasks \/ JoinTasks \/ ShutdownPlugins \/ ShutdownEngines \/ NotifyComplete
WaitStep(w) == Lock(w) \/ AwaitStart(w) \/ AwaitCompletion(w) \/ Return(w)

Step ==
  \/ RequestShutdown \/ Spurious \/ InitDone \/ WatchStep
  \/ \E k \in Task : TaskStep(k)
  \/ \E e \in Engine : Insert(e)
  \/ \E w \in Waiter : Call(w) \/ WaitStep(w) \/ TimeOut(w)

Next == ~aborted /\ Step
Spec == Init /\ [][Next]_vars

(* Threads run on and a mutex that is free again and again is acquired.  No *)
(* wake-up is spurious.                                                     *)
Fairness ==
  /\ \A k \in Task : WF_vars(~aborted /\ TaskStep(k))
  /\ \A e \in Engine : WF_vars(~aborted /\ Insert(e))
  /\ WF_vars(~aborted /\ InitDone)
  /\ SF_vars(~aborted /\ WatchStep)
  /\ \A w \in Waiter : SF_vars(~aborted /\ WaitStep(w))
FairSpec == Spec /\ Fairness

-----------------------------------------------------------------------------
(* getSingleton: an init() never goes on with an engine that is not ready.  *)
EnginesReady == \A k \in Task : \A e \in got[k] : Ready(e)

(* "All init task should also be ended before we begin to destroy objects": *)
(* no initialisation task runs or can still start when plugins and engines  *)
(* are taken down.                                                          *)
TasksOver == watch \in {"plugins", "engines", "notify", "done"} => \A k \in Task : status[k] \in Ended

(* Where every engine comes after the ones it needs, the initialisation     *)
(* ends, unless an init() throws or somebody requests a shutdown.           *)
InitCompletes == <>(initDone \/ down)

(* "Request reactor shutdown and wait for shutdown to complete": a          *)
(* requested shutdown completes, and those who wait for it return; unless a *)
(* thread that called waitForShutdownComplete before the request waits for  *)
(* its start together with the watch thread: there is one notification, and *)
(* the thread that does not get it sleeps on.                               *)
Contended == down /\ (watch = "asleep" \/ Starting # {})
ShutdownCompletes == down ~> (complete \/ aborted \/ Contended)
WaitersReturn ==
  \A w \in Waiter : at[w] = "enter" /\ down ~> (at[w] = "returned" \/ aborted \/ Contended)

(* Every wait ends: for an engine, for the tasks, for the completion.       *)
WaitsEnd == InitCompletes /\ ShutdownCompletes /\ WaitersReturn

=============================================================================
