-------------------------- MODULE ReactorLifeProofs --------------------------
(***************************************************************************)
(* Proofs about ReactorLife, for any engines, plugins, dependencies, order *)
(* of loading and threads that wait, and about EngineTeardown, for any     *)
(* engines that hold each other.                                           *)
(***************************************************************************)
EXTENDS ReactorLife, EngineTeardown, FiniteSetTheorems, TLAPS

USE ReactorLifeAssumption

Flags ==
  down \in BOOLEAN /\ complete \in BOOLEAN /\ initDone \in BOOLEAN /\ aborted \in BOOLEAN

(* A task that tests or sleeps asks for an engine.                          *)
Tasks ==
  /\ loaded \subseteq Engine
  /\ status \in [Task -> {"unloaded", "running", "testing", "dozing", "sleeping"} \cup Ended]
  /\ asks \in [Task -> Engine \cup {None}]
  /\ got \in [Task -> SUBSET Engine]
  /\ \A k \in Task : status[k] \in {"testing", "dozing", "sleeping"} => asks[k] \in Engine

Waits ==
  /\ watch \in {"asleep", "stop", "join", "plugins", "engines", "notify", "done"}
  /\ at \in [Waiter -> {"idle", "enter", "holding", "starting", "waiting", "returned"}]
  /\ owner \in Waiter \cup {None}
  /\ \A w \in Waiter : at[w] \in {"holding", "starting"} <=> owner = w


(* What a step does to the tasks, whoever takes it.                         *)
TaskMoves(k) == Load(k) \/ Ask(k) \/ TestReady(k) \/ Sleep(k) \/ Poll(k) \/ FinishTask(k) \/ FailTask(k)

LEMMA StepCases ==
  ASSUME [Next]_vars
  PROVE  \/ \E k \in Task : TaskMoves(k)
         \/ \E e \in Engine : Insert(e)
         \/ StopTasks \/ ShutdownEngines
         \/ UNCHANGED taskVars
BY DEF Next, Step, vars, taskVars, TaskStep, TaskMoves, WatchStep, WaitStep, RequestShutdown, Spurious, InitDone,
  JoinTasks, ShutdownPlugins, NotifyComplete, Call, Lock, AwaitStart, AwaitCompletion, Return, TimeOut

LEMMA TasksStep ==
  ASSUME Tasks, [Next]_vars
  PROVE  Tasks'
<1>. USE DEF Tasks, Task, Ended
<1>1. ASSUME NEW k \in Task, Load(k) \/ Ask(k) \/ Sleep(k) \/ Poll(k)
      PROVE  Tasks'
  BY <1>1 DEF Load, Ask, Sleep, Poll
<1>2. ASSUME NEW k \in Task, TestReady(k)
      PROVE  Tasks'
  BY <1>2 DEF TestReady
<1>3. ASSUME NEW k \in Task, FinishTask(k)
      PROVE  Tasks'
  BY <1>3 DEF FinishTask
<1>4. ASSUME NEW k \in Task, FailTask(k)
      PROVE  Tasks'
  BY <1>4 DEF FailTask
<1>5. CASE \/ \E e \in Engine : Insert(e)
           \/ StopTasks \/ ShutdownEngines \/ UNCHANGED taskVars
  BY <1>5 DEF Insert, StopTasks, ShutdownEngines, taskVars
<1>. QED  BY <1>1, <1>2, <1>3, <1>4, <1>5, StepCases DEF TaskMoves

-----------------------------------------------------------------------------
(* An init() never goes on with an engine that is not ready, and no engine  *)
(* stops being ready.                                                       *)
LEMMA ReadyStep ==
  ASSUME Tasks, EnginesReady, [Next]_vars
  PROVE  EnginesReady'
<1>1. \A e \in Engine : Ready(e) => Ready(e)'
  <2>1. ASSUME NEW k \in Task, TaskMoves(k)
        PROVE  \A e \in Engine : Ready(e) => Ready(e)'
    BY <2>1 DEF TaskMoves, Load, Ask, Sleep, Poll, TestReady, FinishTask, FailTask, Ready, Tasks, Task
  <2>. QED  BY <2>1, StepCases DEF Insert, StopTasks, ShutdownEngines, taskVars, Ready, Tasks, Task
<1>2. \A k \in Task : \A e \in got'[k] : e \in Engine /\ (e \in got[k] \/ Ready(e))
  <2>1. ASSUME NEW k \in Task, TaskMoves(k)
        PROVE  \A j \in Task : \A e \in got'[j] : e \in Engine /\ (e \in got[j] \/ Ready(e))
    BY <2>1 DEF TaskMoves, Load, Ask, Sleep, Poll, TestReady, FinishTask, FailTask, Tasks
  <2>. QED  BY <2>1, StepCases DEF Insert, StopTasks, ShutdownEngines, taskVars, Tasks
<1>. QED  BY <1>1, <1>2 DEF EnginesReady

THEOREM EnginesReadyAlways == Spec => []EnginesReady
<1>1. Init => Tasks /\ EnginesReady
  BY DEF Init, Tasks, EnginesReady, Ended
<1>2. Tasks /\ EnginesReady /\ [Next]_vars => Tasks' /\ EnginesReady'
  BY TasksStep, ReadyStep
<1>. QED  BY <1>1, <1>2, PTL DEF Spec

-----------------------------------------------------------------------------
(* The watch thread: it goes on only when every task has ended, and what    *)
(* has ended stays so.                                                      *)
LEMMA WatchCases ==
  ASSUME [Next]_vars
  PROVE  \/ watch = "asleep" /\ watch' = "stop"
         \/ StopTasks \/ JoinTasks \/ ShutdownPlugins \/ ShutdownEngines \/ NotifyComplete
         \/ watch' = watch
BY DEF Next, Step, vars, TaskStep, WatchStep, WaitStep, RequestShutdown, Signal, Spurious, InitDone, Insert,
  Load, Ask, TestReady, Sleep, Poll, FinishTask, FailTask, Call, Lock, AwaitStart, AwaitCompletion, Return, TimeOut

LEMMA OverStep ==
  ASSUME Tasks, TasksOver, [Next]_vars
  PROVE  TasksOver'
<1>1. ASSUME \A k \in Task : status[k] \in Ended
      PROVE  \A k \in Task : status'[k] \in Ended
  <2>1. ASSUME NEW k \in Task, TaskMoves(k)
        PROVE  FALSE
    BY <1>1, <2>1 DEF TaskMoves, Load, Ask, Sleep, Poll, TestReady, FinishTask, FailTask, Ended
  <2>. QED  BY <1>1, <2>1, StepCases DEF Insert, StopTasks, ShutdownEngines, taskVars, Tasks, Ended
<1>2. CASE JoinTasks
  BY <1>1, <1>2 DEF JoinTasks, TasksOver
<1>3. CASE watch \in {"plugins", "engines", "notify", "done"}
  BY <1>1, <1>3 DEF TasksOver
<1>. QED
  BY <1>2, <1>3, WatchCases DEF StopTasks, ShutdownPlugins, ShutdownEngines, NotifyComplete, TasksOver

(* No initialisation task runs or can start when plugins and engines are    *)
(* taken down.                                                              *)
THEOREM TasksOverAlways == Spec => []TasksOver
<1>1. Init => Tasks /\ TasksOver
  BY DEF Init, Tasks, TasksOver, Ended
<1>2. Tasks /\ TasksOver /\ [Next]_vars => Tasks' /\ TasksOver'
  BY TasksStep, OverStep
<1>. QED  BY <1>1, <1>2, PTL DEF Spec

-----------------------------------------------------------------------------
(* The threads that wait: at most one is between its lock and its wait for  *)
(* the completion.                                                          *)
LEMMA WaitsStep ==
  ASSUME Waits, [Next]_vars
  PROVE  Waits'
<1>. USE DEF Waits
<1>1. ASSUME Signal, owner' = owner
      PROVE  Waits'
  BY <1>1 DEF Signal, Starting
<1>2. CASE Spurious
  BY <1>2 DEF Spurious, Starting, ends
<1>3. ASSUME NEW w \in Waiter, Call(w) \/ Lock(w) \/ AwaitStart(w)
      PROVE  Waits'
  BY <1>3 DEF Call, Lock, AwaitStart, ends
<1>4. ASSUME NEW w \in Waiter, AwaitCompletion(w) \/ Return(w) \/ TimeOut(w)
      PROVE  Waits'
  BY <1>4 DEF AwaitCompletion, Return, TimeOut, ends
<1>5. CASE WatchStep
  BY <1>5 DEF WatchStep, StopTasks, JoinTasks, ShutdownPlugins, ShutdownEngines, NotifyComplete, ends
<1>6. ASSUME NEW k \in Task, Load(k) \/ Ask(k) \/ TestReady(k) \/ Sleep(k) \/ Poll(k) \/ FinishTask(k)
      PROVE  Waits'
  BY <1>6 DEF Load, Ask, TestReady, Sleep, Poll, FinishTask, ends
<1>7. CASE UNCHANGED <<watch, at, owner>>
  BY <1>7
<1>. QED
  BY <1>1, <1>2, <1>3, <1>4, <1>5, <1>6, <1>7 DEF Next, Step, vars, ends, TaskStep, WaitStep, RequestShutdown,
    FailTask, InitDone, Insert

LEMMA FlagsStep ==
  ASSUME Flags, [Next]_vars
  PROVE  Flags'
BY ZenonT(60) DEF Flags, Next, Step, vars, ends, TaskStep, WatchStep, WaitStep, RequestShutdown, Signal, Spurious, InitDone, Insert,
  Load, Ask, TestReady, Sleep, Poll, FinishTask, FailTask, StopTasks, JoinTasks, ShutdownPlugins, ShutdownEngines,
  NotifyComplete, Call, Lock, AwaitStart, AwaitCompletion, Return, TimeOut

(* Type correctness: a waiter that holds shutdownFinishedMutex is its owner.*)
THEOREM TypeCorrect == Spec => []TypeOK
<1>1. Init => Flags /\ Tasks /\ Waits
  <2>1. Init => Flags
    BY DEF Init, Flags
  <2>. QED  BY <2>1 DEF Init, Tasks, Waits, Ended
<1>2. Flags /\ Tasks /\ Waits /\ [Next]_vars => Flags' /\ Tasks' /\ Waits'
  BY FlagsStep, TasksStep, WaitsStep
<1>3. Flags /\ Tasks /\ Waits => TypeOK
  BY Zenon DEF Flags, Tasks, Waits, TypeOK
<1>. QED  BY <1>1, <1>2, <1>3, PTL DEF Spec

-----------------------------------------------------------------------------
(* The deletion of engines.  What is left of a set of engines is within it, *)
(* each of it is held, and no larger set is so.                             *)
LEMMA RemainingIs ==
  ASSUME NEW E, NEW roots
  PROVE  /\ Remaining(E, roots) \subseteq E
         /\ Remaining(E, roots) \subseteq roots \cup HeldIn(Remaining(E, roots))
         /\ \A S \in SUBSET E : S \subseteq roots \cup HeldIn(S) => S \subseteq Remaining(E, roots)
<1>. DEFINE R == Remaining(E, roots)
<1>1. R = UNION {S \in SUBSET E : S \subseteq roots \cup HeldIn(S)}
  BY DEF Remaining
<1>. HIDE DEF R
<1>2. ASSUME NEW e \in R
      PROVE  e \in roots \cup HeldIn(R)
  <2>1. PICK S \in SUBSET E : e \in S /\ S \subseteq roots \cup HeldIn(S)
    BY <1>1
  <2>2. S \subseteq R
    BY <1>1, <2>1
  <2>3. HeldIn(S) \subseteq HeldIn(R)
    BY <2>2 DEF HeldIn
  <2>. QED  BY <2>1, <2>3
<1>. QED  BY <1>1, <1>2 DEF R

(* It has all that it holds, if the set had.                                *)
LEMMA RemainingHasItsOwn ==
  ASSUME NEW E, NEW roots, HeldIn(E) \subseteq E
  PROVE  HeldIn(Remaining(E, roots)) \subseteq Remaining(E, roots)
<1>. DEFINE R == Remaining(E, roots)  S == R \cup HeldIn(R)
<1>1. R \subseteq E /\ R \subseteq roots \cup HeldIn(R)
  BY RemainingIs
<1>2. HeldIn(R) \subseteq HeldIn(E) /\ HeldIn(R) \subseteq HeldIn(S)
  BY <1>1 DEF HeldIn
<1>3. S \in SUBSET E /\ S \subseteq roots \cup HeldIn(S)
  BY <1>1, <1>2
<1>4. S \subseteq R
  BY <1>3, RemainingIs, ZenonT(60)
<1>. QED  BY <1>4

(* What is held from outside remains.                                       *)
LEMMA RootsRemain == ASSUME NEW E, NEW roots, roots \subseteq E  PROVE roots \subseteq Remaining(E, roots)
BY RemainingIs

(* More engines hold no less.                                               *)
LEMMA HeldInMore == ASSUME NEW E, NEW D, E \subseteq D  PROVE HeldIn(E) \subseteq HeldIn(D)
BY DEF HeldIn

(* While the table is used, engines hold only what it has, and one that is  *)
(* not in it was taken between its test and its erasure and is still held;  *)
(* the one to be erased is held by no engine.  A pass that has deleted      *)
(* nothing has found every engine it looked at held by one of the table or  *)
(* by what others held in it, and each pass that is over has deleted an     *)
(* engine, unless none was left.                                            *)
Table ==
  /\ stage \in {"passes", "erase", "clear"} =>
       /\ HeldIn(existing) \subseteq singletons
       /\ existing \ singletons \subseteq elsewhere \cap overtaken
  /\ stage = "erase" => \A e \in todo : IsFirst(e, todo) =>
       e \notin HeldIn(existing) /\ (e \in elsewhere => e \in overtaken)
  /\ stage = "clear" => todo = {}
  /\ stage = "over" => singletons = {} /\ todo = {}
Passes ==
  stage \in {"passes", "erase"} =>
    /\ passes < MaxPasses /\ elsewhere \subseteq users
    /\ ~progress => singletons \ todo \subseteq users \cup HeldIn(singletons \cup users)
    /\ singletons # {} => Cardinality(singletons) + passes + (IF progress THEN 1 ELSE 0) <= Cardinality(Singleton)
TeardownInv == TeardownTypeOK /\ HeldIn(existing) \subseteq existing /\ KeptOnlyIfHeld /\ Table /\ Passes

LEMMA PostponeKeeps ==
  ASSUME TeardownInv, NEW e \in Singleton, Postpone(e)
  PROVE  TeardownInv'
<1>. USE DEF Postpone, TeardownInv, TeardownTypeOK, singletonVars, userVars
<1>1. e \in users \cup HeldIn(singletons \cup users)
  <2>1. existing \subseteq singletons \cup users
    BY DEF Table, Passes
  <2>. QED  BY <2>1, HeldInMore DEF InUse, Passes
<1>2. HeldIn(existing)' = HeldIn(existing) /\ HeldIn(singletons \cup users)' = HeldIn(singletons \cup users)
  BY DEF HeldIn
<1>. QED  BY <1>1, <1>2 DEF KeptOnlyIfHeld, Table, Passes

LEMMA CondemnKeeps ==
  ASSUME TeardownInv, NEW e \in Singleton, Condemn(e)
  PROVE  TeardownInv'
<1>. USE DEF Condemn, TeardownInv, TeardownTypeOK, singletonVars, userVars
<1>1. HeldIn(existing)' = HeldIn(existing) /\ HeldIn(singletons \cup users)' = HeldIn(singletons \cup users)
  BY DEF HeldIn
<1>2. ASSUME NEW x \in todo, IsFirst(x, todo)
      PROVE  x = e
  BY <1>2, EngineTeardownAssumption DEF IsFirst
<1>3. Table'
  BY <1>1, <1>2 DEF Table, InUse, IsFirst
<1>. QED  BY <1>1, <1>3 DEF KeptOnlyIfHeld, Passes

LEMMA EraseKeeps ==
  ASSUME TeardownInv, NEW e \in Singleton, Erase(e)
  PROVE  TeardownInv'
<1>. USE EngineTeardownAssumption DEF Erase, IsFirst, TeardownInv, TeardownTypeOK, userVars
<1>. DEFINE R == existing'
<1>1. R \subseteq existing /\ R \subseteq singletons' \cup elsewhere \cup HeldIn(R) /\ HeldIn(R) \subseteq R
  BY RemainingIs, RemainingHasItsOwn
<1>2. HeldIn(R) \subseteq HeldIn(existing) /\ HeldIn(existing)' = HeldIn(R)
  <2>1. HeldIn(R) \subseteq HeldIn(existing)
    BY <1>1, HeldInMore
  <2>2. HeldIn(existing)' = HeldIn(R)
    BY Zenon DEF HeldIn
  <2>. QED  BY <2>1, <2>2
<1>3. elsewhere \subseteq R /\ singletons' \subseteq R
  <2>. DEFINE S == singletons' \cup elsewhere
  <2>1. S \subseteq existing /\ R = Remaining(existing, S)
    OBVIOUS
  <2>2. S \subseteq Remaining(existing, S)
    BY <2>1, RootsRemain
  <2>. QED  BY <2>1, <2>2
<1>4. TeardownTypeOK'
  BY <1>1, <1>3
<1>5. Table'
  BY <1>1, <1>2, ZenonT(60) DEF Table
<1>6. singletons' # {} => Cardinality(singletons') + passes + 1 <= Cardinality(Singleton)
  <2>1. IsFiniteSet(singletons) /\ Cardinality(singletons) \in Nat /\ Cardinality(Singleton) \in Nat
    BY FS_Subset, FS_CardinalityType
  <2>2. Cardinality(singletons') = Cardinality(singletons) - 1
    BY <2>1, FS_RemoveElement
  <2>3. singletons # {} /\ passes \in Nat
    OBVIOUS
  <2>. QED  BY <2>1, <2>2, <2>3 DEF Passes
<1>. QED  BY <1>1, <1>2, <1>4, <1>5, <1>6 DEF Passes, KeptOnlyIfHeld

LEMMA EndPassKeeps ==
  ASSUME TeardownInv, EndPass
  PROVE  TeardownInv'
<1>. USE EngineTeardownAssumption DEF EndPass, TeardownInv, TeardownTypeOK, singletonVars
<1>1. IsFiniteSet(singletons) /\ Cardinality(singletons) \in Nat /\ Cardinality(Singleton) \in Nat
      /\ (singletons # {} => Cardinality(singletons) > 0)
  <2>1. IsFiniteSet(singletons)
    BY FS_Subset
  <2>. QED  BY <2>1, FS_CardinalityType, FS_EmptySet
<1>2. HeldIn(existing)' = HeldIn(existing)
  BY DEF HeldIn
<1>3. TeardownTypeOK' /\ Table' /\ HeldIn(existing)' \subseteq existing'
  <2>1. passes' \in 0 .. MaxPasses
    BY DEF Passes
  <2>2. users' \subseteq Singleton /\ todo' \subseteq singletons' /\ stage' \in {"passes", "clear"} /\ progress' \in BOOLEAN
    OBVIOUS
  <2>3. stage' = "clear" => todo' = {}
    OBVIOUS
  <2>. QED  BY <1>2, <2>1, <2>2, <2>3 DEF Table
<1>4. CASE passes' = MaxPasses \/ (singletons # {} /\ ~progress)
  <2>1. ~progress => singletons \subseteq users \cup HeldIn(singletons \cup users)
    BY DEF Passes
  <2>2. progress /\ singletons # {} => passes' = MaxPasses /\ Cardinality(Singleton) > MaxPasses
    BY <1>1, <1>4 DEF Passes
  <2>3. HeldIn(singletons \cup users)' = HeldIn(singletons \cup users)
    BY <1>4 DEF HeldIn
  <2>. QED  BY <1>3, <1>4, <2>1, <2>2, <2>3 DEF KeptOnlyIfHeld, Passes
<1>5. CASE ~(passes' = MaxPasses \/ (singletons # {} /\ ~progress))
  <2>1. passes' < MaxPasses
    BY <1>5 DEF Passes
  <2>2. singletons # {} => Cardinality(singletons) + passes' <= Cardinality(Singleton)
    BY <1>1, <1>5 DEF Passes
  <2>3. stage' = "passes" /\ progress' = FALSE /\ todo' = singletons /\ singletons' = singletons /\ elsewhere' = users'
    BY <1>5
  <2>4. Passes'
    BY <2>1, <2>2, <2>3, <1>1 DEF Passes
  <2>. QED  BY <1>3, <2>3, <2>4 DEF KeptOnlyIfHeld
<1>. QED  BY <1>4, <1>5

LEMMA ClearKeeps ==
  ASSUME TeardownInv, Clear
  PROVE  TeardownInv'
<1>. USE DEF Clear, TeardownInv, TeardownTypeOK, userVars
<1>1. existing' \subseteq existing /\ existing' \subseteq elsewhere \cup HeldIn(existing')
      /\ HeldIn(existing') \subseteq existing'
  BY RemainingIs, RemainingHasItsOwn
<1>2. HeldIn(existing)' = HeldIn(existing')
  BY DEF HeldIn
<1>3. elsewhere \subseteq existing'
  <2>1. elsewhere \subseteq Remaining(existing, elsewhere)
    BY RootsRemain
  <2>. QED  BY <2>1
<1>4. TeardownTypeOK' /\ Table' /\ Passes'
  BY <1>1, <1>3 DEF Table, Passes
<1>. QED  BY <1>1, <1>2, <1>4 DEF KeptOnlyIfHeld

LEMMA LetGoKeeps ==
  ASSUME TeardownInv, NEW e \in Singleton, LetGo(e)
  PROVE  TeardownInv'
<1>. USE DEF LetGo, TeardownInv, TeardownTypeOK, passVars
<1>. DEFINE roots == singletons \cup elsewhere'
<1>1. /\ existing' \subseteq existing /\ existing' \subseteq roots \cup HeldIn(existing')
      /\ HeldIn(existing') \subseteq existing'
  BY RemainingIs, RemainingHasItsOwn
<1>2. /\ HeldIn(existing)' = HeldIn(existing') /\ HeldIn(existing') \subseteq HeldIn(existing)
      /\ HeldIn(singletons \cup users)' = HeldIn(singletons \cup users)
  <2>1. HeldIn(existing') \subseteq HeldIn(existing)
    BY <1>1, HeldInMore
  <2>2. HeldIn(existing)' = HeldIn(existing') /\ HeldIn(singletons \cup users)' = HeldIn(singletons \cup users)
    BY Zenon DEF HeldIn
  <2>. QED  BY <2>1, <2>2
<1>3. roots \subseteq existing'
  <2>1. roots \subseteq existing /\ existing' = Remaining(existing, roots)
    OBVIOUS
  <2>2. roots \subseteq Remaining(existing, roots)
    BY <2>1, RootsRemain
  <2>. QED  BY <2>1, <2>2
<1>4. TeardownTypeOK'
  BY <1>1, <1>3
<1>5. Table'
  BY <1>1, <1>2 DEF Table, IsFirst
<1>6. Passes' /\ KeptOnlyIfHeld'
  BY <1>1, <1>2 DEF Passes, KeptOnlyIfHeld, Table
<1>. QED  BY <1>1, <1>2, <1>4, <1>5, <1>6

LEMMA TakeKeeps ==
  ASSUME TeardownInv, NEW e \in Singleton, Take(e)
  PROVE  TeardownInv'
<1>. USE DEF Take, TeardownInv, TeardownTypeOK, passVars, singletonVars
<1>1. HeldIn(existing)' = HeldIn(existing)
  BY DEF HeldIn
<1>2. HeldIn(singletons \cup users) \subseteq HeldIn(singletons \cup users)'
  BY DEF HeldIn
<1>3. TeardownTypeOK' /\ Passes'
  BY <1>2 DEF Passes
<1>4. Table'
  BY <1>1 DEF Table, IsFirst
<1>5. KeptOnlyIfHeld'
  BY <1>2 DEF KeptOnlyIfHeld, Table
<1>. QED  BY <1>1, <1>3, <1>4, <1>5

LEMMA CopyKeeps ==
  ASSUME TeardownInv, StartCopy \/ (\E e \in Singleton : MissErased(e)) \/ UNCHANGED teardownVars
  PROVE  TeardownInv'
<1>. USE DEF TeardownInv
<1>1. /\ UNCHANGED <<holds, singletons, existing, elsewhere, users, overtaken, passes, todo, progress>>
      /\ stage' \in {stage, "crashed"}
  BY DEF StartCopy, MissErased, teardownVars, singletonVars, passVars, userVars
<1>2. HeldIn(existing)' = HeldIn(existing) /\ HeldIn(singletons \cup users)' = HeldIn(singletons \cup users)
  BY <1>1 DEF HeldIn
<1>3. TeardownTypeOK'
  <2>1. toCopy' \subseteq Singleton
    BY DEF StartCopy, MissErased, teardownVars, userVars, TeardownTypeOK
  <2>. QED  BY <1>1, <2>1 DEF TeardownTypeOK
<1>4. Table'
  BY <1>1, <1>2 DEF Table, IsFirst
<1>. QED  BY <1>1, <1>2, <1>3, <1>4 DEF KeptOnlyIfHeld, Passes

LEMMA TeardownInvariant == TeardownSpec => []TeardownInv
<1>1. TeardownInit => TeardownInv
  <2>. SUFFICES ASSUME TeardownInit
                PROVE  TeardownInv
    OBVIOUS
  <2>. USE EngineTeardownAssumption DEF TeardownInit
  <2>1. TeardownTypeOK
    <3>1. 0 \in 0 .. MaxPasses
      OBVIOUS
    <3>2. elsewhere \subseteq Singleton /\ stage = "passes" /\ progress = FALSE
      OBVIOUS
    <3>. QED  BY <3>1, <3>2 DEF TeardownTypeOK
  <2>2. HeldIn(existing) \subseteq Singleton
    BY DEF HeldIn
  <2>3. Cardinality(Singleton) \in Nat
    BY FS_CardinalityType
  <2>. QED  BY <2>1, <2>2, <2>3 DEF TeardownInv, Table, Passes, KeptOnlyIfHeld
<1>2. TeardownInv /\ [TeardownNext]_teardownVars => TeardownInv'
  BY PostponeKeeps, CondemnKeeps, EraseKeeps, EndPassKeeps, ClearKeeps, LetGoKeeps, TakeKeeps, CopyKeeps DEF TeardownNext
<1>. QED  BY <1>1, <1>2, PTL DEF TeardownSpec

(* The members of destroy_engines() are of their types, and what the table  *)
(* or somebody else has exists.                                             *)
THEOREM TeardownTypeCorrect == TeardownSpec => []TeardownTypeOK
<1>1. TeardownInv => TeardownTypeOK
  BY DEF TeardownInv
<1>. QED  BY <1>1, TeardownInvariant, PTL

(* For any engines that hold each other in any way, circles included, and   *)
(* for any number of passes, while getCacheStats() copies the table again   *)
(* and again: none that exists lacks one it holds, and none is taken from   *)
(* the table before it is gone, unless it is copied after its test; and     *)
(* destroy_engines() gives up only where engines are held, or when it has   *)
(* fewer passes than engines and has used all of them.                      *)
THEOREM EnginesOutliveTheirUsersAlways == TeardownSpec => []EnginesOutliveTheirUsers
<1>1. TeardownInv => EnginesOutliveTheirUsers
  BY DEF TeardownInv, EnginesOutliveTheirUsers, NoneGoesInUse, Table
<1>. QED  BY <1>1, TeardownInvariant, PTL

=============================================================================
