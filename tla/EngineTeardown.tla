---------------------------- MODULE EngineTeardown ----------------------------
(***************************************************************************)
(* The deletion of the engines after their shutdown:                       *)
(* Reactor::destroy_engines (src/spine/Reactor.cpp).  Engines hold engines *)
(* that they were given; an engine exists as long as the table of engines, *)
(* another engine or somebody else holds it (std::shared_ptr).  A request  *)
(* that is still in its handler may let go of one at any time; and though  *)
(* getSingleton() fails by then, getCacheStats() copies the table, under a *)
(* lock that the deletion does not take.                                   *)
(***************************************************************************)
EXTENDS Naturals, FiniteSets

CONSTANTS
  Singleton,  \* the engines, numbered in the order of their names
  MaxPasses   \* 20 in the code

ASSUME EngineTeardownAssumption ==
  Singleton \subseteq Nat /\ IsFiniteSet(Singleton) /\ MaxPasses \in Nat \ {0}

VARIABLES
  holds,      \* per engine: the engines it holds
  elsewhere,  \* the engines that others hold
  singletons, \* itsSingletons
  existing,   \* the engines that exist
  toCopy,     \* what getCacheStats has still to copy
  stage,      \* "passes", "erase" (after the test of an engine), "clear", "over" or "crashed"
  passes,     \* cnt, the passes that are over
  todo,       \* what the pass has still to look at
  progress,   \* num_deleted > 0
  users,      \* history: what others held when the pass began or took since
  overtaken   \* history: the engines that were taken between their test and their erasure

singletonVars == <<singletons, existing>>
passVars  == <<stage, passes, todo, progress>>
userVars  == <<elsewhere, toCopy, users, overtaken>>
teardownVars == <<holds, singletonVars, passVars, userVars>>

TeardownTypeOK ==
  /\ holds \in [Singleton -> SUBSET Singleton]
  /\ elsewhere \subseteq existing /\ singletons \subseteq existing /\ existing \subseteq Singleton
  /\ toCopy \subseteq Singleton /\ overtaken \subseteq Singleton
  /\ stage \in {"passes", "erase", "clear", "over", "crashed"}
  /\ passes \in 0 .. MaxPasses /\ todo \subseteq singletons
  /\ progress \in BOOLEAN /\ users \subseteq Singleton

TeardownInit ==
  /\ holds \in [Singleton -> SUBSET Singleton] /\ elsewhere \in SUBSET Singleton
  /\ singletons = Singleton /\ existing = Singleton
  /\ stage = "passes" /\ passes = 0 /\ todo = Singleton /\ progress = FALSE
  /\ users = elsewhere /\ toCopy = {} /\ overtaken = {}

-----------------------------------------------------------------------------
\* Held by one of these engines.
HeldIn(engines) == UNION {holds[x] : x \in engines}

\* What is left of some engines when only roots are held from outside of
\* them: whoever loses the last holder goes, and lets go of its own.
Remaining(engines, roots) == UNION {S \in SUBSET engines : S \subseteq roots \cup HeldIn(S)}

\* Fault: what the engines hold is not looked at.
InUseElsewhere(e) == e \in elsewhere

\* use_count() > 1 for an engine in the table.
InUse(e) == e \in elsewhere \cup HeldIn(existing)

IsFirst(e, engines) == e \in engines /\ \A x \in engines : e <= x

Postpone(e) ==
  /\ stage = "passes" /\ IsFirst(e, todo) /\ InUse(e)
  /\ todo' = todo \ {e}
  /\ UNCHANGED <<holds, singletonVars, userVars, stage, passes, progress>>

Condemn(e) ==
  /\ stage = "passes" /\ IsFirst(e, todo) /\ ~InUse(e)
  /\ stage' = "erase"
  /\ UNCHANGED <<holds, singletonVars, userVars, passes, todo, progress>>

\* itsSingletons.erase(it1): the use count is not looked at again.
Erase(e) ==
  /\ stage = "erase" /\ IsFirst(e, todo)
  /\ singletons' = singletons \ {e} /\ existing' = Remaining(existing, singletons' \cup elsewhere)
  /\ stage' = "passes" /\ todo' = todo \ {e} /\ progress' = TRUE
  /\ UNCHANGED <<holds, userVars, passes>>

\* A pass that deletes nothing is the last one.
EndPass ==
  /\ stage = "passes" /\ todo = {}
  /\ passes' = passes + 1
  /\ IF passes' = MaxPasses \/ (singletons # {} /\ ~progress)
     THEN stage' = "clear" /\ UNCHANGED <<todo, progress, users>>
     ELSE todo' = singletons /\ progress' = FALSE /\ users' = elsewhere /\ UNCHANGED stage
  /\ UNCHANGED <<holds, singletonVars, elsewhere, toCopy, overtaken>>

FaultEndPass ==  \* fault: the first pass that leaves engines is the last one
  /\ stage = "passes" /\ todo = {}
  /\ passes' = passes + 1
  /\ IF passes' = MaxPasses \/ singletons # {}
     THEN stage' = "clear" /\ UNCHANGED <<todo, progress, users>>
     ELSE todo' = singletons /\ progress' = FALSE /\ users' = elsewhere /\ UNCHANGED stage
  /\ UNCHANGED <<holds, singletonVars, elsewhere, toCopy, overtaken>>

\* itsSingletons.clear()
Clear ==
  /\ stage = "clear" /\ stage' = "over"
  /\ singletons' = {} /\ existing' = Remaining(existing, elsewhere)
  /\ UNCHANGED <<holds, userVars, passes, todo, progress>>

-----------------------------------------------------------------------------
\* Somebody lets go of an engine, which is deleted there if nobody else has it.
LetGo(e) ==
  /\ stage # "crashed" /\ e \in elsewhere
  /\ elsewhere' = elsewhere \ {e} /\ existing' = Remaining(existing, singletons \cup elsewhere')
  /\ UNCHANGED <<holds, singletons, passVars, toCopy, users, overtaken>>

\* getCacheStats of one request at a time, for itsInitMutex, walks the table.
StartCopy ==
  /\ stage # "crashed" /\ toCopy = {} /\ toCopy' = singletons
  /\ UNCHANGED <<holds, singletonVars, passVars, elsewhere, users, overtaken>>

Take(e) ==
  /\ stage # "crashed" /\ IsFirst(e, toCopy) /\ e \in singletons
  /\ toCopy' = toCopy \ {e} /\ elsewhere' = elsewhere \cup {e} /\ users' = users \cup {e}
  /\ overtaken' = IF stage = "erase" /\ IsFirst(e, todo) THEN overtaken \cup {e} ELSE overtaken
  /\ UNCHANGED <<holds, singletonVars, passVars>>

\* A data race: the walk passes by the engine that was erased meanwhile, or
\* reads what was freed.
MissErased(e) ==
  /\ stage # "crashed" /\ IsFirst(e, toCopy) /\ e \notin singletons
  /\ toCopy' = toCopy \ {e}
  /\ stage' \in {stage, "crashed"}
  /\ UNCHANGED <<holds, singletonVars, elsewhere, users, overtaken, passes, todo, progress>>

TeardownNext ==
  \/ \E e \in Singleton : Postpone(e) \/ Condemn(e) \/ Erase(e) \/ LetGo(e) \/ Take(e) \/ MissErased(e)
  \/ EndPass \/ Clear \/ StartCopy

TeardownSpec == TeardownInit /\ [][TeardownNext]_teardownVars

-----------------------------------------------------------------------------
\* What exists has all that it holds.  And while the passes go on the table
\* has every engine that exists: none is taken from it that goes on working
\* for others, to end at a place and a time of their choosing, unless it was
\* copied from the table after the test of its use count, which happens.
NoneGoesInUse ==
  /\ HeldIn(existing) \subseteq existing
  /\ stage \in {"passes", "erase", "clear"} => existing \ singletons \subseteq overtaken

\* An engine is left after the passes only if one that is left holds it, or
\* somebody else held it, or held one that holds it, in the last pass, or each
\* of the passes has deleted some and there are more engines than passes.  In
\* the end nothing is left that nobody holds.
KeptOnlyIfHeld ==
  /\ stage = "clear" =>
       \/ singletons \subseteq users \cup HeldIn(singletons \cup users)
       \/ passes = MaxPasses /\ progress /\ Cardinality(Singleton) > MaxPasses
  /\ stage = "over" => existing \subseteq elsewhere \cup HeldIn(existing)

\* No engine is gone before its users, and none stays without them
\* (Reactor.cpp:1398-1459, beside Reactor.cpp:1467-1473).
EnginesOutliveTheirUsers == NoneGoesInUse /\ KeptOnlyIfHeld

=============================================================================
