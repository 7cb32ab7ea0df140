---------------------------- MODULE FileRegister ----------------------------
(***************************************************************************)
(* What FileCache and JsonCache promise of a file: an answer tells a       *)
(* version of the file that was on disk not longer ago than a window       *)
(* before the question.  "The window bounds the staleness: a file modified *)
(* on disk is picked up after at most the maximum check age"               *)
(* (src/spine/FileCache.h).  Versions are told apart by their modification *)
(* time, which has a resolution of a second: a version of the same second  *)
(* as the one on disk is as good as that one.                              *)
(***************************************************************************)
EXTENDS Integers, Sequences

CONSTANTS Threads,      \* the threads that ask
          Ages,         \* the maximum check ages that may be set, in seconds
          MaxVersions,  \* bound on the versions of the file
          MaxTime       \* bound on the clock

ASSUME RegisterAssumption ==
  Ages \subseteq Nat \ {0} /\ MaxVersions \in Nat \ {0} /\ MaxTime \in Nat \ {0}

VARIABLES versions,  \* what the file was, in order: [state, mtime, since]
          clock,     \* seconds
          age,       \* itsMaxCheckAge
          asked,     \* per thread: the question it waits for an answer to
          answer     \* per thread: the version it was last told, 0 for none
registerVars == <<versions, clock, age, asked, answer>>

\* A version is valid or invalid JSON, or there is no file.
States == {"valid", "invalid", "missing"}

Idle == [op |-> "none", since |-> 0, window |-> 0]
Larger(a, b) == IF a > b THEN a ELSE b

RegisterInit ==
  /\ versions \in {<<[state |-> s, mtime |-> IF s = "missing" THEN 0 ELSE 1, since |-> 1]>> : s \in {"valid", "missing"}}
  /\ clock = 1
  /\ age \in Ages
  /\ asked = [t \in Threads |-> Idle]
  /\ answer = [t \in Threads |-> 0]

\* The file is written, or removed, by someone else.
Change(s) ==
  /\ Len(versions) < MaxVersions
  /\ versions[Len(versions)].state = "missing" => s # "missing"
  /\ versions' = Append(versions, [state |-> s, mtime |-> IF s = "missing" THEN 0 ELSE clock,
                                   since |-> clock])
  /\ UNCHANGED <<clock, age, asked, answer>>

Tick ==
  /\ clock < MaxTime
  /\ clock' = clock + 1
  /\ UNCHANGED <<versions, age, asked, answer>>

\* A question that waits gets the benefit of a longer age.
SetAge(a) ==
  /\ a # age
  /\ age' = a
  /\ asked' = [t \in Threads |-> IF asked[t].op = "file"
                                 THEN [asked[t] EXCEPT !.window = Larger(@, a)] ELSE asked[t]]
  /\ UNCHANGED <<versions, clock, answer>>

\* A question to FileCache, or to JsonCache: the window of that one is the
\* second of the question itself.
Ask(t, op) ==
  /\ asked[t] = Idle
  /\ asked' = [asked EXCEPT ![t] = [op |-> op, since |-> clock,
                                    window |-> IF op = "json" THEN 1 ELSE age]]
  /\ answer' = [answer EXCEPT ![t] = 0]
  /\ UNCHANGED <<versions, clock, age>>

\* Version k was on disk later than window seconds before the question.
InWindow(t, k) ==
  k < Len(versions) => versions[k + 1].since > asked[t].since - asked[t].window

AsGoodAs(k, m) == versions[k].mtime = versions[m].mtime

Tell(t) ==
  /\ asked[t] # Idle
  /\ \E k, m \in 1 .. Len(versions) :
       /\ AsGoodAs(k, m) /\ InWindow(t, m)
       /\ answer' = [answer EXCEPT ![t] = k]
  /\ asked' = [asked EXCEPT ![t] = Idle]
  /\ UNCHANGED <<versions, clock, age>>

Change_ == \E s \in States : Change(s)
RegisterNext ==
  \/ Change_ \/ Tick
  \/ \E a \in Ages : SetAge(a)
  \/ \E t \in Threads : Tell(t) \/ \E op \in {"file", "json"} : Ask(t, op)

RegisterSpec == RegisterInit /\ [][RegisterNext]_registerVars
=============================================================================
