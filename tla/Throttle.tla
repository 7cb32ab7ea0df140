------------------------------ MODULE Throttle ------------------------------
(***************************************************************************)
(* The adaptive limit of simultaneous requests (insertActiveRequest and    *)
(* removeActiveRequest of spine/Reactor.cpp over spine/ActiveRequests).    *)
(*                                                                         *)
(* The set of active requests has a mutex of its own; the load flag, the   *)
(* limit and the counter of successes are atomics that are read and        *)
(* written one at a time.  An action is one access to any of them.  A      *)
(* thread serves one request at a time.                                    *)
(***************************************************************************)
EXTENDS Integers, FiniteSets

CONSTANTS
  Thread,
  StartLimit,    \* throttle.start_limit, at most throttle.limit
  RestartLimit,  \* throttle.restart_limit, which is not tested
  Limit,         \* throttle.limit
  IncreaseRate   \* throttle.increase_rate

ASSUME ThrottleAssumption ==
  /\ IsFiniteSet(Thread) /\ Thread # {}
  /\ Limit \in Nat /\ StartLimit \in 1..Limit
  /\ RestartLimit \in Nat
  /\ IncreaseRate \in Nat \ {0}

VARIABLES
  active,     \* the threads whose request is in itsActiveRequests
  limit,      \* itsActiveRequestsLimit
  high,       \* itsHighLoadFlag
  successes,  \* itsActiveRequestsCounter % increase_rate
  at,         \* per thread: where it is
  n           \* per thread: the size it has read

vars == <<active, limit, high, successes, at, n>>

(* Where a thread may be, in the order of the code.                         *)
Inserting == {"count", "compare", "lower", "reset", "raise", "test", "drop"}
InProgress == Inserting \cup {"handle"}
Removing == {"recount", "recompare", "relower", "status", "succeed", "room", "increase"}

TypeOK ==
  /\ active = {t \in Thread : at[t] \in InProgress}
  /\ limit \in Nat
  /\ high \in BOOLEAN
  /\ successes \in 0..(IncreaseRate - 1)
  /\ at \in [Thread -> {"idle"} \cup InProgress \cup Removing]
  /\ n \in [Thread -> Nat]

Init ==
  /\ active = {} /\ limit = StartLimit /\ high = FALSE /\ successes = 0
  /\ at = [t \in Thread |-> "idle"] /\ n = [t \in Thread |-> 0]

Go(t, from, to) == at[t] = from /\ at' = [at EXCEPT ![t] = to]

-----------------------------------------------------------------------------
(* insertActiveRequest.                                                     *)
Insert(t) ==
  /\ Go(t, "idle", "count")
  /\ active' = active \cup {t}
  /\ UNCHANGED <<limit, high, successes, n>>

Count(t) ==
  /\ Go(t, "count", "compare")
  /\ n' = [n EXCEPT ![t] = Cardinality(active)]
  /\ UNCHANGED <<active, limit, high, successes>>

Compare(t) ==
  /\ Go(t, "compare", IF n[t] < limit THEN "lower" ELSE "reset")
  /\ UNCHANGED <<active, limit, high, successes, n>>

Lower(t) ==
  /\ Go(t, "lower", "handle")
  /\ high' = FALSE
  /\ UNCHANGED <<active, limit, successes, n>>

Reset(t) ==
  /\ Go(t, "reset", "raise")
  /\ successes' = 0
  /\ UNCHANGED <<active, limit, high, n>>

Raise(t) ==
  /\ Go(t, "raise", "test")
  /\ high' = TRUE
  /\ UNCHANGED <<active, limit, successes, n>>

Test(t) ==
  /\ Go(t, "test", IF limit > RestartLimit THEN "drop" ELSE "handle")
  /\ UNCHANGED <<active, limit, high, successes, n>>

Drop(t) ==
  /\ Go(t, "drop", "handle")
  /\ limit' = RestartLimit
  /\ UNCHANGED <<active, high, successes, n>>

-----------------------------------------------------------------------------
(* removeActiveRequest: only a request that was answered 200 counts.        *)

RemoveActive(t) ==
  /\ Go(t, "handle", "recount")
  /\ active' = active \ {t}
  /\ UNCHANGED <<limit, high, successes, n>>

Recount(t) ==
  /\ Go(t, "recount", "recompare")
  /\ n' = [n EXCEPT ![t] = Cardinality(active)]
  /\ UNCHANGED <<active, limit, high, successes>>

FaultRecompare(t) ==  \* fault: a thread that leaves the last request does not look
  /\ Go(t, "recompare", IF 0 < n[t] /\ n[t] < limit THEN "relower" ELSE "status")
  /\ UNCHANGED <<active, limit, high, successes, n>>

Recompare(t) ==
  /\ Go(t, "recompare", IF n[t] < limit THEN "relower" ELSE "status")
  /\ UNCHANGED <<active, limit, high, successes, n>>

Relower(t) ==
  /\ Go(t, "relower", "status")
  /\ high' = FALSE
  /\ UNCHANGED <<active, limit, successes, n>>

Status(t) ==
  /\ \E ok \in BOOLEAN : Go(t, "status", IF ok THEN "succeed" ELSE "idle")
  /\ UNCHANGED <<active, limit, high, successes, n>>

Succeed(t) ==
  /\ successes' = (successes + 1) % IncreaseRate
  /\ Go(t, "succeed", IF successes' = 0 THEN "room" ELSE "idle")
  /\ UNCHANGED <<active, limit, high, n>>

FaultRoomAlways(t) ==  \* fault: the limit has no ceiling
  /\ Go(t, "room", IF limit < Limit + Cardinality(Thread) THEN "increase" ELSE "idle")
  /\ UNCHANGED <<active, limit, high, successes, n>>

FaultRoomShort(t) ==  \* fault: off by one
  /\ Go(t, "room", IF limit + 1 < Limit THEN "increase" ELSE "idle")
  /\ UNCHANGED <<active, limit, high, successes, n>>

Room(t) ==
  /\ Go(t, "room", IF limit < Limit THEN "increase" ELSE "idle")
  /\ UNCHANGED <<active, limit, high, successes, n>>

Increase(t) ==
  /\ Go(t, "increase", "idle")
  /\ limit' = limit + 1
  /\ UNCHANGED <<active, high, successes, n>>

-----------------------------------------------------------------------------
InsertStep(t) ==
  Count(t) \/ Compare(t) \/ Lower(t) \/ Reset(t) \/ Raise(t) \/ Test(t) \/ Drop(t)
RemoveStep(t) ==
  Recount(t) \/ Recompare(t) \/ Relower(t) \/ Status(t) \/ Succeed(t) \/ Room(t) \/ Increase(t)

Next == \E t \in Thread : Insert(t) \/ InsertStep(t) \/ RemoveActive(t) \/ RemoveStep(t)

Spec == Init /\ [][Next]_vars

(* A thread inside one of the two functions goes on; requests need not      *)
(* arrive, nor their handlers return.                                       *)
Fairness == \A t \in Thread : WF_vars(InsertStep(t) \/ RemoveStep(t))
FairSpec == Spec /\ Fairness

-----------------------------------------------------------------------------
(* isLoadHigh(): however the stores of several requests cross, an idle      *)
(* server does not report a high load.                                      *)
IdleIsLow == (\A t \in Thread : at[t] = "idle") => ~high

(* The ceiling is tested before the increment: every thread but one may     *)
(* pass it once more.                                                       *)
OvershootBounded == limit <= Limit + Cardinality(Thread) - 1

(* "dropping active requests limit": a slowdown never raises the limit,     *)
(* though the test and the store are apart.                                 *)
SlowdownLowers == [][\A t \in Thread : Drop(t) => limit' <= limit]_vars

(* "increment current limit every 10 succesfull requests": while successes  *)
(* keep coming and no overload resets their count, the limit returns to its *)
(* ceiling.                                                                 *)
LimitRecovers ==
  (<>[][\A t \in Thread : ~Reset(t) /\ ~Drop(t)]_vars /\ []<><<\E t \in Thread : Succeed(t)>>_vars)
    => <>[](limit >= Limit)

=============================================================================
