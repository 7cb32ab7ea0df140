--------------------------- MODULE PendingLookups ---------------------------
(***************************************************************************)
(* What the reverse-DNS resolver promises: a bounded set of addresses      *)
(* awaiting an answer.  An address is admitted at most once at a time,     *)
(* leaves only after it has been answered, and everyone is answered.       *)
(***************************************************************************)
EXTENDS Naturals, FiniteSets

CONSTANTS Ip, Limit

VARIABLES pending, answered

TypeInvariant == pending \in SUBSET Ip /\ answered \in SUBSET pending

Init == pending = {} /\ answered = {}

Admit(i) ==
  /\ i \notin pending /\ Cardinality(pending) < Limit
  /\ pending' = pending \cup {i}
  /\ UNCHANGED answered

Answer(i) ==
  /\ i \in pending \ answered
  /\ answered' = answered \cup {i}
  /\ UNCHANGED pending

Settle(i) ==
  /\ i \in answered
  /\ pending' = pending \ {i}
  /\ answered' = answered \ {i}

Next == \E i \in Ip : Admit(i) \/ Answer(i) \/ Settle(i)

Spec == Init /\ [][Next]_<<pending, answered>>

FairSpec ==
  Spec /\ \A i \in Ip : WF_<<pending, answered>>(Answer(i)) /\ WF_<<pending, answered>>(Settle(i))

=============================================================================
