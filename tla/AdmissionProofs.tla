-------------------------- MODULE AdmissionProofs ---------------------------
(***************************************************************************)
(* Proofs about what lets a request in, and about what the admin requests  *)
(* report.  About Throttle, for any number of threads and any settings     *)
(* that Options lets pass.  About RequestAnswers, for lists of tags of any *)
(* length, any history of calls about users, any list of address formats,  *)
(* any handlers with any logs, any owners of caches and any registry:      *)
(* there are folds over sequences in it, and what they compute is proved   *)
(* by induction over sets of sequences.                                    *)
(***************************************************************************)
EXTENDS Throttle, RequestAnswers, SequenceTheorems, FiniteSetTheorems, WellFoundedInduction, TLAPS

USE ThrottleAssumption

Places == {"idle"} \cup InProgress \cup Removing

(* What every step of a thread has in common.                               *)
LEMMA Steps ==
  ASSUME TypeOK, NEW t \in Thread, NEW from, NEW to, Go(t, from, to), to \in Places
  PROVE  at' \in [Thread -> Places] /\ at'[t] = to /\ at[t] = from /\ \A s \in Thread \ {t} : at'[s] = at[s]
BY DEF Go, TypeOK, Places

(* The requests that are in are finitely many.                              *)
LEMMA ActiveFinite ==
  ASSUME TypeOK
  PROVE  IsFiniteSet(active) /\ Cardinality(active) \in Nat
<1>1. active \subseteq Thread
  BY DEF TypeOK
<1>. QED  BY <1>1, FS_Subset, FS_CardinalityType

-----------------------------------------------------------------------------
(* Type correctness.                                                        *)
LEMMA TypeInit == Init => TypeOK
<1>1. Init => high \in BOOLEAN
  BY DEF Init
<1>2. Init => active = {t \in Thread : at[t] \in InProgress}
  BY DEF Init, InProgress, Inserting
<1>. QED  BY <1>1, <1>2 DEF Init, TypeOK

LEMMA HighStep ==
  ASSUME TypeOK, [Next]_vars
  PROVE  high' \in BOOLEAN
BY DEF TypeOK, Next, vars, Insert, InsertStep, RemoveActive, RemoveStep, Count, Compare, Lower,
  Reset, Raise, Test, Drop,
  Recount, Recompare, Relower, Status, Succeed, Room, Increase

LEMMA TypeStep ==
  ASSUME TypeOK, [Next]_vars
  PROVE  TypeOK'
<1>0. high' \in BOOLEAN
  BY HighStep
<1>1. ASSUME NEW t \in Thread, Insert(t)
      PROVE  TypeOK'
  BY <1>0, <1>1 DEF Insert, Go, TypeOK, InProgress, Inserting, Removing
<1>2. ASSUME NEW t \in Thread, InsertStep(t)
      PROVE  TypeOK'
  <2>. USE <1>0 DEF Go, TypeOK, InProgress, Inserting, Removing
  <2>1. CASE Count(t)
    BY <2>1, ActiveFinite DEF Count
  <2>2. CASE Compare(t)
    BY <2>2 DEF Compare
  <2>3. CASE Lower(t) \/ Raise(t) \/ Test(t)
    BY <2>3 DEF Lower, Raise, Test
  <2>4. CASE Reset(t) \/ Drop(t)
    BY <2>4 DEF Reset, Drop
  <2>. QED  BY <1>2, <2>1, <2>2, <2>3, <2>4 DEF InsertStep
<1>3. ASSUME NEW t \in Thread, RemoveActive(t)
      PROVE  TypeOK'
  BY <1>0, <1>3 DEF RemoveActive, Go, TypeOK, InProgress, Inserting, Removing
<1>4. ASSUME NEW t \in Thread, RemoveStep(t)
      PROVE  TypeOK'
  <2>. USE <1>0 DEF Go, TypeOK, InProgress, Inserting, Removing
  <2>1. CASE Recount(t)
    BY <2>1, ActiveFinite DEF Recount
  <2>2. CASE Recompare(t) \/ Relower(t)
    BY <2>2 DEF Recompare, Relower
  <2>3. CASE Status(t) \/ Room(t)
    BY <2>3 DEF Status, Room
  <2>4. CASE Succeed(t)
    BY <2>4 DEF Succeed
  <2>5. CASE Increase(t)
    BY <2>5 DEF Increase
  <2>. QED  BY <1>4, <2>1, <2>2, <2>3, <2>4, <2>5 DEF RemoveStep
<1>5. CASE UNCHANGED vars
  BY <1>5 DEF TypeOK, vars
<1>. QED  BY <1>1, <1>2, <1>3, <1>4, <1>5 DEF Next

(* Type correctness; the active requests are those of the threads that are  *)
(* between the two functions.                                               *)
THEOREM TypeCorrect == Spec => []TypeOK
<1>1. TypeOK /\ [Next]_vars => TypeOK'
  BY TypeStep
<1>. QED  BY TypeInit, <1>1, PTL DEF Spec

-----------------------------------------------------------------------------
(* The limit.  Once above the restart limit it never falls below it, so the *)
(* store of a slowdown finds what its test has found.                       *)
DropsDown == \A t \in Thread : at[t] = "drop" => RestartLimit <= limit

LEMMA DropsDownStep ==
  ASSUME TypeOK, DropsDown, [Next]_vars
  PROVE  DropsDown'
<1>1. ASSUME NEW t \in Thread, Test(t) \/ Drop(t) \/ Increase(t)
      PROVE  DropsDown'
  BY <1>1 DEF Test, Drop, Increase, Go, DropsDown, TypeOK
<1>2. ASSUME NEW t \in Thread, limit' = limit, \E from, to : to # "drop" /\ Go(t, from, to)
      PROVE  DropsDown'
  BY <1>2 DEF Go, DropsDown, TypeOK
<1>3. CASE UNCHANGED vars
  BY <1>3 DEF DropsDown, vars
<1>. QED
  BY <1>1, <1>2, <1>3 DEF Next, Insert, InsertStep, RemoveActive, RemoveStep, Count, Compare, Lower, Reset, Raise,
    Recount, Recompare, Relower, Status, Succeed, Room

(* A slowdown never raises the limit.                                       *)
THEOREM SlowdownLowersAlways == Spec => SlowdownLowers
<1>1. Init => DropsDown
  BY DEF Init, DropsDown
<1>2. TypeOK /\ DropsDown /\ [Next]_vars => DropsDown'
  BY DropsDownStep
<1>3. TypeOK /\ DropsDown /\ [Next]_vars => [\A t \in Thread : Drop(t) => limit' <= limit]_vars
  BY DEF DropsDown, Drop, Go, TypeOK
<1>. QED  BY <1>1, <1>2, <1>3, TypeCorrect, PTL DEF Spec, SlowdownLowers

(* Those about to increase the limit have found room for one of them; they  *)
(* are counted with it.                                                     *)
Increasing == {t \in Thread : at[t] = "increase"}
RoomForAll == limit + Cardinality(Increasing) <= Limit + Cardinality(Thread) - 1

LEMMA IncreasingFinite ==
  /\ IsFiniteSet(Increasing) /\ Cardinality(Increasing) \in Nat
  /\ IsFiniteSet(Increasing') /\ Cardinality(Increasing') \in Nat
  /\ Cardinality(Thread) \in Nat \ {0}
<1>1. Increasing \subseteq Thread /\ Increasing' \subseteq Thread
  BY DEF Increasing
<1>2. Cardinality(Thread) # 0
  BY FS_EmptySet
<1>. QED  BY <1>1, <1>2, FS_Subset, FS_CardinalityType

LEMMA RoomForAllStep ==
  ASSUME TypeOK, DropsDown, RoomForAll, [Next]_vars
  PROVE  RoomForAll'
<1>. USE IncreasingFinite
<1>1. ASSUME NEW t \in Thread, Room(t)
      PROVE  RoomForAll'
  <2>1. CASE limit < Limit
    <3>1. t \notin Increasing /\ Increasing' = Increasing \cup {t}
      BY <1>1, <2>1 DEF Room, Go, Increasing, TypeOK
    <3>2. Cardinality(Increasing') = Cardinality(Increasing) + 1
      BY <3>1, FS_AddElement
    <3>3. Cardinality(Increasing') <= Cardinality(Thread)
      BY FS_Subset DEF Increasing
    <3>. QED  BY <1>1, <2>1, <3>2, <3>3 DEF Room, RoomForAll, TypeOK
  <2>2. CASE ~(limit < Limit)
    <3>1. Increasing' = Increasing
      BY <1>1, <2>2 DEF Room, Go, Increasing, TypeOK
    <3>. QED  BY <1>1, <3>1 DEF Room, RoomForAll
  <2>. QED  BY <2>1, <2>2
<1>2. ASSUME NEW t \in Thread, Increase(t)
      PROVE  RoomForAll'
  <2>1. t \in Increasing /\ Increasing' = Increasing \ {t}
    BY <1>2 DEF Increase, Go, Increasing, TypeOK
  <2>2. Cardinality(Increasing') = Cardinality(Increasing) - 1
    BY <2>1, FS_RemoveElement
  <2>. QED  BY <1>2, <2>2 DEF Increase, RoomForAll, TypeOK
<1>3. ASSUME NEW t \in Thread, Drop(t)
      PROVE  RoomForAll'
  <2>1. Increasing' = Increasing
    BY <1>3 DEF Drop, Go, Increasing, TypeOK
  <2>. QED  BY <1>3, <2>1 DEF Drop, Go, DropsDown, RoomForAll, TypeOK
<1>4. ASSUME NEW t \in Thread, limit' = limit,
             \E from, to : from # "increase" /\ to # "increase" /\ Go(t, from, to)
      PROVE  RoomForAll'
  <2>1. Increasing' = Increasing
    BY <1>4 DEF Go, Increasing, TypeOK
  <2>. QED  BY <1>4, <2>1 DEF RoomForAll
<1>5. CASE UNCHANGED vars
  BY <1>5 DEF RoomForAll, Increasing, vars
<1>. QED
  BY <1>1, <1>2, <1>3, <1>4, <1>5 DEF Next, Insert, InsertStep, RemoveActive, RemoveStep, Count,
     Compare, Lower, Reset,
    Raise, Test, Recount, Recompare, Relower, Status, Succeed

(* The limit passes its ceiling by less than the number of threads.         *)
THEOREM OvershootBoundedAlways == Spec => []OvershootBounded
<1>1. Init => DropsDown /\ RoomForAll
  <2>1. Init => Increasing = {}
    BY DEF Init, Increasing
  <2>. QED  BY <2>1, FS_EmptySet, IncreasingFinite DEF Init, DropsDown, RoomForAll
<1>2. TypeOK /\ DropsDown /\ RoomForAll /\ [Next]_vars => DropsDown' /\ RoomForAll'
  BY DropsDownStep, RoomForAllStep
<1>3. TypeOK /\ RoomForAll => OvershootBounded
  BY IncreasingFinite DEF RoomForAll, OvershootBounded, TypeOK
<1>. QED  BY <1>1, <1>2, <1>3, TypeCorrect, PTL DEF Spec

-----------------------------------------------------------------------------
(* The flag.  While it is up somebody is still going to lower it: a thread  *)
(* that has yet to count, one that has counted nobody, or one about to      *)
(* store.  A limit of zero would let the last one pass.                     *)
Positive == limit > 0
WillLower ==
  high => \E t \in Thread :
    at[t] \in InProgress \cup {"recount", "relower"} \/ (at[t] = "recompare" /\ n[t] = 0)

LEMMA WillLowerStep ==
  ASSUME TypeOK, Positive, WillLower, [Next]_vars
  PROVE  WillLower'
<1>. DEFINE Holds(t) == at[t] \in InProgress \cup {"recount", "relower"} \/ (at[t] = "recompare" /\ n[t] = 0)
<1>1. ASSUME NEW t \in Thread, Holds(t)'
      PROVE  WillLower'
  BY <1>1 DEF WillLower
<1>2. ASSUME NEW t \in Thread, Insert(t) \/ InsertStep(t) \/ RemoveActive(t)
      PROVE  WillLower'
  <2>1. Holds(t)'
    BY <1>2 DEF Insert, InsertStep, RemoveActive, Count, Compare, Lower, Reset, Raise, Test, Drop, Go, TypeOK,
      InProgress, Inserting
  <2>. QED  BY <1>1, <2>1
<1>3. ASSUME NEW t \in Thread, Recount(t)
      PROVE  WillLower'
  <2>1. CASE active = {}
    <3>1. Cardinality(active) = 0
      BY <2>1, FS_EmptySet
    <3>2. Holds(t)'
      BY <1>3, <3>1 DEF Recount, Go, TypeOK
    <3>. QED  BY <1>1, <3>2
  <2>2. CASE active # {}
    <3>1. PICK s \in Thread : at[s] \in InProgress
      BY <2>2 DEF TypeOK
    <3>2. s # t
      BY <1>3, <3>1 DEF Recount, Go, InProgress, Inserting
    <3>3. Holds(s)'
      BY <1>3, <3>1, <3>2 DEF Recount, Go, TypeOK
    <3>. QED  BY <1>1, <3>3
  <2>. QED  BY <2>1, <2>2
<1>4. ASSUME NEW t \in Thread, Recompare(t)
      PROVE  WillLower'
  <2>1. CASE n[t] < limit
    <3>1. Holds(t)'
      BY <1>4, <2>1 DEF Recompare, Go, TypeOK
    <3>. QED  BY <1>1, <3>1
  <2>2. CASE ~(n[t] < limit)
    <3>1. ~Holds(t)
      BY <1>4, <2>2 DEF Recompare, Go, Positive, TypeOK, InProgress, Inserting
    <3>2. \A s \in Thread : Holds(s) => Holds(s)'
      BY <1>4, <3>1 DEF Recompare, Go, TypeOK
    <3>. QED  BY <1>4, <3>2 DEF WillLower, Recompare
  <2>. QED  BY <2>1, <2>2
<1>5. ASSUME NEW t \in Thread, Relower(t)
      PROVE  WillLower'
  BY <1>5 DEF Relower, WillLower
<1>6. ASSUME NEW t \in Thread, Status(t) \/ Succeed(t) \/ Room(t) \/ Increase(t)
      PROVE  WillLower'
  <2>1. at[t] \in {"status", "succeed", "room", "increase"} /\ n' = n /\ \A s \in Thread \ {t} : at'[s] = at[s]
    BY <1>6 DEF Status, Succeed, Room, Increase, Go, TypeOK
  <2>2. ~Holds(t)
    BY <2>1 DEF InProgress, Inserting
  <2>3. \A s \in Thread : Holds(s) => Holds(s)'
    BY <2>1, <2>2
  <2>4. high' = high
    BY <1>6 DEF Status, Succeed, Room, Increase
  <2>. QED  BY <2>3, <2>4 DEF WillLower
<1>7. CASE UNCHANGED vars
  BY <1>7 DEF WillLower, vars
<1>. QED  BY <1>2, <1>3, <1>4, <1>5, <1>6, <1>7 DEF Next, RemoveStep

LEMMA PositiveStep ==
  ASSUME TypeOK, Positive, RestartLimit > 0, [Next]_vars
  PROVE  Positive'
<1>1. limit' \in {limit, limit + 1, RestartLimit}
  BY DEF Next, vars, Insert, InsertStep, RemoveActive, RemoveStep, Count, Compare, Lower, Reset, Raise, Test, Drop,
    Recount, Recompare, Relower, Status, Succeed, Room, Increase
<1>. QED  BY <1>1 DEF TypeOK, Positive

(* With a restart limit above zero an idle server never reports a high load.*)
THEOREM IdleIsLowAlways ==
  ASSUME RestartLimit > 0
  PROVE  Spec => []IdleIsLow
<1>1. Init => Positive /\ WillLower
  BY DEF Init, Positive, WillLower
<1>2. TypeOK /\ Positive /\ WillLower /\ [Next]_vars => Positive' /\ WillLower'
  BY PositiveStep, WillLowerStep
<1>3. WillLower => IdleIsLow
  BY DEF WillLower, IdleIsLow, InProgress, Inserting
<1>. QED  BY <1>1, <1>2, <1>3, TypeCorrect, PTL DEF Spec

-----------------------------------------------------------------------------
HIDE ThrottleAssumption

(* RequestAnswers.  Induction over numbers and sequences, with sets: the     *)
(* least counterexample is found with WFMin.                                *)

(* A set that has 0 and the successor of each of its members has every      *)
(* number.                                                                  *)
LEMMA NumbersBySteps ==
  ASSUME NEW I, 0 \in I, \A len \in Nat : len \in I => len + 1 \in I
  PROVE  Nat \subseteq I
<1>. DEFINE R == {p \in Nat \X Nat : p[1] < p[2]}
            D == Nat \ I
<1>. SUFFICES ASSUME D # {} PROVE FALSE
  OBVIOUS
<1>1. PICK d \in D : \A e \in D : <<e, d>> \notin R
  <2>1. IsWellFoundedOn(R, Nat)
    BY NatLessThanWellFounded DEF OpToRel
  <2>2. D \subseteq Nat
    OBVIOUS
  <2>. HIDE DEF D, R
  <2>. QED  BY <2>1, <2>2, WFMin
<1>2. d \in Nat /\ d # 0
  OBVIOUS
<1>3. d - 1 \in Nat /\ (d - 1) + 1 = d /\ d - 1 < d
  BY <1>2
<1>4. d - 1 \notin D
  BY <1>1, <1>2, <1>3
<1>. QED  BY <1>1, <1>3, <1>4

(* A set that has the empty sequence and each longer by one than a member   *)
(* has every sequence.                                                      *)
LEMMA SequencesBySteps ==
  ASSUME NEW T, NEW I, <<>> \in I,
         \A s \in Seq(T) : \A c \in T : s \in I => Append(s, c) \in I
  PROVE  Seq(T) \subseteq I
<1>. DEFINE N == {len \in Nat : \A s \in Seq(T) : Len(s) = len => s \in I}
<1>1. 0 \in N
  BY EmptySeq
<1>2. ASSUME NEW len \in Nat, len \in N
      PROVE  len + 1 \in N
  <2>. SUFFICES ASSUME NEW s \in Seq(T), Len(s) = len + 1
                PROVE  s \in I
    OBVIOUS
  <2>. DEFINE u == SubSeq(s, 1, len)
              c == s[len + 1]
  <2>1. c \in T
    BY ElementOfSeq
  <2>2. u \in Seq(T) /\ Len(u) = len /\ \A i \in 1 .. len : u[i] = s[i]
    BY SubSeqProperties, ElementOfSeq
  <2>3. Append(u, c) = s
    <3>. HIDE DEF u, c
    <3>1. Append(u, c) \in Seq(T) /\ Len(Append(u, c)) = len + 1
      BY <2>1, <2>2, AppendProperties
    <3>2. \A i \in 1 .. len + 1 : Append(u, c)[i] = s[i]
      BY <2>1, <2>2, AppendProperties DEF c
    <3>. QED  BY <3>1, <3>2, SeqEqual
  <2>4. u \in I
    BY <1>2, <2>2
  <2>. HIDE DEF u, c
  <2>. QED  BY <2>1, <2>2, <2>3, <2>4
<1>. HIDE DEF N
<1>3. Nat \subseteq N
  BY <1>1, <1>2, NumbersBySteps
<1>. QED  BY <1>3, LenProperties DEF N

(* The positions up to one of a sequence.                                   *)
LEMMA LastPosition ==
  ASSUME NEW len \in Nat, NEW d \in SUBSET (1 .. len + 1), len + 1 \in d
  PROVE  Max(d) = len + 1 /\ d \ {len + 1} \in SUBSET (1 .. len)
<1>1. \A y \in d : len + 1 >= y
  OBVIOUS
<1>2. \A x \in d : (\A y \in d : x >= y) => x = len + 1
  OBVIOUS
<1>3. Max(d) = len + 1
  BY <1>1, <1>2 DEF Max
<1>. QED  BY <1>3

LEMMA MaxOfPositions ==
  ASSUME NEW len \in Nat, NEW d \in SUBSET (1 .. len), d # {}
  PROVE  Max(d) \in d /\ \A y \in d : Max(d) >= y
<1>. DEFINE Has(m) == \A e \in SUBSET (1 .. m) : e # {} => \E x \in e : \A y \in e : x >= y
            N == {m \in Nat : Has(m)}
<1>1. 0 \in N
  <2>1. \A e \in SUBSET (1 .. 0) : e = {}
    OBVIOUS
  <2>. QED  BY <2>1
<1>2. ASSUME NEW m \in Nat, Has(m)
      PROVE  Has(m + 1)
  <2>. SUFFICES ASSUME NEW e \in SUBSET (1 .. m + 1), e # {}
                PROVE  \E x \in e : \A y \in e : x >= y
    OBVIOUS
  <2>1. CASE m + 1 \in e
    BY <2>1
  <2>2. CASE m + 1 \notin e
    <3>1. e \in SUBSET (1 .. m)
      BY <2>2
    <3>. QED  BY <1>2, <3>1
  <2>. QED  BY <2>1, <2>2
<1>3. Nat \subseteq N
  <2>1. \A m \in Nat : m \in N => m + 1 \in N
    BY <1>2
  <2>. HIDE DEF N
  <2>. QED  BY <1>1, <2>1, NumbersBySteps
<1>4. \E x \in d : \A y \in d : x >= y
  BY <1>3
<1>. QED  BY <1>4 DEF Max

(* What FoldLeft computes: the elements are taken from the last on.         *)
Stepwise(step, base, s, it) ==
  it = [d \in SUBSET DOMAIN s |-> IF d = {} THEN base ELSE step[<<it[d \ {Max(d)}], s[Max(d)]>>]]

(* There is such a function, for every step function on a set of values.    *)
LEMMA StepwiseExists ==
  ASSUME NEW A, NEW T, NEW step \in [A \X T -> A], NEW base \in A, NEW s \in Seq(T)
  PROVE  \E it \in [SUBSET DOMAIN s -> A] : Stepwise(step, base, s, it)
<1>. DEFINE rest(it, d) == step[<<it[d \ {Max(d)}], s[Max(d)]>>]
            Upto(len, it) == it = [d \in SUBSET (1 .. len) |-> IF d = {} THEN base ELSE rest(it, d)]
            Has(len) == \E it \in [SUBSET (1 .. len) -> A] : Upto(len, it)
            N == {len \in Nat : len <= Len(s) => Has(len)}
<1>1. Has(0)
  <2>. DEFINE it == [d \in SUBSET (1 .. 0) |-> base]
  <2>1. it \in [SUBSET (1 .. 0) -> A]
    OBVIOUS
  <2>2. \A d \in SUBSET (1 .. 0) : d = {}
    OBVIOUS
  <2>3. Upto(0, it)
    BY <2>2
  <2>. HIDE DEF it, Upto
  <2>. QED  BY <2>1, <2>3
<1>2. ASSUME NEW len \in Nat, len + 1 <= Len(s), Has(len)
      PROVE  Has(len + 1)
  <2>1. PICK f \in [SUBSET (1 .. len) -> A] : Upto(len, f)
    BY <1>2
  <2>. DEFINE it == [d \in SUBSET (1 .. len + 1) |->
                 IF len + 1 \in d THEN step[<<f[d \ {len + 1}], s[len + 1]>>] ELSE f[d]]
  <2>2. s[len + 1] \in T
    BY <1>2, ElementOfSeq, LenProperties
  <2>3. \A d \in SUBSET (1 .. len + 1) : d \ {len + 1} \in SUBSET (1 .. len)
    OBVIOUS
  <2>4. it \in [SUBSET (1 .. len + 1) -> A]
    BY <2>2, <2>3
  <2>5. ASSUME NEW d \in SUBSET (1 .. len + 1)
        PROVE  it[d] = IF d = {} THEN base ELSE rest(it, d)
    <3>1. CASE len + 1 \in d
      <4>1. Max(d) = len + 1
        BY <3>1, LastPosition
      <4>2. it[d \ {len + 1}] = f[d \ {len + 1}]
        BY <2>3
      <4>. QED  BY <3>1, <4>1, <4>2
    <3>2. CASE len + 1 \notin d
      <4>1. d \in SUBSET (1 .. len) /\ d \ {Max(d)} \in SUBSET (1 .. len)
        <5>1. d \in SUBSET (1 .. len)
          BY <3>2
        <5>. QED  BY <5>1
      <4>2. it[d] = f[d] /\ it[d \ {Max(d)}] = f[d \ {Max(d)}]
        BY <3>2, <4>1
      <4>3. f[d] = IF d = {} THEN base ELSE rest(f, d)
        BY <2>1, <4>1
      <4>. HIDE DEF it
      <4>. QED  BY <4>2, <4>3
    <3>. QED  BY <3>1, <3>2
  <2>6. Upto(len + 1, it)
    <3>1. it = [d \in SUBSET (1 .. len + 1) |-> it[d]]
      OBVIOUS
    <3>. HIDE DEF it, rest
    <3>. QED  BY <2>5, <3>1
  <2>. HIDE DEF it, Upto
  <2>. QED  BY <2>4, <2>6
<1>3. Nat \subseteq N
  <2>. HIDE DEF Has
  <2>1. 0 \in N
    BY <1>1
  <2>2. \A len \in Nat : len \in N => len + 1 \in N
    BY <1>2, LenProperties
  <2>. HIDE DEF N
  <2>. QED  BY <2>1, <2>2, NumbersBySteps
<1>4. Len(s) \in Nat /\ DOMAIN s = 1 .. Len(s)
  BY LenProperties
<1>5. Has(Len(s))
  <2>. HIDE DEF Has
  <2>. QED  BY <1>3, <1>4
<1>6. PICK it \in [SUBSET (1 .. Len(s)) -> A] : Upto(Len(s), it)
  BY <1>5
<1>7. Stepwise(step, base, s, it)
  BY <1>4, <1>6 DEF Stepwise
<1>. QED  BY <1>4, <1>7

(* The same for an operator that is known on A and T only.                  *)
Follows(step, base, A, s, it) ==
  /\ it[{}] = base
  /\ \A d \in SUBSET DOMAIN s : d # {} /\ it[d \ {Max(d)}] \in A
       => it[d] = step[<<it[d \ {Max(d)}], s[Max(d)]>>]

(* A fold takes a longer sequence one step further.                         *)
FollowedOn(step, base, A, T, s, c, f, g) ==
  /\ step \in [A \X T -> A] /\ base \in A /\ s \in Seq(T) /\ c \in T
  /\ Follows(step, base, A, s, f)
  /\ Follows(step, base, A, Append(s, c), g)

(* A sequence that is one longer is followed one step further.              *)
LEMMA FollowedByOne ==
  ASSUME NEW A, NEW T, NEW step, NEW base, NEW s, NEW c, NEW f, NEW g,
         FollowedOn(step, base, A, T, s, c, f, g)
  PROVE  f[DOMAIN s] \in A /\ g[DOMAIN Append(s, c)] = step[<<f[DOMAIN s], c>>]
<1>. USE DEF FollowedOn
<1>1. \A e \in SUBSET DOMAIN s : f[e] \in A /\ f[e] = g[e]
  <2>. DEFINE Agree(len) == \A d \in SUBSET (1 .. len) : f[d] \in A /\ f[d] = g[d]
              N == {len \in Nat : len <= Len(s) => Agree(len)}
  <2>0. /\ Len(s) \in Nat /\ DOMAIN s = 1 .. Len(s)
        /\ Len(Append(s, c)) = Len(s) + 1 /\ DOMAIN Append(s, c) = 1 .. Len(s) + 1
        /\ \A i \in 1 .. Len(s) : Append(s, c)[i] = s[i]
    BY LenProperties, AppendProperties
  <2>1. Agree(0)
    <3>. SUFFICES ASSUME NEW d \in SUBSET (1 .. 0)
                  PROVE  f[d] \in A /\ f[d] = g[d]
      OBVIOUS
    <3>1. d = {}
      OBVIOUS
    <3>. QED  BY <3>1 DEF Follows
  <2>2. ASSUME NEW len \in Nat, len + 1 <= Len(s), Agree(len)
        PROVE  Agree(len + 1)
    <3>. SUFFICES ASSUME NEW d \in SUBSET (1 .. len + 1)
                  PROVE  f[d] \in A /\ f[d] = g[d]
      OBVIOUS
    <3>1. CASE len + 1 \in d
      <4>. DEFINE e == d \ {len + 1}
      <4>1. Max(d) = len + 1 /\ e \in SUBSET (1 .. len) /\ d # {}
        BY <3>1, LastPosition
      <4>2. f[e] \in A /\ f[e] = g[e]
        BY <2>2, <4>1
      <4>3. d \in SUBSET DOMAIN s /\ d \in SUBSET DOMAIN Append(s, c)
        <5>1. len + 1 <= Len(s) + 1
          BY <2>0, <2>2
        <5>. QED  BY <2>0, <2>2, <5>1
      <4>4. s[len + 1] \in T /\ s[len + 1] = Append(s, c)[len + 1]
        BY <2>0, <2>2, ElementOfSeq
      <4>. HIDE DEF e
      <4>5. f[d] = step[<<f[e], s[len + 1]>>]
        BY <4>1, <4>2, <4>3 DEF Follows, e
      <4>6. g[d] = step[<<g[e], Append(s, c)[len + 1]>>]
        BY <4>1, <4>2, <4>3 DEF Follows, e
      <4>. QED  BY <4>2, <4>4, <4>5, <4>6
    <3>2. CASE len + 1 \notin d
      <4>1. d \in SUBSET (1 .. len)
        BY <3>2
      <4>. QED  BY <2>2, <4>1
    <3>. QED  BY <3>1, <3>2
  <2>3. Nat \subseteq N
    <3>. HIDE DEF Agree
    <3>1. 0 \in N
      BY <2>1
    <3>2. \A len \in Nat : len \in N => len + 1 \in N
      BY <2>0, <2>2
    <3>. HIDE DEF N
    <3>. QED  BY <3>1, <3>2, NumbersBySteps
  <2>4. Agree(Len(s))
    <3>. HIDE DEF Agree
    <3>. QED  BY <2>0, <2>3
  <2>. QED  BY <2>0, <2>4
<1>2. PICK len \in Nat : len = Len(s)
  BY LenProperties
<1>3. PICK d : d = 1 .. len + 1
  OBVIOUS
<1>4. /\ DOMAIN s = 1 .. len /\ DOMAIN Append(s, c) = d /\ Append(s, c)[len + 1] = c
  BY <1>2, <1>3, LenProperties, AppendProperties
<1>5. d \ {len + 1} = 1 .. len /\ d # {} /\ Max(d) = len + 1
  <2>1. d \in SUBSET (1 .. len + 1) /\ len + 1 \in d /\ d \ {len + 1} = 1 .. len
    BY <1>3
  <2>. QED  BY <2>1, LastPosition
<1>6. f[1 .. len] \in A /\ f[1 .. len] = g[1 .. len]
  BY <1>1, <1>4
<1>7. g[d] = step[<<g[1 .. len], c>>]
  BY <1>4, <1>5, <1>6, ZenonT(60) DEF Follows
<1>. QED  BY <1>4, <1>6, <1>7

-----------------------------------------------------------------------------
ScanState == [done : Seq(Seq(Character)), current : Seq(Character), quoted : BOOLEAN]
ScanStep == [p \in ScanState \X Character |-> Scan(p[1], p[2])]

(* States of the scanner, and what a step makes of them.                    *)
LEMMA ScanStates ==
  ASSUME NEW done \in Seq(Seq(Character)), NEW current \in Seq(Character), NEW quoted \in BOOLEAN
  PROVE  [done |-> done, current |-> current, quoted |-> quoted] \in ScanState
BY DEF ScanState

LEMMA ScanType == ScanStep \in [ScanState \X Character -> ScanState] /\ Unscanned \in ScanState
<1>1. ASSUME NEW acc \in ScanState, NEW c \in Character
      PROVE  Scan(acc, c) \in ScanState
  <2>. DEFINE done == acc.done
              current == acc.current
              quoted == acc.quoted
  <2>1. /\ acc = [done |-> done, current |-> current, quoted |-> quoted]
        /\ done \in Seq(Seq(Character)) /\ current \in Seq(Character) /\ quoted \in BOOLEAN
    BY DEF ScanState
  <2>. HIDE DEF done, current, quoted
  <2>2. CASE c = CommaMark /\ ~quoted
    <3>1. Scan(acc, c) = [done |-> Append(done, current), current |-> <<>>, quoted |-> quoted]
      BY <2>1, <2>2 DEF Scan
    <3>2. Append(done, current) \in Seq(Seq(Character)) /\ <<>> \in Seq(Character)
      BY <2>1
    <3>. QED  BY <2>1, <3>1, <3>2, ScanStates
  <2>3. CASE ~(c = CommaMark /\ ~quoted)
    <3>1. Scan(acc, c) = [done |-> done, current |-> Append(current, c), quoted |-> (quoted # (c = Quote))]
      BY <2>1, <2>3 DEF Scan
    <3>2. Append(current, c) \in Seq(Character) /\ (quoted # (c = Quote)) \in BOOLEAN
      BY <2>1
    <3>. QED  BY <2>1, <3>1, <3>2, ScanStates
  <2>. QED  BY <2>2, <2>3
<1>2. <<>> \in Seq(Seq(Character)) /\ <<>> \in Seq(Character)
  OBVIOUS
<1>3. Unscanned \in ScanState
  BY <1>2 DEF Unscanned, ScanState
<1>. HIDE DEF ScanState
<1>4. \A p \in ScanState \X Character : Scan(p[1], p[2]) \in ScanState
  BY <1>1
<1>. QED  BY <1>3, <1>4 DEF ScanStep

(* The fold over a text goes from state to state, one for each of its       *)
(* sets of positions.                                                       *)
LEMMA ScannedFollows ==
  ASSUME NEW s \in Seq(Character)
  PROVE  \E h : Follows(ScanStep, Unscanned, ScanState, s, h) /\ Scanned(s) = h[DOMAIN s]
<1>. DEFINE Iterates(it) == it = [d \in SUBSET DOMAIN s |->
               IF d = {} THEN Unscanned ELSE Scan(it[d \ {Max(d)}], s[Max(d)])]
            h == CHOOSE it : Iterates(it)
<1>1. PICK f \in [SUBSET DOMAIN s -> ScanState] : Stepwise(ScanStep, Unscanned, s, f)
  BY ScanType, StepwiseExists
<1>2. DOMAIN s = 1 .. Len(s) /\ Len(s) \in Nat
  BY LenProperties
<1>3. ASSUME NEW d \in SUBSET DOMAIN s, d # {}
      PROVE  Max(d) \in d /\ s[Max(d)] \in Character /\ d \ {Max(d)} \in SUBSET DOMAIN s
  <2>1. Max(d) \in d
    BY <1>2, <1>3, MaxOfPositions
  <2>. QED  BY <1>2, <2>1, ElementOfSeq
<1>4. \A d \in SUBSET DOMAIN s : d # {} =>
         ScanStep[<<f[d \ {Max(d)}], s[Max(d)]>>] = Scan(f[d \ {Max(d)}], s[Max(d)])
  BY <1>3 DEF ScanStep
<1>5. Iterates(f)
  BY <1>1, <1>4 DEF Stepwise
<1>6. Iterates(h)
  <2>. HIDE DEF Iterates
  <2>. QED  BY <1>5
<1>7. Scanned(s) = h[DOMAIN s]
  BY DEF Scanned, FoldLeft, MapThenFoldSet
<1>. HIDE DEF h
<1>8. /\ h[{}] = Unscanned
      /\ \A d \in SUBSET DOMAIN s : d # {} => h[d] = Scan(h[d \ {Max(d)}], s[Max(d)])
  BY <1>6
<1>9. Follows(ScanStep, Unscanned, ScanState, s, h)
  BY <1>3, <1>8 DEF Follows, ScanStep
<1>. QED  BY <1>7, <1>9

LEMMA ScannedEmpty == Scanned(<<>>) = Unscanned
<1>1. <<>> \in Seq(Character) /\ DOMAIN <<>> = {}
  BY EmptySeq
<1>2. PICK h : Follows(ScanStep, Unscanned, ScanState, <<>>, h) /\ Scanned(<<>>) = h[DOMAIN <<>>]
  BY <1>1, ScannedFollows
<1>. QED  BY <1>1, <1>2 DEF Follows

LEMMA ScannedAppend ==
  ASSUME NEW s \in Seq(Character), NEW c \in Character
  PROVE  Scanned(s) \in ScanState /\ Scanned(Append(s, c)) = Scan(Scanned(s), c)
<1>1. PICK f : Follows(ScanStep, Unscanned, ScanState, s, f) /\ Scanned(s) = f[DOMAIN s]
  BY ScannedFollows
<1>2. Append(s, c) \in Seq(Character)
  BY AppendProperties
<1>3. PICK g : /\ Follows(ScanStep, Unscanned, ScanState, Append(s, c), g)
               /\ Scanned(Append(s, c)) = g[DOMAIN Append(s, c)]
  BY <1>2, ScannedFollows
<1>4. f[DOMAIN s] \in ScanState /\ g[DOMAIN Append(s, c)] = ScanStep[<<f[DOMAIN s], c>>]
  <2>1. FollowedOn(ScanStep, Unscanned, ScanState, Character, s, c, f, g)
    BY <1>1, <1>3, ScanType DEF FollowedOn
  <2>. QED  BY <2>1, FollowedByOne
<1>5. ScanStep[<<f[DOMAIN s], c>>] = Scan(f[DOMAIN s], c)
  BY <1>4 DEF ScanStep
<1>. QED  BY <1>1, <1>3, <1>4, <1>5

(* Texts, with their operations under names of their own: the facts about   *)
(* them are cited, and the operations are not looked into.                  *)
Text == Seq(Character)
Empty == <<>>
One(c) == <<c>>
Add(s, c) == Append(s, c)
Cat(s, u) == s \o u

LEMMA TextOperations ==
  /\ Empty \in Text
  /\ \A c \in Character : One(c) \in Text /\ Add(Empty, c) = One(c)
  /\ \A s \in Text : Cat(s, Empty) = s /\ Cat(Empty, s) = s
  /\ \A s \in Text : \A c \in Character : Add(s, c) \in Text /\ Cat(s, One(c)) = Add(s, c)
  /\ \A s, u \in Text : Cat(s, u) \in Text
  /\ \A s, u \in Text : \A c \in Character : Cat(s, Add(u, c)) = Add(Cat(s, u), c)
  /\ \A s, u, v \in Text : Cat(Cat(s, u), v) = Cat(s, Cat(u, v))
<1>1. Empty \in Text
  BY DEF Text, Empty
<1>2. ASSUME NEW c \in Character PROVE One(c) \in Text /\ Add(Empty, c) = One(c)
  BY DEF Text, Empty, One, Add
<1>3. ASSUME NEW s \in Text PROVE Cat(s, Empty) = s /\ Cat(Empty, s) = s
  BY ConcatEmptySeq DEF Text, Empty, Cat
<1>4. ASSUME NEW s \in Text, NEW c \in Character PROVE Add(s, c) \in Text /\ Cat(s, One(c)) = Add(s, c)
  BY DEF Text, One, Add, Cat
<1>5. ASSUME NEW s \in Text, NEW u \in Text PROVE Cat(s, u) \in Text
  BY DEF Text, Cat
<1>6. ASSUME NEW s \in Text, NEW u \in Text, NEW c \in Character
      PROVE  Cat(s, Add(u, c)) = Add(Cat(s, u), c)
  BY DEF Text, Add, Cat
<1>7. ASSUME NEW s \in Text, NEW u \in Text, NEW v \in Text
      PROVE  Cat(Cat(s, u), v) = Cat(s, Cat(u, v))
  BY DEF Text, Cat
<1>. QED  BY <1>1, <1>2, <1>3, <1>4, <1>5, <1>6, <1>7

(* Induction over texts.                                                    *)
LEMMA TextsBySteps ==
  ASSUME NEW I, Empty \in I, \A s \in Text : \A c \in Character : s \in I => Add(s, c) \in I
  PROVE  Text \subseteq I
BY SequencesBySteps DEF Text, Empty, Add

LEMMA ContentsOfTexts ==
  /\ Range(Empty) = {}
  /\ \A c \in Character : Range(One(c)) = {c}
  /\ \A s \in Text : \A c \in Character : Range(Add(s, c)) = Range(s) \cup {c}
<1>1. Range(Empty) = {}
  BY DEF Range, Empty
<1>2. ASSUME NEW c \in Character PROVE Range(One(c)) = {c}
  BY DEF Range, One
<1>3. ASSUME NEW s \in Text, NEW c \in Character PROVE Range(Add(s, c)) = Range(s) \cup {c}
  <2>1. PICK len \in Nat : DOMAIN s = 1 .. len
    BY LenProperties DEF Text
  <2>2. DOMAIN Append(s, c) = 1 .. len + 1 /\ Append(s, c)[len + 1] = c
        /\ \A i \in 1 .. len : Append(s, c)[i] = s[i]
    BY <2>1, LenProperties, AppendProperties DEF Text
  <2>3. PICK u : u = Append(s, c)
    OBVIOUS
  <2>4. 1 .. len + 1 = (1 .. len) \cup {len + 1}
    OBVIOUS
  <2>5. {u[i] : i \in 1 .. len + 1} = {s[i] : i \in 1 .. len} \cup {c}
    BY <2>2, <2>3, <2>4
  <2>. QED  BY <2>1, <2>2, <2>3, <2>5 DEF Range, Add
<1>. QED  BY <1>1, <1>2, <1>3

LEMMA SpecialCharacters ==
  /\ {Quote, Blank, CommaMark, WeakMark, Asterisk} \subseteq Character
  /\ Quote \notin {Blank, CommaMark, WeakMark, Asterisk}
  /\ Blank \notin {CommaMark, WeakMark, Asterisk}
  /\ CommaMark \notin {WeakMark, Asterisk} /\ WeakMark # Asterisk
BY DEF Quote, CommaMark, Blank, Asterisk, WeakMark, Character

-----------------------------------------------------------------------------
\* The states of a scan, with the two values of quoted under a name.
Inside  == TRUE
Outside == FALSE
State(d, cur, q) == [done |-> d, current |-> cur, quoted |-> q]

LEMMA ScanOne ==
  ASSUME NEW d, NEW cur, NEW q \in {Inside, Outside}, NEW c
  PROVE  /\ c # Quote /\ (q = Inside \/ c # CommaMark) => Scan(State(d, cur, q), c) = State(d, Add(cur, c), q)
         /\ Scan(State(d, cur, Outside), Quote) = State(d, Add(cur, Quote), Inside)
         /\ Scan(State(d, cur, Inside), Quote) = State(d, Add(cur, Quote), Outside)
         /\ Scan(State(d, cur, Outside), CommaMark) = State(Add(d, cur), Empty, Outside)
BY SpecialCharacters DEF Scan, State, Add, Empty, Inside, Outside

LEMMA ScannedSteps ==
  /\ Scanned(Empty) = State(Empty, Empty, Outside)
  /\ \A s \in Text : \A c \in Character : Scanned(Add(s, c)) = Scan(Scanned(s), c)
  /\ \A s \in Text : Scanned(s) \in [done : Seq(Text), current : Text, quoted : BOOLEAN]
<1>1. Scanned(Empty) = State(Empty, Empty, Outside)
  BY ScannedEmpty DEF Unscanned, State, Empty, Outside
<1>2. ASSUME NEW s \in Text, NEW c \in Character
      PROVE  Scanned(Add(s, c)) = Scan(Scanned(s), c) /\ Scanned(s) \in ScanState
  BY ScannedAppend DEF Text, Add
<1>3. PICK c : c \in Character
  BY SpecialCharacters
<1>. QED  BY <1>1, <1>2, <1>3 DEF ScanState, Text

(* What is scanned is a state.                                              *)
LEMMA ScannedState ==
  ASSUME NEW s \in Text, NEW d, NEW cur, NEW q, Scanned(s) = State(d, cur, q)
  PROVE  d \in Seq(Text) /\ cur \in Text /\ q \in {Inside, Outside}
<1>1. State(d, cur, q) \in [done : Seq(Text), current : Text, quoted : BOOLEAN]
  BY ScannedSteps
<1>2. d \in Seq(Text) /\ cur \in Text /\ q \in BOOLEAN
  BY <1>1 DEF State
<1>. QED  BY <1>2 DEF Inside, Outside

(* A text without quotes, or commas that count, is added to the current     *)
(* tag.                                                                     *)
LEMMA ScannedUnbroken ==
  ASSUME NEW s \in Text, NEW u \in Text, NEW d, NEW cur, NEW q,
         Scanned(s) = State(d, cur, q), Quote \notin Range(u), q = Inside \/ CommaMark \notin Range(u)
  PROVE  Scanned(Cat(s, u)) = State(d, Cat(cur, u), q)
<1>. DEFINE Plain(v) == Quote \notin Range(v) /\ (q = Inside \/ CommaMark \notin Range(v))
            I == {v \in Text : Plain(v) => Scanned(Cat(s, v)) = State(d, Cat(cur, v), q)}
<1>0. cur \in Text /\ q \in {Inside, Outside}
  BY ScannedState
<1>1. Empty \in I
  BY <1>0, TextOperations
<1>2. ASSUME NEW v \in Text, NEW c \in Character, v \in I
      PROVE  Add(v, c) \in I
  <2>1. Add(v, c) \in Text /\ Cat(s, v) \in Text
    BY TextOperations
  <2>. SUFFICES ASSUME Plain(Add(v, c))
                PROVE  Scanned(Cat(s, Add(v, c))) = State(d, Cat(cur, Add(v, c)), q)
    BY <2>1
  <2>2. Range(Add(v, c)) = Range(v) \cup {c}
    BY ContentsOfTexts
  <2>3. Scanned(Cat(s, v)) = State(d, Cat(cur, v), q) /\ c # Quote /\ (q = Inside \/ c # CommaMark)
    BY <1>2, <2>2
  <2>4. Scanned(Add(Cat(s, v), c)) = Scan(Scanned(Cat(s, v)), c)
    BY <2>1, ScannedSteps
  <2>5. Scan(State(d, Cat(cur, v), q), c) = State(d, Add(Cat(cur, v), c), q)
    BY <1>0, <2>3, ScanOne
  <2>. QED  BY <1>0, <2>3, <2>4, <2>5, TextOperations
<1>. HIDE DEF I
<1>3. Text \subseteq I
  BY <1>1, <1>2, TextsBySteps
<1>. QED  BY <1>3 DEF I

(* A quote opens or closes a quotation.                                     *)
LEMMA ScannedQuote ==
  ASSUME NEW s \in Text, NEW d, NEW cur
  PROVE  /\ Scanned(s) = State(d, cur, Outside)
             => Scanned(Cat(s, One(Quote))) = State(d, Cat(cur, One(Quote)), Inside)
         /\ Scanned(s) = State(d, cur, Inside)
             => Scanned(Cat(s, One(Quote))) = State(d, Cat(cur, One(Quote)), Outside)
<1>1. SUFFICES ASSUME NEW q \in {Inside, Outside}, Scanned(s) = State(d, cur, q)
               PROVE  /\ q = Outside => Scanned(Cat(s, One(Quote))) = State(d, Cat(cur, One(Quote)), Inside)
                      /\ q = Inside => Scanned(Cat(s, One(Quote))) = State(d, Cat(cur, One(Quote)), Outside)
  OBVIOUS
<1>2. cur \in Text
  BY <1>1, ScannedState
<1>3. Cat(s, One(Quote)) = Add(s, Quote) /\ Cat(cur, One(Quote)) = Add(cur, Quote)
  BY <1>2, SpecialCharacters, TextOperations
<1>4. Scanned(Add(s, Quote)) = Scan(State(d, cur, q), Quote)
  BY <1>1, SpecialCharacters, ScannedSteps
<1>. QED  BY <1>3, <1>4, ScanOne

-----------------------------------------------------------------------------
Weakness(t) == IF t.weak THEN One(WeakMark) ELSE Empty
Quoted(o) == Cat(Cat(One(Quote), o), One(Quote))
Body(t) == IF t.bare THEN t.opaque ELSE Quoted(t.opaque)

LEMMA WrittenTagParts ==
  ASSUME NEW t
  PROVE  WrittenTag(t) = Cat(Weakness(t), Body(t))
BY DEF WrittenTag, Weakness, Body, Quoted, One, Cat, Empty

(* A tag is written as a text.                                              *)
LEMMA WrittenTagType ==
  ASSUME NEW t, EntityTag(t)
  PROVE  t.opaque \in Text /\ Weakness(t) \in Text /\ Body(t) \in Text /\ WrittenTag(t) \in Text
<1>1. t.opaque \in Text
  BY DEF EntityTag, Text
<1>2. PICK o \in Text : o = t.opaque
  BY <1>1
<1>3. One(Quote) \in Text /\ One(WeakMark) \in Text /\ Empty \in Text
  BY SpecialCharacters, TextOperations
<1>4. Quoted(o) \in Text
  BY <1>3, TextOperations DEF Quoted
<1>5. Weakness(t) \in Text /\ Body(t) \in Text
  BY <1>2, <1>3, <1>4 DEF Weakness, Body
<1>. QED  BY <1>1, <1>5, WrittenTagParts, TextOperations

LEMMA ScannedQuoted ==
  ASSUME NEW s \in Text, NEW d, NEW cur, Scanned(s) = State(d, cur, Outside),
         NEW o \in Text, Quote \notin Range(o)
  PROVE  Scanned(Cat(s, Quoted(o))) = State(d, Cat(cur, Quoted(o)), Outside)
<1>. DEFINE q == One(Quote)
<1>0. q \in Text /\ cur \in Text
  BY SpecialCharacters, TextOperations, ScannedState
<1>1. Scanned(Cat(s, q)) = State(d, Cat(cur, q), Inside) /\ Cat(s, q) \in Text
  BY <1>0, ScannedQuote, TextOperations
<1>2. Scanned(Cat(Cat(s, q), o)) = State(d, Cat(Cat(cur, q), o), Inside) /\ Cat(Cat(s, q), o) \in Text
  BY <1>1, ScannedUnbroken, TextOperations
<1>3. Scanned(Cat(Cat(Cat(s, q), o), q)) = State(d, Cat(Cat(Cat(cur, q), o), q), Outside)
  BY <1>2, ScannedQuote
<1>4. ASSUME NEW v \in Text
      PROVE  Cat(v, Quoted(o)) = Cat(Cat(Cat(v, q), o), q)
  <2>. HIDE DEF q
  <2>1. Quoted(o) = Cat(Cat(q, o), q) /\ Cat(q, o) \in Text
    BY <1>0, TextOperations DEF q, Quoted
  <2>. QED  BY <1>0, <2>1, TextOperations
<1>. QED  BY <1>0, <1>3, <1>4

(* A written tag is scanned as one item, from outside of quotes to          *)
(* outside of quotes.                                                       *)
LEMMA ScannedTag ==
  ASSUME NEW s \in Text, NEW d, NEW cur, Scanned(s) = State(d, cur, Outside), NEW t, EntityTag(t)
  PROVE  Scanned(Cat(s, WrittenTag(t))) = State(d, Cat(cur, WrittenTag(t)), Outside)
<1>0. cur \in Text /\ t.opaque \in Text /\ Weakness(t) \in Text /\ Body(t) \in Text
  BY ScannedState, WrittenTagType
<1>1. Quote \notin Range(Weakness(t)) /\ CommaMark \notin Range(Weakness(t))
  BY SpecialCharacters, ContentsOfTexts DEF Weakness
<1>2. PICK s1 \in Text : s1 = Cat(s, Weakness(t))
  BY <1>0, TextOperations
<1>3. PICK cur1 \in Text : cur1 = Cat(cur, Weakness(t))
  BY <1>0, TextOperations
<1>4. Scanned(s1) = State(d, cur1, Outside)
  BY <1>0, <1>1, <1>2, <1>3, ScannedUnbroken
<1>5. Scanned(Cat(s1, Body(t))) = State(d, Cat(cur1, Body(t)), Outside)
  <2>1. PICK o \in Text : o = t.opaque /\ Quote \notin Range(o) /\ (t.bare => CommaMark \notin Range(o))
    BY <1>0 DEF EntityTag
  <2>2. CASE t.bare
    BY <1>4, <2>1, <2>2, ScannedUnbroken DEF Body
  <2>3. CASE ~t.bare
    BY <1>4, <2>1, <2>3, ScannedQuoted DEF Body
  <2>. QED  BY <2>2, <2>3
<1>6. ASSUME NEW v \in Text
      PROVE  Cat(v, WrittenTag(t)) = Cat(Cat(v, Weakness(t)), Body(t))
  BY <1>0, WrittenTagParts, TextOperations
<1>. QED  BY <1>0, <1>2, <1>3, <1>5, <1>6

First(s) == s[1]
Final(s) == s[Len(s)]

LEMMA EndsOfTexts ==
  /\ \A c \in Character : One(c) # Empty /\ First(One(c)) = c /\ Final(One(c)) = c
  /\ \A s, u \in Text : s # Empty => Cat(s, u) # Empty /\ First(Cat(s, u)) = First(s)
  /\ \A s, u \in Text : u # Empty => Cat(s, u) # Empty /\ Final(Cat(s, u)) = Final(u)
  /\ \A s \in Text : s # Empty => First(s) \in Range(s)
<1>1. ASSUME NEW c \in Character PROVE One(c) # Empty /\ First(One(c)) = c /\ Final(One(c)) = c
  BY DEF One, Empty, First, Final
<1>2. ASSUME NEW s \in Text, NEW u \in Text, s # Empty
      PROVE  Cat(s, u) # Empty /\ First(Cat(s, u)) = First(s)
  BY <1>2, ConcatProperties, EmptySeq DEF Text, Empty, First, Cat
<1>3. ASSUME NEW s \in Text, NEW u \in Text, u # Empty
      PROVE  Cat(s, u) # Empty /\ Final(Cat(s, u)) = Final(u)
  BY <1>3, ConcatProperties, EmptySeq, LenProperties DEF Text, Empty, Final, Cat
<1>4. ASSUME NEW s \in Text, s # Empty
      PROVE  First(s) \in Range(s)
  BY <1>4, EmptySeq, LenProperties DEF Text, Empty, First, Range
<1>. QED  BY <1>1, <1>2, <1>3, <1>4

LEMMA PositionsOfCat ==
  \A s, u \in Text :
    /\ Len(s) \in Nat /\ Len(u) \in Nat /\ Len(Cat(s, u)) = Len(s) + Len(u)
    /\ \A i \in 1 .. Len(s) : Cat(s, u)[i] = s[i]
    /\ \A i \in 1 .. Len(u) : Cat(s, u)[Len(s) + i] = u[i]
BY DEF Text, Cat

(* A text that neither begins nor ends with a blank.                        *)
Compact(s) == s \in Text /\ s # Empty /\ First(s) # Blank /\ Final(s) # Blank

Inked(s, i, j) ==
  /\ DOMAIN s \subseteq Nat /\ i \in DOMAIN s /\ j \in DOMAIN s
  /\ s[i] # Blank /\ s[j] # Blank
  /\ \A k \in DOMAIN s : s[k] # Blank => i <= k /\ k <= j

(* Trimming takes what is from the first to the last character that is      *)
(* not a blank.                                                             *)
LEMMA TrimIs ==
  ASSUME NEW s, NEW i, NEW j, Inked(s, i, j)
  PROVE  Trim(s) = SubSeq(s, i, j)
<1>. USE DEF Inked
<1>. DEFINE inked == {k \in DOMAIN s : s[k] # Blank}
            lo == CHOOSE k \in inked : \A m \in inked : k <= m
            hi == CHOOSE k \in inked : \A m \in inked : m <= k
<1>1. inked # {} /\ i \in inked /\ j \in inked /\ \A m \in inked : i <= m /\ m <= j /\ m \in Nat
  OBVIOUS
<1>. HIDE DEF inked
<1>2. lo = i
  <2>1. \A k \in inked : (\A m \in inked : k <= m) => k = i
    BY <1>1
  <2>. QED  BY <1>1, <2>1
<1>3. hi = j
  <2>1. \A k \in inked : (\A m \in inked : m <= k) => k = j
    BY <1>1
  <2>. QED  BY <1>1, <2>1
<1>4. Trim(s) = SubSeq(s, lo, hi)
  BY <1>1 DEF Trim, inked
<1>. QED  BY <1>2, <1>3, <1>4

(* A text that neither begins nor ends with a blank stays, with a blank     *)
(* before it or without.                                                    *)
LEMMA TrimCompact ==
  ASSUME NEW s, Compact(s)
  PROVE  Trim(s) = s /\ Trim(Cat(One(Blank), s)) = s
<1>1. PICK len \in Nat : DOMAIN s = 1 .. len /\ len = Len(s) /\ len >= 1 /\ s \in Seq(Character)
  BY EmptySeq, LenProperties DEF Compact, Text, Empty
<1>2. s[1] # Blank /\ s[len] # Blank
  BY <1>1 DEF Compact, First, Final
<1>3. Trim(s) = s
  <2>1. Trim(s) = SubSeq(s, 1, len)
    <3>1. Inked(s, 1, len)
      BY <1>1, <1>2 DEF Inked
    <3>. QED  BY <3>1, TrimIs
  <2>. QED  BY <1>1, <2>1, SubSeqFull
<1>4. PICK u : u = Cat(One(Blank), s)
  OBVIOUS
<1>5. u \in Seq(Character) /\ DOMAIN u = 1 .. len + 1 /\ u[1] = Blank /\ Len(u) = len + 1
      /\ \A k \in 1 .. len : u[k + 1] = s[k]
  <2>1. Len(One(Blank)) = 1 /\ One(Blank) \in Text /\ One(Blank)[1] = Blank /\ s \in Text
    BY SpecialCharacters, TextOperations DEF One, Compact
  <2>2. /\ u \in Text /\ Len(u) = Len(One(Blank)) + Len(s)
        /\ \A i \in 1 .. Len(One(Blank)) : u[i] = One(Blank)[i]
        /\ \A i \in 1 .. Len(s) : u[Len(One(Blank)) + i] = s[i]
    BY <1>4, <2>1, TextOperations, PositionsOfCat, ZenonT(60)
  <2>3. u \in Text /\ Len(u) = len + 1 /\ u[1] = Blank /\ \A i \in 1 .. len : u[1 + i] = s[i]
    BY <1>1, <2>1, <2>2
  <2>. QED  BY <1>1, <2>3, LenProperties DEF Text
<1>6. Trim(u) = SubSeq(u, 2, len + 1)
  <2>1. 2 \in DOMAIN u /\ len + 1 \in DOMAIN u /\ u[2] # Blank /\ u[len + 1] # Blank /\ DOMAIN u \subseteq Nat
    <3>1. u[1 + 1] = s[1]
      BY <1>1, <1>5
    <3>. QED  BY <1>1, <1>2, <1>5, <3>1
  <2>2. \A k \in DOMAIN u : u[k] # Blank => 2 <= k /\ k <= len + 1
    BY <1>5
  <2>3. Inked(u, 2, len + 1)
    BY <2>1, <2>2 DEF Inked
  <2>. QED  BY <2>3, TrimIs
<1>7. SubSeq(u, 2, len + 1) = s
  <2>0. \A i \in 2 .. len + 1 : u[i] \in Character
    BY <1>5, ElementOfSeq
  <2>1. PICK v : v = SubSeq(u, 2, len + 1)
    OBVIOUS
  <2>2. v \in Seq(Character) /\ Len(v) = len /\ \A i \in 1 .. len : v[i] = u[i + 1]
    BY <1>1, <1>5, <2>0, <2>1, SubSeqProperties
  <2>. QED  BY <1>1, <1>5, <2>1, <2>2, SeqEqual
<1>. QED  BY <1>3, <1>4, <1>6, <1>7

LEMMA TrimEmpty == Trim(Empty) = Empty
BY DEF Trim, Empty

LEMMA TailOfCat ==
  ASSUME NEW c \in Character, NEW s \in Text
  PROVE  Tail(Cat(One(c), s)) = s
BY DEF Text, Cat, One

(* Quotes around a text are taken off.                                      *)
LEMMA UnquotedQuoted ==
  ASSUME NEW o \in Text
  PROVE  Unquoted(Quoted(o)) = o
<1>1. PICK len \in Nat : len = Len(o) /\ o \in Seq(Character) /\ DOMAIN o = 1 .. len
  BY LenProperties DEF Text
<1>2. PICK q : q = Quoted(o)
  OBVIOUS
<1>3. /\ q \in Seq(Character) /\ Len(q) = len + 2 /\ q[1] = Quote /\ q[len + 2] = Quote
      /\ \A i \in 1 .. len : q[i + 1] = o[i]
  <2>1. PICK b : b = One(Quote)
    OBVIOUS
  <2>2. b \in Text /\ Len(b) = 1 /\ b[1] = Quote
    BY <2>1, SpecialCharacters, TextOperations DEF One
  <2>3. PICK v \in Text : v = Cat(b, o)
    BY <2>2, TextOperations
  <2>4. Len(v) = 1 + len /\ v[1] = Quote /\ \A i \in 1 .. len : v[1 + i] = o[i]
    <3>1. /\ Len(v) = Len(b) + Len(o)
          /\ \A i \in 1 .. Len(b) : v[i] = b[i]
          /\ \A i \in 1 .. Len(o) : v[Len(b) + i] = o[i]
      BY <2>2, <2>3, PositionsOfCat
    <3>. QED  BY <1>1, <2>2, <3>1
  <2>5. q = Cat(v, b)
    BY <1>2, <2>1, <2>3 DEF Quoted
  <2>6. /\ q \in Text /\ Len(q) = (1 + len) + 1
        /\ \A i \in 1 .. 1 + len : q[i] = v[i]
        /\ q[(1 + len) + 1] = b[1]
    <3>1. /\ Len(q) = Len(v) + Len(b)
          /\ \A i \in 1 .. Len(v) : q[i] = v[i]
          /\ \A i \in 1 .. Len(b) : q[Len(v) + i] = b[i]
      BY <2>2, <2>5, PositionsOfCat
    <3>. QED  BY <2>2, <2>4, <2>5, <3>1, TextOperations
  <2>. QED  BY <1>1, <2>2, <2>4, <2>6 DEF Text
<1>4. Unquoted(q) = SubSeq(q, 2, len + 1)
  BY <1>1, <1>3 DEF Unquoted
<1>5. SubSeq(q, 2, len + 1) = o
  <2>0. \A i \in 2 .. len + 1 : q[i] \in Character
    BY <1>1, <1>3, ElementOfSeq
  <2>1. PICK v : v = SubSeq(q, 2, len + 1)
    OBVIOUS
  <2>2. v \in Seq(Character) /\ Len(v) = len /\ \A i \in 1 .. len : v[i] = q[i + 1]
    BY <1>1, <1>3, <2>0, <2>1, SubSeqProperties
  <2>. QED  BY <1>1, <1>3, <2>1, <2>2, SeqEqual
<1>. QED  BY <1>2, <1>4, <1>5

-----------------------------------------------------------------------------
LEMMA BareTag ==
  ASSUME NEW t, EntityTag(t), t.bare
  PROVE  /\ Body(t) = t.opaque /\ t.opaque # Empty /\ t.opaque \in Text /\ Quote \notin Range(t.opaque)
         /\ First(t.opaque) # Blank /\ First(t.opaque) # WeakMark /\ Final(t.opaque) # Blank
BY DEF EntityTag, Body, Empty, First, Final, Text

(* What is written of a tag after its mark neither begins nor ends with a   *)
(* blank.                                                                   *)
LEMMA BodyCompact ==
  ASSUME NEW t, EntityTag(t)
  PROVE  /\ Compact(Body(t)) /\ First(Body(t)) # WeakMark
         /\ Unquoted(Body(t)) = t.opaque
<1>1. CASE t.bare
  <2>1. PICK o \in Text : o = t.opaque
    BY BareTag, <1>1
  <2>2. Body(t) = o /\ o # Empty /\ Quote \notin Range(o) /\ First(o) # Blank
        /\ First(o) # WeakMark /\ Final(o) # Blank
    BY <1>1, <2>1, BareTag
  <2>3. Unquoted(o) = o
    <3>1. First(o) # Quote
      BY <2>2, EndsOfTexts
    <3>. QED  BY <3>1 DEF First, Unquoted
  <2>. QED  BY <2>1, <2>2, <2>3 DEF Compact
<1>2. CASE ~t.bare
  <2>1. PICK o \in Text : o = t.opaque
    BY WrittenTagType
  <2>2. Body(t) = Quoted(o)
    BY <1>2, <2>1 DEF Body
  <2>3. One(Quote) \in Text /\ Cat(One(Quote), o) \in Text /\ Quote \in Character
    BY SpecialCharacters, TextOperations
  <2>4. /\ Quoted(o) # Empty /\ First(Quoted(o)) = Quote /\ Final(Quoted(o)) = Quote
        /\ Quoted(o) \in Text
    BY <2>3, EndsOfTexts, TextOperations DEF Quoted
  <2>5. Quote # Blank /\ Quote # WeakMark
    BY SpecialCharacters
  <2>. QED  BY <2>1, <2>2, <2>4, <2>5, UnquotedQuoted DEF Compact
<1>. QED  BY <1>1, <1>2

(* What is written of a tag is read as it was meant.                        *)
LEMMA TagsReadBack ==
  ASSUME NEW t, EntityTag(t)
  PROVE  /\ Compact(WrittenTag(t))
         /\ ParseEntityTag(WrittenTag(t)) = [weak |-> t.weak, opaque |-> t.opaque]
<1>1. PICK b : b = Body(t) /\ Compact(b) /\ b \in Text /\ b # Empty
               /\ First(b) # WeakMark /\ Unquoted(b) = t.opaque
  BY BodyCompact DEF Compact
<1>2. PICK w : w = WrittenTag(t)
  OBVIOUS
<1>3. t.weak \in BOOLEAN
  BY DEF EntityTag
<1>4. CASE t.weak
  <2>1. w = Cat(One(WeakMark), b) /\ One(WeakMark) \in Text /\ WeakMark \in Character
    BY <1>1, <1>2, <1>4, WrittenTagParts, SpecialCharacters, TextOperations DEF Weakness
  <2>2. Compact(w) /\ First(w) = WeakMark /\ w # Empty
    <3>1. First(w) = WeakMark /\ Final(w) = Final(b) /\ w # Empty /\ w \in Text
      BY <1>1, <2>1, EndsOfTexts, TextOperations
    <3>2. WeakMark # Blank
      BY SpecialCharacters
    <3>. QED  BY <1>1, <3>1, <3>2 DEF Compact
  <2>3. Trim(w) = w /\ Tail(w) = b /\ Trim(b) = b
    BY <1>1, <2>1, <2>2, TrimCompact, TailOfCat
  <2>4. ParseTrimmed(w) = [weak |-> TRUE, opaque |-> Unquoted(b)]
    BY <2>2, <2>3 DEF ParseTrimmed, First, Empty
  <2>. QED  BY <1>1, <1>2, <1>3, <1>4, <2>2, <2>3, <2>4 DEF ParseEntityTag
<1>5. CASE ~t.weak
  <2>1. w = b
    BY <1>1, <1>2, <1>5, WrittenTagParts, TextOperations DEF Weakness
  <2>2. Trim(w) = w
    BY <1>1, <2>1, TrimCompact
  <2>3. ParseTrimmed(w) = [weak |-> FALSE, opaque |-> Unquoted(b)]
    BY <1>1, <2>1 DEF ParseTrimmed, First
  <2>. QED  BY <1>1, <1>2, <1>3, <1>5, <2>1, <2>2, <2>3 DEF ParseEntityTag
<1>. QED  BY <1>3, <1>4, <1>5

ListedStep(Tags) == [p \in Text \X Tags |-> Listed(p[1], p[2])]
Separator == Add(One(CommaMark), Blank)

LEMMA ListedTags ==
  ASSUME NEW t, NEW s
  PROVE  Listed(s, t) = IF s = Empty THEN Cat(Cat(s, Empty), WrittenTag(t)) ELSE Cat(Cat(s, Separator), WrittenTag(t))
<1>1. <<CommaMark, Blank>> = Append(<<CommaMark>>, Blank)
  OBVIOUS
<1>2. CASE s = Empty
  BY <1>2 DEF Listed, Cat, Empty
<1>3. CASE s # Empty
  BY <1>1, <1>3 DEF Listed, Cat, Empty, Separator, One, Add
<1>. QED  BY <1>2, <1>3

(* A list of tags is written as a text.                                     *)
LEMMA ListedType ==
  ASSUME NEW Tags, \A t \in Tags : EntityTag(t)
  PROVE  ListedStep(Tags) \in [Text \X Tags -> Text]
<1>1. Separator \in Text
  BY SpecialCharacters, TextOperations DEF Separator
<1>2. ASSUME NEW s \in Text, NEW t \in Tags
      PROVE  Listed(s, t) \in Text
  BY <1>1, WrittenTagType, ListedTags, TextOperations
<1>3. \A p \in Text \X Tags : Listed(p[1], p[2]) \in Text
  BY <1>2
<1>. QED  BY <1>3 DEF ListedStep

(* The fold over the tags of a header, step by step.                        *)
LEMMA WrittenListFollows ==
  ASSUME NEW Tags, \A t \in Tags : EntityTag(t), NEW h \in Seq(Tags)
  PROVE  \E it : Follows(ListedStep(Tags), Empty, Text, h, it) /\ WrittenList(h) = it[DOMAIN h]
<1>. DEFINE Iterates(it) == it = [d \in SUBSET DOMAIN h |->
               IF d = {} THEN <<>> ELSE Listed(it[d \ {Max(d)}], h[Max(d)])]
            iter == CHOOSE it : Iterates(it)
<1>1. PICK f \in [SUBSET DOMAIN h -> Text] : Stepwise(ListedStep(Tags), Empty, h, f)
  BY ListedType, TextOperations, StepwiseExists
<1>2. DOMAIN h = 1 .. Len(h) /\ Len(h) \in Nat
  BY LenProperties
<1>3. ASSUME NEW d \in SUBSET DOMAIN h, d # {}
      PROVE  Max(d) \in d /\ h[Max(d)] \in Tags /\ d \ {Max(d)} \in SUBSET DOMAIN h
  <2>1. Max(d) \in d
    BY <1>2, <1>3, MaxOfPositions
  <2>. QED  BY <1>2, <2>1, ElementOfSeq
<1>4. \A d \in SUBSET DOMAIN h : d # {} =>
         ListedStep(Tags)[<<f[d \ {Max(d)}], h[Max(d)]>>] = Listed(f[d \ {Max(d)}], h[Max(d)])
  BY <1>3 DEF ListedStep
<1>5. Iterates(f)
  BY <1>1, <1>4 DEF Stepwise, Empty
<1>6. Iterates(iter)
  <2>. HIDE DEF Iterates
  <2>. QED  BY <1>5
<1>7. WrittenList(h) = iter[DOMAIN h]
  BY DEF WrittenList, FoldLeft, MapThenFoldSet
<1>. HIDE DEF iter
<1>8. /\ iter[{}] = Empty
      /\ \A d \in SUBSET DOMAIN h : d # {} => iter[d] = Listed(iter[d \ {Max(d)}], h[Max(d)])
  BY <1>6 DEF Empty
<1>9. Follows(ListedStep(Tags), Empty, Text, h, iter)
  BY <1>3, <1>8 DEF Follows, ListedStep
<1>. QED  BY <1>7, <1>9

LEMMA WrittenListSteps ==
  ASSUME NEW Tags, \A t \in Tags : EntityTag(t)
  PROVE  /\ WrittenList(<<>>) = Empty
         /\ \A h \in Seq(Tags) : \A t \in Tags :
              WrittenList(h) \in Text /\ WrittenList(Append(h, t)) = Listed(WrittenList(h), t)
<1>1. WrittenList(<<>>) = Empty
  <2>1. <<>> \in Seq(Tags) /\ DOMAIN <<>> = {}
    BY EmptySeq
  <2>2. PICK it : Follows(ListedStep(Tags), Empty, Text, <<>>, it) /\ WrittenList(<<>>) = it[DOMAIN <<>>]
    BY <2>1, WrittenListFollows
  <2>. QED  BY <2>1, <2>2 DEF Follows
<1>2. ASSUME NEW h \in Seq(Tags), NEW t \in Tags
      PROVE  WrittenList(h) \in Text /\ WrittenList(Append(h, t)) = Listed(WrittenList(h), t)
  <2>1. PICK f : Follows(ListedStep(Tags), Empty, Text, h, f) /\ WrittenList(h) = f[DOMAIN h]
    BY WrittenListFollows
  <2>2. Append(h, t) \in Seq(Tags)
    BY AppendProperties
  <2>3. PICK g : /\ Follows(ListedStep(Tags), Empty, Text, Append(h, t), g)
                 /\ WrittenList(Append(h, t)) = g[DOMAIN Append(h, t)]
    BY <2>2, WrittenListFollows
  <2>4. FollowedOn(ListedStep(Tags), Empty, Text, Tags, h, t, f, g)
    BY <2>1, <2>3, ListedType, TextOperations DEF FollowedOn
  <2>5. f[DOMAIN h] \in Text /\ g[DOMAIN Append(h, t)] = ListedStep(Tags)[<<f[DOMAIN h], t>>]
    BY <2>4, FollowedByOne
  <2>6. ListedStep(Tags)[<<f[DOMAIN h], t>>] = Listed(f[DOMAIN h], t)
    BY <2>5 DEF ListedStep
  <2>. QED  BY <2>1, <2>3, <2>5, <2>6
<1>. QED  BY <1>1, <1>2

-----------------------------------------------------------------------------
LEMMA RangeOfAppend ==
  ASSUME NEW T, NEW s \in Seq(T), NEW c \in T
  PROVE  Range(Append(s, c)) = Range(s) \cup {c} /\ Range(<<>>) = {}
<1>1. PICK len \in Nat : DOMAIN s = 1 .. len
  BY LenProperties
<1>2. DOMAIN Append(s, c) = 1 .. len + 1 /\ Append(s, c)[len + 1] = c /\ \A i \in 1 .. len : Append(s, c)[i] = s[i]
  BY <1>1, LenProperties, AppendProperties
<1>3. PICK u : u = Append(s, c)
  OBVIOUS
<1>4. 1 .. len + 1 = (1 .. len) \cup {len + 1}
  OBVIOUS
<1>5. {u[i] : i \in 1 .. len + 1} = {s[i] : i \in 1 .. len} \cup {c}
  BY <1>2, <1>3, <1>4
<1>. QED  BY <1>1, <1>2, <1>3, <1>5 DEF Range

LEMMA ItemsOfAppend ==
  ASSUME NEW d \in Seq(Text), NEW cur \in Text
  PROVE  NonEmptyItems(Append(d, cur)) = NonEmptyItems(d) \cup ({Trim(cur)} \ {Empty})
<1>1. \A list : NonEmptyItems(list) = {Trim(x) : x \in Range(list)} \ {Empty}
  BY DEF NonEmptyItems, Range, Empty
<1>2. Range(Append(d, cur)) = Range(d) \cup {cur}
  BY RangeOfAppend
<1>3. PICK u : u = Append(d, cur)
  OBVIOUS
<1>. QED  BY <1>1, <1>2, <1>3

Written(h) == {WrittenTag(t) : t \in Range(h)}

(* A list of tags is taken apart at the commas between the tags.            *)
LEMMA ListItems ==
  ASSUME NEW Tags, \A t \in Tags : EntityTag(t), NEW h \in Seq(Tags)
  PROVE  NonEmptyItems(SplitTagList(WrittenList(h))) = Written(h)
<1>. DEFINE Apart(g, d, cur) == /\ WrittenList(g) \in Text
                                /\ Scanned(WrittenList(g)) = State(d, cur, Outside)
                                /\ NonEmptyItems(Add(d, cur)) = Written(g)
                                /\ g = Empty <=> WrittenList(g) = Empty
            I == {g \in Seq(Tags) : \E d, cur : Apart(g, d, cur)}
<1>1. Empty \in I
  <2>1. Empty \in Seq(Tags) /\ Empty \in Seq(Text) /\ Empty \in Text
    BY EmptySeq DEF Empty, Text
  <2>2. WrittenList(Empty) = Empty /\ Scanned(Empty) = State(Empty, Empty, Outside)
    BY WrittenListSteps, ScannedSteps DEF Empty
  <2>3. NonEmptyItems(Add(Empty, Empty)) = NonEmptyItems(Empty) \cup ({Trim(Empty)} \ {Empty})
    BY <2>1, ItemsOfAppend DEF Add
  <2>4. NonEmptyItems(Empty) = {} /\ Written(Empty) = {}
    BY DEF NonEmptyItems, Written, Range, Empty
  <2>5. Apart(Empty, Empty, Empty)
    BY <2>1, <2>2, <2>3, <2>4, TrimEmpty
  <2>. HIDE DEF Apart
  <2>. QED  BY <2>1, <2>5
<1>2. ASSUME NEW g \in Seq(Tags), NEW t \in Tags, g \in I
      PROVE  Add(g, t) \in I
  <2>1. PICK d, cur : Apart(g, d, cur)
    BY <1>2
  <2>. DEFINE w == WrittenList(g)
              tag == WrittenTag(t)
  <2>2. /\ w \in Text /\ Scanned(w) = State(d, cur, Outside) /\ NonEmptyItems(Add(d, cur)) = Written(g)
        /\ g = Empty <=> w = Empty
    BY <2>1
  <2>3. WrittenList(Add(g, t)) = Listed(w, t)
    BY WrittenListSteps DEF Add
  <2>4. Compact(tag) /\ tag \in Text /\ tag # Empty /\ Trim(tag) = tag /\ Trim(Cat(One(Blank), tag)) = tag
    BY TagsReadBack, TrimCompact DEF Compact
  <2>5. Written(Add(g, t)) = Written(g) \cup {tag} /\ Add(g, t) # Empty /\ Add(g, t) \in Seq(Tags)
    <3>1. Range(Add(g, t)) = Range(g) \cup {t}
      BY RangeOfAppend DEF Add
    <3>2. Add(g, t) # Empty /\ Add(g, t) \in Seq(Tags)
      BY AppendProperties DEF Add, Empty
    <3>. QED  BY <3>1, <3>2 DEF Written
  <2>6. d \in Seq(Text) /\ cur \in Text
    BY <2>2, ScannedState
  <2>. HIDE DEF w, tag, Apart
  <2>7. CASE w = Empty
    <3>1. d = Empty /\ cur = Empty
      <4>1. State(d, cur, Outside) = State(Empty, Empty, Outside)
        BY <2>2, <2>7, ScannedSteps
      <4>. QED  BY <4>1 DEF State
    <3>2. Listed(w, t) = tag
      BY <2>4, <2>7, ListedTags, TextOperations DEF tag
    <3>3. Scanned(tag) = State(Empty, tag, Outside)
      <4>1. Scanned(Cat(Empty, tag)) = State(Empty, Cat(Empty, tag), Outside)
        BY ScannedSteps, ScannedTag, TextOperations DEF tag
      <4>. QED  BY <2>4, <4>1, TextOperations
    <3>4. NonEmptyItems(Add(Empty, tag)) = {tag}
      <4>1. NonEmptyItems(Add(Empty, tag)) = NonEmptyItems(Empty) \cup ({Trim(tag)} \ {Empty})
        BY <2>4, <2>6, <3>1, ItemsOfAppend DEF Add
      <4>2. NonEmptyItems(Empty) = {}
        BY DEF NonEmptyItems, Empty
      <4>. QED  BY <2>4, <4>1, <4>2
    <3>5. Written(g) = {}
      BY <2>2, <2>7 DEF Written, Range, Empty
    <3>6. Apart(Add(g, t), Empty, tag)
      BY <2>3, <2>4, <2>5, <3>2, <3>3, <3>4, <3>5 DEF Apart
    <3>. QED  BY <2>5, <3>6
  <2>8. CASE w # Empty
    <3>. DEFINE w1 == Add(w, CommaMark)
                w2 == Add(w1, Blank)
                d1 == Add(d, cur)
                b  == One(Blank)
    <3>0. CommaMark \in Character /\ Blank \in Character /\ Blank # CommaMark /\ Blank # Quote /\ b \in Text
      BY SpecialCharacters, TextOperations
    <3>1. Listed(w, t) = Cat(w2, tag)
      <4>1. Listed(w, t) = Cat(Cat(w, Separator), tag)
        BY <2>8, ListedTags DEF tag
      <4>2. Cat(w, Separator) = Add(Cat(w, One(CommaMark)), Blank) /\ Cat(w, One(CommaMark)) = w1
        BY <2>2, <3>0, TextOperations DEF Separator
      <4>. QED  BY <4>1, <4>2
    <3>2. w1 \in Text /\ w2 \in Text
      BY <2>2, <3>0, TextOperations
    <3>3. Scanned(w1) = State(d1, Empty, Outside)
      BY <2>2, <3>0, ScannedSteps, ScanOne
    <3>4. Scanned(w2) = State(d1, b, Outside)
      <4>1. Scanned(w2) = Scan(Scanned(w1), Blank)
        BY <3>0, <3>2, ScannedSteps
      <4>2. Add(Empty, Blank) = b
        BY <3>0, TextOperations
      <4>. HIDE DEF w1, w2, d1, b
      <4>. QED  BY <3>0, <3>3, <4>1, <4>2, ScanOne
    <3>5. Scanned(Cat(w2, tag)) = State(d1, Cat(b, tag), Outside) /\ Cat(w2, tag) \in Text /\ Cat(b, tag) \in Text
      <4>. HIDE DEF w1, w2, d1, b
      <4>. QED  BY <2>4, <3>0, <3>2, <3>4, ScannedTag, TextOperations DEF tag
    <3>6. NonEmptyItems(Add(d1, Cat(b, tag))) = Written(g) \cup {tag}
      <4>1. d1 \in Seq(Text)
        BY <2>6, AppendProperties DEF Add
      <4>2. NonEmptyItems(Add(d1, Cat(b, tag))) = NonEmptyItems(d1) \cup ({Trim(Cat(b, tag))} \ {Empty})
        <5>. HIDE DEF d1, b
        <5>. QED  BY <3>5, <4>1, ItemsOfAppend DEF Add
      <4>. QED  BY <2>2, <2>4, <4>2
    <3>7. Cat(w2, tag) # Empty
      <4>. HIDE DEF w1, w2
      <4>. QED  BY <2>4, <3>2, EndsOfTexts
    <3>8. Apart(Add(g, t), d1, Cat(b, tag))
      <4>. HIDE DEF w1, w2, d1, b
      <4>. QED  BY <2>3, <2>5, <3>1, <3>5, <3>6, <3>7 DEF Apart
    <3>. QED  BY <2>5, <3>8
  <2>. QED  BY <2>7, <2>8
<1>. HIDE DEF I
<1>3. Seq(Tags) \subseteq I
  BY <1>1, <1>2, SequencesBySteps DEF Empty, Add
<1>4. PICK d, cur : Apart(h, d, cur)
  BY <1>3 DEF I
<1>5. SplitTagList(WrittenList(h)) = Add(d, cur)
  BY <1>4 DEF SplitTagList, State, Add
<1>. QED  BY <1>4, <1>5

TagsOf(header) == UNION {Range(h) : h \in header}
AnyOf(header)  == \E t \in TagsOf(header) : t.bare /\ ~t.weak /\ t.opaque = <<Asterisk>>
Meaning(t) == [weak |-> t.weak, opaque |-> t.opaque]

(* A header asks for the tags that are written in it, and for any tag when  *)
(* an asterisk is.                                                          *)
LEMMA TagsOfHeader ==
  ASSUME NEW header, Header(header)
  PROVE  \A t \in TagsOf(header) : EntityTag(t)
<1>1. CASE header = {}
  BY <1>1 DEF TagsOf
<1>2. CASE header # {}
  <2>1. PICK h \in header : header = {h} /\ \A t \in Range(h) : EntityTag(t)
    BY <1>2 DEF Header
  <2>2. TagsOf(header) = Range(h)
    BY <2>1 DEF TagsOf
  <2>. QED  BY <2>1, <2>2
<1>. QED  BY <1>1, <1>2

(* What the code finds in a header: each of its tags as it was written.     *)
LEMMA ItemsOfHeader ==
  ASSUME NEW header, Header(header)
  PROVE  UNION {NonEmptyItems(SplitTagList(h)) : h \in {WrittenList(g) : g \in header}}
           = {WrittenTag(t) : t \in TagsOf(header)}
<1>1. CASE header = {}
  BY <1>1 DEF TagsOf
<1>2. CASE header # {}
  <2>1. PICK h \in header : header = {h} /\ h \in Seq(Range(h)) /\ \A t \in Range(h) : EntityTag(t)
    BY <1>2 DEF Header
  <2>2. PICK Tags : Tags = Range(h)
    OBVIOUS
  <2>3. NonEmptyItems(SplitTagList(WrittenList(h))) = Written(h)
    BY <2>1, <2>2, ListItems
  <2>4. TagsOf(header) = Range(h)
    BY <2>1 DEF TagsOf
  <2>5. {WrittenList(g) : g \in header} = {WrittenList(h)}
    BY <2>1
  <2>. QED  BY <2>3, <2>4, <2>5 DEF Written
<1>. QED  BY <1>1, <1>2

(* Only a bare asterisk is written as one.                                  *)
LEMMA WrittenAsterisk ==
  ASSUME NEW t, EntityTag(t)
  PROVE  WrittenTag(t) = <<Asterisk>> <=> t.bare /\ ~t.weak /\ t.opaque = <<Asterisk>>
<1>1. PICK b : b = Body(t) /\ b \in Text /\ b # Empty
  BY BodyCompact DEF Compact
<1>2. One(Asterisk) = <<Asterisk>> /\ First(One(Asterisk)) = Asterisk /\ Asterisk \in Character
  BY SpecialCharacters, EndsOfTexts DEF One
<1>3. CASE t.weak
  <2>1. WrittenTag(t) = Cat(One(WeakMark), b) /\ One(WeakMark) \in Text /\ One(WeakMark) # Empty
        /\ First(One(WeakMark)) = WeakMark
    BY <1>1, <1>3, WrittenTagParts, SpecialCharacters, TextOperations, EndsOfTexts DEF Weakness
  <2>2. First(WrittenTag(t)) = WeakMark
    BY <1>1, <2>1, EndsOfTexts
  <2>. QED  BY <1>2, <1>3, <2>2, SpecialCharacters
<1>4. CASE ~t.weak
  <2>1. WrittenTag(t) = b
    BY <1>1, <1>4, WrittenTagParts, TextOperations DEF Weakness
  <2>2. CASE t.bare
    BY <1>1, <1>4, <2>1, <2>2 DEF Body
  <2>3. CASE ~t.bare
    <3>1. PICK o \in Text : b = Quoted(o)
      BY <1>1, <2>3, WrittenTagType DEF Body
    <3>2. Final(b) = Quote /\ First(b) = Quote
      BY <3>1, SpecialCharacters, TextOperations, EndsOfTexts, SMTT(60) DEF Quoted
    <3>. QED  BY <1>2, <2>1, <2>3, <3>2, SpecialCharacters
  <2>. QED  BY <2>2, <2>3
<1>. QED  BY <1>3, <1>4

(* A header is understood: the asterisk and the tags of the client.         *)
LEMMA AskedOfHeader ==
  ASSUME NEW header, Header(header)
  PROVE  LET asked == Asked({WrittenList(h) : h \in header})
         IN /\ asked.given <=> header # {}
            /\ asked.any <=> AnyOf(header)
            /\ asked.tags \subseteq {Meaning(t) : t \in TagsOf(header)}
            /\ \A t \in TagsOf(header) : Meaning(t) \in asked.tags \/ AnyOf(header)
<1>. DEFINE lists == {WrittenList(h) : h \in header}
            items == {WrittenTag(t) : t \in TagsOf(header)}
            tags == {ParseEntityTag(i) : i \in items \ {<<Asterisk>>}}
<1>1. Asked(lists) = [given |-> lists # {}, any |-> <<Asterisk>> \in items, tags |-> tags]
  BY ItemsOfHeader DEF Asked, AskedBy
<1>2. lists # {} <=> header # {}
  OBVIOUS
<1>3. \A t \in TagsOf(header) : /\ EntityTag(t)
                                /\ ParseEntityTag(WrittenTag(t)) = Meaning(t)
                                /\ WrittenTag(t) = <<Asterisk>> <=> t.bare /\ ~t.weak /\ t.opaque = <<Asterisk>>
  BY TagsOfHeader, TagsReadBack, WrittenAsterisk DEF Meaning
<1>4. <<Asterisk>> \in items <=> AnyOf(header)
  BY <1>3 DEF AnyOf
<1>5. tags \subseteq {Meaning(t) : t \in TagsOf(header)}
  BY <1>3
<1>6. \A t \in TagsOf(header) : Meaning(t) \in tags \/ AnyOf(header)
  BY <1>3 DEF AnyOf
<1>8. PICK asked : asked = Asked(lists)
  OBVIOUS
<1>9. (asked.given <=> lists # {}) /\ (asked.any <=> <<Asterisk>> \in items) /\ asked.tags = tags
  <2>. DEFINE given == lists # {}
              any   == <<Asterisk>> \in items
  <2>1. asked = [given |-> given, any |-> any, tags |-> tags]
    BY <1>1, <1>8
  <2>2. asked.given = given /\ asked.any = any /\ asked.tags = tags
    <3>. HIDE DEF given, any, tags
    <3>. QED  BY <2>1
  <2>. QED  BY <2>2
<1>. HIDE DEF items, tags
<1>10. /\ asked.given <=> header # {}
       /\ asked.any <=> AnyOf(header)
       /\ asked.tags \subseteq {Meaning(t) : t \in TagsOf(header)}
       /\ \A t \in TagsOf(header) : Meaning(t) \in asked.tags \/ AnyOf(header)
  BY <1>2, <1>4, <1>5, <1>6, <1>9
<1>. QED  BY <1>8, <1>10

Strongly(header, tag) ==
  AnyOf(header) \/ \E t \in TagsOf(header) : ~t.weak /\ ~tag.weak /\ t.opaque = tag.opaque
Weakly(header, tag) ==
  AnyOf(header) \/ \E t \in TagsOf(header) : t.opaque = tag.opaque

(* The same for a header as it was read.                                     *)
MatchesStrongly(asked, tag) == asked.any \/ (~tag.weak /\ Meaning(tag) \in asked.tags)
MatchesWeakly(asked, tag)   == asked.any \/ \E t \in asked.tags : t.opaque = Meaning(tag).opaque

(* A tag of the header matches strongly, or weakly, when its meaning does.  *)
LEMMA Matching ==
  ASSUME NEW header, Header(header), NEW tag, EntityTag(tag), NEW asked,
         asked = Asked({WrittenList(h) : h \in header})
  PROVE  /\ MatchesStrongly(asked, tag) <=> Strongly(header, tag)
         /\ MatchesWeakly(asked, tag) <=> Weakly(header, tag)
<1>. USE DEF MatchesStrongly, MatchesWeakly, Strongly, Weakly
<1>1. \A t \in TagsOf(header) : t.weak \in BOOLEAN
  BY TagsOfHeader DEF EntityTag
<1>2. tag.weak \in BOOLEAN
  BY DEF EntityTag
<1>3. \A t \in TagsOf(header) : /\ Meaning(t).opaque = t.opaque
                                /\ Meaning(t) = Meaning(tag) <=> t.weak = tag.weak /\ t.opaque = tag.opaque
  BY DEF Meaning
<1>4. Meaning(tag).opaque = tag.opaque
  BY DEF Meaning
<1>5. /\ asked.any <=> AnyOf(header)
      /\ asked.tags \subseteq {Meaning(t) : t \in TagsOf(header)}
      /\ \A t \in TagsOf(header) : Meaning(t) \in asked.tags \/ AnyOf(header)
  BY AskedOfHeader
<1>6. CASE AnyOf(header)
  BY <1>5, <1>6
<1>7. CASE ~AnyOf(header)
  <2>1. asked.tags = {Meaning(t) : t \in TagsOf(header)}
    BY <1>5, <1>7
  <2>2. Meaning(tag) \in asked.tags <=> \E t \in TagsOf(header) : t.weak = tag.weak /\ t.opaque = tag.opaque
    BY <1>3, <2>1
  <2>3. ~tag.weak => \A t \in TagsOf(header) : ~t.weak <=> t.weak = tag.weak
    BY <1>1, <1>2
  <2>4. (\E m \in asked.tags : m.opaque = Meaning(tag).opaque) <=> \E t \in TagsOf(header) : t.opaque = tag.opaque
    BY <1>3, <1>4, <2>1, ZenonT(60)
  <2>. QED  BY <1>5, <1>7, <2>2, <2>3, <2>4
<1>. QED  BY <1>6, <1>7

(* The verdict on what is asked for, in the words of RFC 7232.              *)
LEMMA Verdicts ==
  ASSUME NEW must, Header(must), NEW none, Header(none), NEW tag, EntityTag(tag)
  PROVE  LET holds == must = {} \/ Strongly(must, tag)
         IN Evaluate({WrittenList(h) : h \in must}, {WrittenList(h) : h \in none}, WrittenTag(tag))
              = IF ~holds THEN "precondition_failed"
                ELSE IF none # {} /\ Weakly(none, tag) THEN "not_modified" ELSE "ok"
<1>1. PICK m : m = Asked({WrittenList(h) : h \in must})
  OBVIOUS
<1>2. PICK len : len = Asked({WrittenList(h) : h \in none})
  OBVIOUS
<1>3. /\ m.given <=> must # {}
      /\ len.given <=> none # {}
  BY <1>1, <1>2, AskedOfHeader
<1>4. (m.any \/ (~tag.weak /\ Meaning(tag) \in m.tags)) <=> Strongly(must, tag)
  BY <1>1, Matching DEF MatchesStrongly
<1>5. (len.any \/ \E t \in len.tags : t.opaque = Meaning(tag).opaque) <=> Weakly(none, tag)
  BY <1>2, Matching DEF MatchesWeakly
<1>6. Meaning(tag).weak = tag.weak
  BY DEF Meaning
<1>7. PICK r : r = Meaning(tag)
  OBVIOUS
<1>8. Evaluate({WrittenList(h) : h \in must}, {WrittenList(h) : h \in none}, WrittenTag(tag)) = Verdict(m, len, r)
  BY <1>1, <1>2, <1>7, TagsReadBack DEF Evaluate, Meaning
<1>9. CASE ~(must = {} \/ Strongly(must, tag))
  <2>1. m.given /\ ~(m.any \/ (~r.weak /\ r \in m.tags))
    BY <1>3, <1>4, <1>6, <1>7, <1>9
  <2>2. Verdict(m, len, r) = "precondition_failed"
    BY <2>1 DEF Verdict
  <2>. QED  BY <1>8, <1>9, <2>2
<1>10. CASE (must = {} \/ Strongly(must, tag)) /\ none # {} /\ Weakly(none, tag)
  <2>1. ~(m.given /\ ~(m.any \/ (~r.weak /\ r \in m.tags)))
    BY <1>3, <1>4, <1>6, <1>7, <1>10
  <2>2. len.given /\ (len.any \/ \E t \in len.tags : t.opaque = r.opaque)
    BY <1>3, <1>5, <1>7, <1>10
  <2>3. Verdict(m, len, r) = "not_modified"
    BY <2>1, <2>2 DEF Verdict
  <2>. QED  BY <1>8, <1>10, <2>3
<1>11. CASE (must = {} \/ Strongly(must, tag)) /\ ~(none # {} /\ Weakly(none, tag))
  <2>1. ~(m.given /\ ~(m.any \/ (~r.weak /\ r \in m.tags)))
    BY <1>3, <1>4, <1>6, <1>7, <1>11
  <2>2. ~(len.given /\ (len.any \/ \E t \in len.tags : t.opaque = r.opaque))
    BY <1>3, <1>5, <1>7, <1>11
  <2>3. Verdict(m, len, r) = "ok"
    BY <2>1, <2>2 DEF Verdict
  <2>. QED  BY <1>8, <1>11, <2>3
<1>. QED  BY <1>9, <1>10, <1>11

LEMMA WeaklyNeedsHeader ==
  ASSUME NEW header, NEW tag, Weakly(header, tag)
  PROVE  header # {}
BY DEF Weakly, AnyOf, TagsOf

(* The answer to a conditional request is that of RFC 7232.                 *)
LEMMA ConditionsHold ==
  ASSUME Asks("precondition"), Header(arg.mustMatch), Header(arg.mayNotMatch), EntityTag(arg.tag),
         arg.probing \in BOOLEAN, result = Precondition(arg)
  PROVE  ConditionsAreThoseOfTheRfc
<1>1. PICK a : a = arg
  OBVIOUS
<1>. DEFINE holds == a.mustMatch = {} \/ Strongly(a.mustMatch, a.tag)
            weak == Weakly(a.mayNotMatch, a.tag)
            e == Evaluate({WrittenList(h) : h \in a.mustMatch}, {WrittenList(h) : h \in a.mayNotMatch}, WrittenTag(a.tag))
<1>2. e = IF ~holds THEN "precondition_failed" ELSE IF weak THEN "not_modified" ELSE "ok"
  BY <1>1, Verdicts, WeaklyNeedsHeader
<1>3. Precondition(a) = IF a.probing \/ e = "ok" THEN {} ELSE {e}
  BY DEF Precondition, ConditionalResponseStatus, FullResponseRequired
<1>. HIDE DEF e
<1>4. result = CASE a.probing -> {}
                 [] ~a.probing /\ ~holds -> {"precondition_failed"}
                 [] ~a.probing /\ holds /\ weak -> {"not_modified"}
                 [] OTHER -> {}
  <2>. HIDE DEF holds, weak
  <2>1. CASE a.probing
    BY <1>1, <1>3, <2>1
  <2>2. CASE ~a.probing /\ ~holds
    BY <1>1, <1>2, <1>3, <2>2
  <2>3. CASE ~a.probing /\ holds /\ weak
    BY <1>1, <1>2, <1>3, <2>3
  <2>4. CASE ~a.probing /\ holds /\ ~weak
    BY <1>1, <1>2, <1>3, <2>4
  <2>. QED  BY <2>1, <2>2, <2>3, <2>4
<1>. QED  BY <1>1, <1>4 DEF ConditionsAreThoseOfTheRfc, Strongly, Weakly, AnyOf, TagsOf

-----------------------------------------------------------------------------
LEMMA AddressesHold ==
  ASSUME Asks("address"), arg.address \in [1 .. 4 -> Nat],
         \A k \in DOMAIN arg.formats : arg.formats[k] \in Seq(Range(arg.formats[k]))
                                    /\ \A field \in Range(arg.formats[k]) : FormatField(field),
         result = Filtered(arg)
  PROVE  AddressesInRangePass
<1>1. PICK address : address = arg.address
  OBVIOUS
<1>2. PICK formats : formats = arg.formats
  BY SMTT(60)
<1>. DEFINE numbers(f) == CASE f.is = "any" -> Range(address)
                            [] f.is = "single" -> {f.lo}
                            [] f.is = "padded" -> {}
                            [] f.is = "range" -> (f.lo .. f.hi) \cup (f.hi .. f.lo)
<1>3. SUFFICES ASSUME \A k \in DOMAIN formats : Acceptable(formats[k])
               PROVE  result = IF \E k \in DOMAIN formats : \A m \in 1 .. 4 : address[m] \in numbers(formats[k][m])
                               THEN "pass" ELSE "refuse"
  BY <1>1, <1>2 DEF AddressesInRangePass
<1>4. ASSUME NEW k \in DOMAIN formats
      PROVE  AddressMatches(formats[k], address) <=> \A m \in 1 .. 4 : address[m] \in numbers(formats[k][m])
  <2>1. PICK f : f = formats[k]
    OBVIOUS
  <2>2. Len(f) = 4 /\ f \in Seq(Range(f)) /\ \A field \in Range(f) : FormatField(field)
    BY <1>2, <1>3, <2>1 DEF Acceptable
  <2>3. DOMAIN f = 1 .. 4
    BY <2>2, LenProperties
  <2>4. DOMAIN address = 1 .. 4
    BY <1>1
  <2>5. ASSUME NEW m \in 1 .. 4
        PROVE  FieldMatches(f[m], address[m]) <=> address[m] \in numbers(f[m])
    <3>1. PICK field : field = f[m]
      OBVIOUS
    <3>2. PICK len \in Nat : len = address[m]
      BY <1>1
    <3>3. len \in Range(address)
      BY <2>4, <3>2 DEF Range
    <3>4. FormatField(field) /\ field.is # "other"
      <4>1. field \in Range(f)
        BY <2>3, <3>1 DEF Range
      <4>. QED  BY <1>3, <2>1, <2>2, <3>1, <4>1 DEF Acceptable
    <3>5. CASE field.is = "any"
      BY <3>1, <3>2, <3>3, <3>5 DEF FieldMatches
    <3>6. CASE field.is = "single"
      BY <3>1, <3>2, <3>6 DEF FieldMatches
    <3>7. CASE field.is = "padded"
      BY <3>1, <3>2, <3>7 DEF FieldMatches
    <3>8. CASE field.is = "range"
      BY <3>1, <3>2, <3>4, <3>8 DEF FieldMatches, FormatField
    <3>. QED  BY <3>4, <3>5, <3>6, <3>7, <3>8 DEF FormatField
  <2>. QED  BY <2>1, <2>4, <2>5 DEF AddressMatches
<1>5. result = IF \E k \in DOMAIN formats : AddressMatches(formats[k], address) THEN "pass" ELSE "refuse"
  BY <1>1, <1>2, <1>3 DEF Filtered, FilterMatches
<1>. HIDE DEF numbers
<1>. QED  BY <1>4, <1>5

Adds(c)    == c.op = "add"
Removes(c) == c.op = "remove"
Clears(c)  == c.op = "clear"
Kind(c)    == c.op \in {"add", "remove", "clear"}

Account(c) == [password |-> c.password, groups |-> c.groups]
Accounts(Calls) == {Account(c) : c \in Calls}
UserMaps(Calls) == UNION {[N -> Accounts(Calls)] : N \in SUBSET {c.name : c \in Calls}}
CalledStep(Calls) == [p \in UserMaps(Calls) \X Calls |-> Called(p[1], p[2])]

LEMMA Kinds ==
  ASSUME NEW c, Kind(c)
  PROVE  /\ Adds(c) \/ Removes(c) \/ Clears(c)
         /\ ~(Adds(c) /\ Removes(c)) /\ ~(Adds(c) /\ Clears(c)) /\ ~(Removes(c) /\ Clears(c))
BY DEF Kind, Adds, Removes, Clears

(* Tables of users that calls can make.                                     *)
LEMMA UserMapsAre ==
  ASSUME NEW Calls, NEW users
  PROVE  users \in UserMaps(Calls) <=> /\ users \in [DOMAIN users -> Accounts(Calls)]
                                       /\ DOMAIN users \subseteq {c.name : c \in Calls}
BY DEF UserMaps

With(users, c) ==
  [name \in DOMAIN users \cup {c.name} |-> IF name = c.name THEN Account(c) ELSE users[name]]
Without(users, c) == [name \in DOMAIN users \ {c.name} |-> users[name]]

(* What a call makes of the table, one case for each kind.                  *)
LEMMA CalledByCases ==
  ASSUME NEW users, NEW c, Kind(c)
  PROVE  /\ Adds(c) => Called(users, c) = With(users, c)
         /\ Removes(c) => Called(users, c) = Without(users, c)
         /\ Clears(c) => Called(users, c) = NoUsers
BY DEF With, Without, Called, AddUser, RemoveUser, NoUsers, Restrict, Account, Adds, Removes, Clears, Kind

LEMMA CalledType ==
  ASSUME NEW Calls, \A c \in Calls : Kind(c)
  PROVE  CalledStep(Calls) \in [UserMaps(Calls) \X Calls -> UserMaps(Calls)] /\ NoUsers \in UserMaps(Calls)
<1>1. NoUsers \in UserMaps(Calls)
  <2>1. DOMAIN NoUsers = {} /\ NoUsers \in [DOMAIN NoUsers -> Accounts(Calls)]
    BY DEF NoUsers
  <2>. QED  BY <2>1, UserMapsAre
<1>2. ASSUME NEW users \in UserMaps(Calls), NEW c \in Calls
      PROVE  Called(users, c) \in UserMaps(Calls)
  <2>1. users \in [DOMAIN users -> Accounts(Calls)] /\ DOMAIN users \subseteq {d.name : d \in Calls}
    BY UserMapsAre
  <2>2. Account(c) \in Accounts(Calls)
    BY DEF Accounts
  <2>3. PICK later : later = Called(users, c)
    OBVIOUS
  <2>4. CASE Adds(c)
    <3>1. later = [name \in DOMAIN users \cup {c.name} |-> IF name = c.name THEN Account(c) ELSE users[name]]
      <4>1. later = With(users, c)
        BY <2>3, <2>4, CalledByCases
      <4>. QED  BY <4>1 DEF With
    <3>2. later \in [DOMAIN later -> Accounts(Calls)] /\ DOMAIN later \subseteq {d.name : d \in Calls}
      BY <2>1, <2>2, <3>1
    <3>. QED  BY <2>3, <3>2, UserMapsAre
  <2>5. CASE Removes(c)
    <3>1. later = [name \in DOMAIN users \ {c.name} |-> users[name]]
      BY <2>3, <2>5, CalledByCases DEF Without
    <3>2. later \in [DOMAIN later -> Accounts(Calls)] /\ DOMAIN later \subseteq {d.name : d \in Calls}
      BY <2>1, <3>1
    <3>. QED  BY <2>3, <3>2, UserMapsAre
  <2>6. CASE Clears(c)
    <3>1. later = NoUsers
      BY <2>3, <2>6, CalledByCases
    <3>. QED  BY <1>1, <2>3, <3>1
  <2>. QED  BY <2>4, <2>5, <2>6, Kinds
<1>3. \A p \in UserMaps(Calls) \X Calls : Called(p[1], p[2]) \in UserMaps(Calls)
  BY <1>2
<1>. QED  BY <1>1, <1>3 DEF CalledStep

(* The fold over the history of calls, step by step.                        *)
LEMMA UsersFollow ==
  ASSUME NEW Calls, \A c \in Calls : Kind(c), NEW h \in Seq(Calls)
  PROVE  \E it : Follows(CalledStep(Calls), NoUsers, UserMaps(Calls), h, it) /\ Users(h) = it[DOMAIN h]
<1>. DEFINE Iterates(it) == it = [d \in SUBSET DOMAIN h |->
               IF d = {} THEN NoUsers ELSE Called(it[d \ {Max(d)}], h[Max(d)])]
            iter == CHOOSE it : Iterates(it)
<1>1. PICK f \in [SUBSET DOMAIN h -> UserMaps(Calls)] : Stepwise(CalledStep(Calls), NoUsers, h, f)
  BY CalledType, StepwiseExists
<1>2. DOMAIN h = 1 .. Len(h) /\ Len(h) \in Nat
  BY LenProperties
<1>3. ASSUME NEW d \in SUBSET DOMAIN h, d # {}
      PROVE  Max(d) \in d /\ h[Max(d)] \in Calls /\ d \ {Max(d)} \in SUBSET DOMAIN h
  <2>1. Max(d) \in d
    BY <1>2, <1>3, MaxOfPositions
  <2>. QED  BY <1>2, <2>1, ElementOfSeq
<1>4. \A d \in SUBSET DOMAIN h : d # {} =>
         CalledStep(Calls)[<<f[d \ {Max(d)}], h[Max(d)]>>] = Called(f[d \ {Max(d)}], h[Max(d)])
  BY <1>3 DEF CalledStep
<1>5. Iterates(f)
  BY <1>1, <1>4 DEF Stepwise
<1>6. Iterates(iter)
  <2>. HIDE DEF Iterates
  <2>. QED  BY <1>5
<1>7. Users(h) = iter[DOMAIN h]
  BY DEF Users, FoldLeft, MapThenFoldSet
<1>. HIDE DEF iter
<1>8. /\ iter[{}] = NoUsers
      /\ \A d \in SUBSET DOMAIN h : d # {} => iter[d] = Called(iter[d \ {Max(d)}], h[Max(d)])
  BY <1>6
<1>9. Follows(CalledStep(Calls), NoUsers, UserMaps(Calls), h, iter)
  BY <1>3, <1>8 DEF Follows, CalledStep
<1>. QED  BY <1>7, <1>9

LEMMA UsersSteps ==
  ASSUME NEW Calls, \A c \in Calls : Kind(c)
  PROVE  /\ Users(<<>>) = NoUsers
         /\ \A h \in Seq(Calls) : \A c \in Calls : Users(Append(h, c)) = Called(Users(h), c)
<1>1. Users(<<>>) = NoUsers
  <2>1. <<>> \in Seq(Calls) /\ DOMAIN <<>> = {}
    BY EmptySeq
  <2>2. PICK it : Follows(CalledStep(Calls), NoUsers, UserMaps(Calls), <<>>, it) /\ Users(<<>>) = it[DOMAIN <<>>]
    BY <2>1, UsersFollow
  <2>. QED  BY <2>1, <2>2 DEF Follows
<1>2. ASSUME NEW h \in Seq(Calls), NEW c \in Calls
      PROVE  Users(Append(h, c)) = Called(Users(h), c)
  <2>1. PICK f : Follows(CalledStep(Calls), NoUsers, UserMaps(Calls), h, f) /\ Users(h) = f[DOMAIN h]
    BY UsersFollow
  <2>2. Append(h, c) \in Seq(Calls)
    BY AppendProperties
  <2>3. PICK g : /\ Follows(CalledStep(Calls), NoUsers, UserMaps(Calls), Append(h, c), g)
                 /\ Users(Append(h, c)) = g[DOMAIN Append(h, c)]
    BY <2>2, UsersFollow
  <2>4. FollowedOn(CalledStep(Calls), NoUsers, UserMaps(Calls), Calls, h, c, f, g)
    BY <2>1, <2>3, CalledType DEF FollowedOn
  <2>5. f[DOMAIN h] \in UserMaps(Calls) /\ g[DOMAIN Append(h, c)] = CalledStep(Calls)[<<f[DOMAIN h], c>>]
    BY <2>4, FollowedByOne
  <2>6. CalledStep(Calls)[<<f[DOMAIN h], c>>] = Called(f[DOMAIN h], c)
    BY <2>5 DEF CalledStep
  <2>. QED  BY <2>1, <2>3, <2>5, <2>6
<1>. QED  BY <1>1, <1>2

-----------------------------------------------------------------------------
(* The calls that say something of a user, and the last of them.            *)
Concerns(c, x) == Clears(c) \/ c.name = x
IsLast(h, x, k) == k \in DOMAIN h /\ Concerns(h[k], x) /\ \A m \in DOMAIN h : Concerns(h[m], x) => m <= k

Settled(h, x) ==
  /\ x \in DOMAIN Users(h) => \E k : IsLast(h, x, k) /\ Adds(h[k]) /\ Users(h)[x] = Account(h[k])
  /\ x \notin DOMAIN Users(h) => \A k : IsLast(h, x, k) => ~Adds(h[k])

(* The last call about a name, when one more call is made.                  *)
LEMMA LastOfLonger ==
  ASSUME NEW T, NEW h \in Seq(T), NEW c \in T, NEW x
  PROVE  \E last :
           /\ Concerns(c, x) => \A k : IsLast(Add(h, c), x, k) <=> k = last
           /\ ~Concerns(c, x) => \A k : IsLast(Add(h, c), x, k) <=> IsLast(h, x, k)
           /\ \A k : IsLast(h, x, k) => Add(h, c)[k] = h[k]
           /\ Add(h, c)[last] = c
<1>1. PICK len \in Nat : len = Len(h) /\ DOMAIN h = 1 .. len
  BY LenProperties
<1>2. PICK u : u = Add(h, c)
  OBVIOUS
<1>3. DOMAIN u = 1 .. len + 1 /\ u[len + 1] = c /\ \A i \in 1 .. len : u[i] = h[i]
  BY <1>1, <1>2, LenProperties, AppendProperties DEF Add
<1>4. ASSUME Concerns(c, x), NEW k
      PROVE  IsLast(u, x, k) <=> k = len + 1
  BY <1>3, <1>4 DEF IsLast
<1>5. ASSUME ~Concerns(c, x), NEW k
      PROVE  IsLast(u, x, k) <=> IsLast(h, x, k)
  <2>1. ASSUME IsLast(u, x, k) PROVE IsLast(h, x, k)
    <3>1. k \in 1 .. len + 1 /\ k # len + 1
      BY <1>3, <1>5, <2>1 DEF IsLast
    <3>2. k \in 1 .. len
      BY <3>1
    <3>. QED  BY <1>1, <1>3, <2>1, <3>2 DEF IsLast
  <2>2. ASSUME IsLast(h, x, k) PROVE IsLast(u, x, k)
    <3>1. k \in 1 .. len /\ k \in 1 .. len + 1
      BY <1>1, <2>2 DEF IsLast
    <3>2. ASSUME NEW m \in 1 .. len + 1, Concerns(u[m], x) PROVE m <= k
      <4>1. m # len + 1
        BY <1>3, <1>5, <3>2
      <4>2. m \in 1 .. len
        BY <4>1
      <4>. QED  BY <1>1, <1>3, <2>2, <3>2, <4>2 DEF IsLast
    <3>. QED  BY <1>1, <1>3, <2>2, <3>1, <3>2 DEF IsLast
  <2>. QED  BY <2>1, <2>2
<1>6. \A k : IsLast(h, x, k) => u[k] = h[k]
  BY <1>1, <1>3 DEF IsLast
<1>. QED  BY <1>2, <1>3, <1>4, <1>5, <1>6

(* The table has under a name what the last call about it left there.       *)
LEMMA UsersSettled ==
  ASSUME NEW Calls, \A c \in Calls : Kind(c), NEW h \in Seq(Calls), NEW x
  PROVE  Settled(h, x)
<1>. DEFINE I == {g \in Seq(Calls) : Settled(g, x)}
<1>1. <<>> \in I
  <2>1. Users(<<>>) = NoUsers /\ DOMAIN NoUsers = {} /\ <<>> \in Seq(Calls)
    BY UsersSteps, EmptySeq DEF NoUsers
  <2>2. \A k : ~IsLast(<<>>, x, k)
    BY DEF IsLast
  <2>. QED  BY <2>1, <2>2 DEF Settled
<1>2. ASSUME NEW g \in Seq(Calls), NEW c \in Calls, g \in I
      PROVE  Add(g, c) \in I
  <2>1. PICK u : u = Add(g, c) /\ u \in Seq(Calls)
    BY AppendProperties DEF Add
  <2>2. PICK users : users = Users(g)
    OBVIOUS
  <2>3. PICK later : later = Called(users, c) /\ later = Users(u)
    BY <2>1, <2>2, UsersSteps DEF Add
  <2>4. /\ x \in DOMAIN users => \E k : IsLast(g, x, k) /\ Adds(g[k]) /\ users[x] = Account(g[k])
        /\ x \notin DOMAIN users => \A k : IsLast(g, x, k) => ~Adds(g[k])
    BY <1>2, <2>2 DEF Settled
  <2>6. PICK last :
          /\ Concerns(c, x) => \A k : IsLast(u, x, k) <=> k = last
          /\ ~Concerns(c, x) => \A k : IsLast(u, x, k) <=> IsLast(g, x, k)
          /\ \A k : IsLast(g, x, k) => u[k] = g[k]
          /\ u[last] = c
    BY <2>1, LastOfLonger
  <2>7. /\ Concerns(c, x) => /\ x \in DOMAIN later <=> Adds(c)
                             /\ Adds(c) => later[x] = Account(c)
        /\ ~Concerns(c, x) => /\ x \in DOMAIN later <=> x \in DOMAIN users
                              /\ x \in DOMAIN users => later[x] = users[x]
    <3>1. Kind(c) /\ (Adds(c) \/ Removes(c) \/ Clears(c)) /\ (Concerns(c, x) <=> Clears(c) \/ c.name = x)
      BY Kinds DEF Concerns
    <3>2. CASE Adds(c)
      <4>1. later = [name \in DOMAIN users \cup {c.name} |-> IF name = c.name THEN Account(c) ELSE users[name]]
        <5>1. later = With(users, c)
          BY <2>3, <3>1, <3>2, CalledByCases
        <5>. QED  BY <5>1 DEF With
      <4>2. ~Clears(c)
        BY <3>1, <3>2, Kinds
      <4>. QED  BY <3>1, <3>2, <4>1, <4>2
    <3>3. CASE Removes(c)
      <4>1. later = [name \in DOMAIN users \ {c.name} |-> users[name]]
        BY <2>3, <3>1, <3>3, CalledByCases DEF Without
      <4>2. ~Clears(c) /\ ~Adds(c)
        BY <3>1, <3>3, Kinds
      <4>. QED  BY <3>1, <3>3, <4>1, <4>2
    <3>4. CASE Clears(c)
      <4>1. DOMAIN later = {}
        BY <2>3, <3>1, <3>4, CalledByCases DEF NoUsers
      <4>2. ~Adds(c)
        BY <3>1, <3>4, Kinds
      <4>. QED  BY <3>1, <3>4, <4>1, <4>2
    <3>. QED  BY <3>1, <3>2, <3>3, <3>4
  <2>8. CASE Concerns(c, x)
    <3>3. Settled(u, x)
      BY <2>3, <2>6, <2>7, <2>8 DEF Settled
    <3>. QED  BY <2>1, <3>3
  <2>9. CASE ~Concerns(c, x)
    <3>4. Settled(u, x)
      BY <2>3, <2>4, <2>6, <2>7, <2>9 DEF Settled
    <3>. QED  BY <2>1, <3>4
  <2>. QED  BY <2>8, <2>9
<1>. HIDE DEF I
<1>3. Seq(Calls) \subseteq I
  BY <1>1, <1>2, SequencesBySteps DEF Add
<1>. QED  BY <1>3 DEF I

LEMMA LastExists ==
  ASSUME NEW T, NEW h \in Seq(T), NEW calls \in SUBSET DOMAIN h, calls # {}
  PROVE  \E k \in calls : \A m \in calls : m <= k
<1>1. PICK len \in Nat : DOMAIN h = 1 .. len
  BY LenProperties
<1>2. \A m \in calls : m \in Nat
  BY <1>1
<1>3. Max(calls) \in calls /\ \A m \in calls : Max(calls) >= m
  BY <1>1, MaxOfPositions
<1>. QED  BY <1>2, <1>3

LEMMA Pairs ==
  ASSUME NEW S, NEW T, NEW p \in S \X T, NEW x, NEW y
  PROVE  p = <<x, y>> <=> x = p[1] /\ y = p[2]
OBVIOUS

(* Credentials pass exactly when the last call about the user added them.   *)
LEMMA UsersHold ==
  ASSUME Asks("user"), arg.history \in Seq(Range(arg.history)), \A c \in Range(arg.history) : UserCall(c),
         Credentials(arg.credentials), result = Authenticated(arg)
  PROVE  LastCallDecides
<1>. DEFINE words == CHOOSE w \in arg.credentials : TRUE
            about(k) == arg.history[k].op = "clear" \/ arg.history[k].name = words[2][1]
            calls == {k \in DOMAIN arg.history : about(k)}
            last  == arg.history[CHOOSE k \in calls : \A m \in calls : m <= k]
<1>1. SUFFICES ASSUME arg.credentials # {}, Len(words) = 2, words[1] = "basic"
               PROVE  (result = "pass") = (/\ calls # {}
                                           /\ last.op = "add"
                                           /\ last.password = words[2][2]
                                           /\ last.groups \cap arg.groups # {})
  BY DEF LastCallDecides
<1>2. PICK h : h = arg.history
  OBVIOUS
<1>3. PICK Calls : Calls = Range(h) /\ h \in Seq(Calls) /\ \A c \in Calls : Kind(c)
  BY <1>2 DEF UserCall, Kind
<1>4. PICK x, p : x = words[2][1] /\ p = words[2][2] /\ \A y, z : words[2] = <<y, z>> <=> y = x /\ z = p
  <2>1. \E ws \in arg.credentials : /\ arg.credentials = {ws}
                                    /\ Len(ws) >= 2 /\ ws[1] = "basic" => ws[2] \in Word \X Word
    BY <1>1 DEF Credentials
  <2>2. words[2] \in Word \X Word
    BY <1>1, <2>1
  <2>. HIDE DEF words
  <2>. QED  BY <2>2, Pairs
<1>5. PICK users : users = Users(h)
  OBVIOUS
<1>6. result = "pass" <=> \E name \in DOMAIN users :
                            users[name].groups \cap arg.groups # {} /\ words[2] = <<name, users[name].password>>
  <2>1. PICK known \in BOOLEAN : known = \E name \in DOMAIN users :
                                           users[name].groups \cap arg.groups # {} /\ words[2] = <<name, users[name].password>>
    OBVIOUS
  <2>2. Authenticated(arg) = IF known THEN "pass" ELSE "unauthorized"
    BY <1>1, <1>2, <1>5, <2>1 DEF Authenticated, Authenticate
  <2>. QED  BY <2>1, <2>2
<1>7. result = "pass" <=> x \in DOMAIN users /\ users[x].groups \cap arg.groups # {} /\ users[x].password = p
  BY <1>4, <1>6
<1>8. Settled(h, x)
  BY <1>3, UsersSettled
<1>9. calls = {k \in DOMAIN h : Concerns(h[k], x)}
  BY <1>2, <1>4 DEF Concerns, Clears
<1>10. calls = {} => \A k : ~IsLast(h, x, k)
  BY <1>9 DEF IsLast
<1>11. calls # {} => \E k : IsLast(h, x, k) /\ last = h[k]
  <2>1. SUFFICES ASSUME calls # {}
                 PROVE  \E k : IsLast(h, x, k) /\ last = h[k]
    OBVIOUS
  <2>2. PICK k : k = CHOOSE j \in calls : \A m \in calls : m <= j
    OBVIOUS
  <2>3. \E j \in calls : \A m \in calls : m <= j
    BY <1>3, <1>9, <2>1, LastExists
  <2>4. k \in calls /\ \A m \in calls : m <= k
    BY <2>2, <2>3
  <2>5. last = h[k]
    BY <1>2, <2>2
  <2>6. IsLast(h, x, k)
    BY <1>9, <2>4 DEF IsLast
  <2>. QED  BY <2>5, <2>6
<1>12. \A j, k : IsLast(h, x, j) /\ IsLast(h, x, k) => j = k
  <2>1. DOMAIN h \subseteq Nat
    BY <1>3, LenProperties
  <2>. QED  BY <2>1 DEF IsLast
<1>13. /\ x \in DOMAIN users => \E k : IsLast(h, x, k) /\ Adds(h[k]) /\ users[x] = Account(h[k])
       /\ x \notin DOMAIN users => \A k : IsLast(h, x, k) => ~Adds(h[k])
  BY <1>5, <1>8 DEF Settled
<1>. HIDE DEF calls, last
<1>14. CASE x \in DOMAIN users
  <2>1. PICK k : IsLast(h, x, k) /\ Adds(h[k]) /\ users[x] = Account(h[k])
    BY <1>13, <1>14
  <2>2. calls # {} /\ last = h[k]
    BY <1>10, <1>11, <1>12, <2>1
  <2>3. users[x].password = last.password /\ users[x].groups = last.groups
    BY <2>1, <2>2 DEF Account
  <2>4. last.op = "add"
    BY <2>1, <2>2 DEF Adds
  <2>. QED  BY <1>4, <1>7, <1>14, <2>2, <2>3, <2>4
<1>15. CASE x \notin DOMAIN users
  <2>1. calls # {} => last.op # "add"
    BY <1>11, <1>13, <1>15 DEF Adds
  <2>. QED  BY <1>7, <1>15, <2>1
<1>. QED  BY <1>14, <1>15

-----------------------------------------------------------------------------
(* RequestAnswers: the reports.  Selections, sums and joined sequences are  *)
(* folds; they are computed by steps, and what holds of them is proved by   *)
(* induction over sets of sequences.                                        *)

(* A function on sequences that follows a step is computed by steps.        *)
FollowsAlong(step, base, A, T, F) ==
  /\ step \in [A \X T -> A] /\ base \in A
  /\ \A s \in Seq(T) : \E it : Follows(step, base, A, s, it) /\ F[s] = it[DOMAIN s]

(* It is determined by its value for the empty sequence and by the step.    *)
LEMMA FollowedSteps ==
  ASSUME NEW A, NEW T, NEW step, NEW base, NEW F, FollowsAlong(step, base, A, T, F)
  PROVE  /\ F[Empty] = base
         /\ \A s \in Seq(T) : F[s] \in A
         /\ \A s \in Seq(T) : \A c \in T : F[Add(s, c)] = step[<<F[s], c>>]
<1>. USE DEF FollowsAlong
<1>1. F[<<>>] = base
  <2>1. <<>> \in Seq(T) /\ DOMAIN <<>> = {}
    BY EmptySeq
  <2>2. PICK it : Follows(step, base, A, <<>>, it) /\ F[<<>>] = it[DOMAIN <<>>]
    BY <2>1
  <2>. QED  BY <2>1, <2>2 DEF Follows
<1>2. ASSUME NEW s \in Seq(T), NEW c \in T
      PROVE  F[s] \in A /\ F[Append(s, c)] = step[<<F[s], c>>]
  <2>1. PICK f : Follows(step, base, A, s, f) /\ F[s] = f[DOMAIN s]
    OBVIOUS
  <2>2. Append(s, c) \in Seq(T)
    BY AppendProperties
  <2>3. PICK g : Follows(step, base, A, Append(s, c), g) /\ F[Append(s, c)] = g[DOMAIN Append(s, c)]
    BY <2>2
  <2>4. FollowedOn(step, base, A, T, s, c, f, g)
    BY <2>1, <2>3 DEF FollowedOn
  <2>5. f[DOMAIN s] \in A /\ g[DOMAIN Append(s, c)] = step[<<f[DOMAIN s], c>>]
    BY <2>4, FollowedByOne
  <2>. QED  BY <2>1, <2>3, <2>5
<1>3. Seq(T) \subseteq {s \in Seq(T) : F[s] \in A}
  <2>. DEFINE I == {s \in Seq(T) : F[s] \in A}
  <2>1. <<>> \in I
    BY <1>1, EmptySeq
  <2>2. \A s \in Seq(T) : \A c \in T : s \in I => Append(s, c) \in I
    BY <1>2, AppendProperties
  <2>. HIDE DEF I
  <2>3. Seq(T) \subseteq I
    BY <2>1, <2>2, SequencesBySteps
  <2>. QED  BY <2>3 DEF I
<1>. QED  BY <1>1, <1>2, <1>3 DEF Empty, Add

(* The folds of the reports: selecting, adding up and joining.              *)
SelectionStep(S, T) == [p \in Seq(T) \X T |-> IF p[2] \in S THEN Append(p[1], p[2]) ELSE p[1]]

(* Each fold follows its step.                                              *)
LEMMA SelectedFollows ==
  ASSUME NEW S, NEW T, NEW s \in Seq(T)
  PROVE  /\ SelectionStep(S, T) \in [Seq(T) \X T -> Seq(T)] /\ <<>> \in Seq(T)
         /\ \E it : Follows(SelectionStep(S, T), <<>>, Seq(T), s, it) /\ Selected(s, S) = it[DOMAIN s]
<1>. DEFINE next(acc, e) == IF e \in S THEN Append(acc, e) ELSE acc
            Iterates(it) == it = [d \in SUBSET DOMAIN s |->
               IF d = {} THEN <<>> ELSE next(it[d \ {Max(d)}], s[Max(d)])]
            iter == CHOOSE it : Iterates(it)
<1>1. SelectionStep(S, T) \in [Seq(T) \X T -> Seq(T)] /\ <<>> \in Seq(T)
  <2>1. \A p \in Seq(T) \X T : (IF p[2] \in S THEN Append(p[1], p[2]) ELSE p[1]) \in Seq(T)
    BY AppendProperties
  <2>. QED  BY <2>1, EmptySeq DEF SelectionStep
<1>2. PICK f \in [SUBSET DOMAIN s -> Seq(T)] : Stepwise(SelectionStep(S, T), <<>>, s, f)
  BY <1>1, StepwiseExists
<1>3. DOMAIN s = 1 .. Len(s) /\ Len(s) \in Nat
  BY LenProperties
<1>4. ASSUME NEW d \in SUBSET DOMAIN s, d # {}
      PROVE  Max(d) \in d /\ s[Max(d)] \in T /\ d \ {Max(d)} \in SUBSET DOMAIN s
  <2>1. Max(d) \in d
    BY <1>3, <1>4, MaxOfPositions
  <2>. QED  BY <1>3, <2>1, ElementOfSeq
<1>5. \A d \in SUBSET DOMAIN s : d # {} =>
         SelectionStep(S, T)[<<f[d \ {Max(d)}], s[Max(d)]>>] = next(f[d \ {Max(d)}], s[Max(d)])
  BY <1>4 DEF SelectionStep
<1>. HIDE DEF next
<1>6. Iterates(f)
  BY <1>2, <1>5 DEF Stepwise
<1>7. Iterates(iter)
  <2>. HIDE DEF Iterates
  <2>. QED  BY <1>6
<1>8. Selected(s, S) = iter[DOMAIN s]
  BY DEF Selected, FoldLeft, MapThenFoldSet, next
<1>. HIDE DEF iter
<1>9. /\ iter[{}] = <<>>
      /\ \A d \in SUBSET DOMAIN s : d # {} => iter[d] = next(iter[d \ {Max(d)}], s[Max(d)])
  BY <1>7
<1>10. Follows(SelectionStep(S, T), <<>>, Seq(T), s, iter)
  BY <1>4, <1>9 DEF Follows, SelectionStep, next
<1>. QED  BY <1>1, <1>8, <1>10

SumStep == [p \in Nat \X Nat |-> p[1] + p[2]]

LEMMA SumFollows ==
  ASSUME NEW s \in Seq(Nat)
  PROVE  /\ SumStep \in [Nat \X Nat -> Nat] /\ 0 \in Nat
         /\ \E it : Follows(SumStep, 0, Nat, s, it) /\ SumOf(s) = it[DOMAIN s]
<1>. DEFINE next(acc, e) == acc + e
            Iterates(it) == it = [d \in SUBSET DOMAIN s |->
               IF d = {} THEN 0 ELSE next(it[d \ {Max(d)}], s[Max(d)])]
            iter == CHOOSE it : Iterates(it)
<1>1. SumStep \in [Nat \X Nat -> Nat] /\ 0 \in Nat
  BY DEF SumStep
<1>2. PICK f \in [SUBSET DOMAIN s -> Nat] : Stepwise(SumStep, 0, s, f)
  BY <1>1, StepwiseExists
<1>3. DOMAIN s = 1 .. Len(s) /\ Len(s) \in Nat
  BY LenProperties
<1>4. ASSUME NEW d \in SUBSET DOMAIN s, d # {}
      PROVE  Max(d) \in d /\ s[Max(d)] \in Nat /\ d \ {Max(d)} \in SUBSET DOMAIN s
  <2>1. Max(d) \in d
    BY <1>3, <1>4, MaxOfPositions
  <2>. QED  BY <1>3, <2>1, ElementOfSeq
<1>5. \A d \in SUBSET DOMAIN s : d # {} =>
         SumStep[<<f[d \ {Max(d)}], s[Max(d)]>>] = next(f[d \ {Max(d)}], s[Max(d)])
  BY <1>4 DEF SumStep
<1>. HIDE DEF next
<1>6. Iterates(f)
  BY <1>2, <1>5 DEF Stepwise
<1>7. Iterates(iter)
  <2>. HIDE DEF Iterates
  <2>. QED  BY <1>6
<1>8. SumOf(s) = iter[DOMAIN s]
  BY DEF SumOf, FoldLeft, MapThenFoldSet, next
<1>. HIDE DEF iter
<1>9. /\ iter[{}] = 0
      /\ \A d \in SUBSET DOMAIN s : d # {} => iter[d] = next(iter[d \ {Max(d)}], s[Max(d)])
  BY <1>7
<1>10. Follows(SumStep, 0, Nat, s, iter)
  BY <1>4, <1>9 DEF Follows, SumStep, next
<1>. QED  BY <1>1, <1>8, <1>10

JoinStep(T) == [p \in Seq(T) \X Seq(T) |-> p[1] \o p[2]]

LEMMA JoinedFollows ==
  ASSUME NEW T, NEW s \in Seq(Seq(T))
  PROVE  /\ JoinStep(T) \in [Seq(T) \X Seq(T) -> Seq(T)] /\ <<>> \in Seq(T)
         /\ \E it : Follows(JoinStep(T), <<>>, Seq(T), s, it) /\ Joined(s) = it[DOMAIN s]
<1>. DEFINE next(acc, e) == acc \o e
            Iterates(it) == it = [d \in SUBSET DOMAIN s |->
               IF d = {} THEN <<>> ELSE next(it[d \ {Max(d)}], s[Max(d)])]
            iter == CHOOSE it : Iterates(it)
<1>1. JoinStep(T) \in [Seq(T) \X Seq(T) -> Seq(T)] /\ <<>> \in Seq(T)
  <2>1. \A p \in Seq(T) \X Seq(T) : p[1] \o p[2] \in Seq(T)
    BY ConcatProperties
  <2>. QED  BY <2>1, EmptySeq DEF JoinStep
<1>2. PICK f \in [SUBSET DOMAIN s -> Seq(T)] : Stepwise(JoinStep(T), <<>>, s, f)
  BY <1>1, StepwiseExists
<1>3. DOMAIN s = 1 .. Len(s) /\ Len(s) \in Nat
  BY LenProperties
<1>4. ASSUME NEW d \in SUBSET DOMAIN s, d # {}
      PROVE  Max(d) \in d /\ s[Max(d)] \in Seq(T) /\ d \ {Max(d)} \in SUBSET DOMAIN s
  <2>1. Max(d) \in d
    BY <1>3, <1>4, MaxOfPositions
  <2>. QED  BY <1>3, <2>1, ElementOfSeq
<1>5. \A d \in SUBSET DOMAIN s : d # {} =>
         JoinStep(T)[<<f[d \ {Max(d)}], s[Max(d)]>>] = next(f[d \ {Max(d)}], s[Max(d)])
  BY <1>4 DEF JoinStep
<1>. HIDE DEF next
<1>6. Iterates(f)
  BY <1>2, <1>5 DEF Stepwise
<1>7. Iterates(iter)
  <2>. HIDE DEF Iterates
  <2>. QED  BY <1>6
<1>8. Joined(s) = iter[DOMAIN s]
  BY DEF Joined, FoldLeft, MapThenFoldSet, next
<1>. HIDE DEF iter
<1>9. /\ iter[{}] = <<>>
      /\ \A d \in SUBSET DOMAIN s : d # {} => iter[d] = next(iter[d \ {Max(d)}], s[Max(d)])
  BY <1>7
<1>10. Follows(JoinStep(T), <<>>, Seq(T), s, iter)
  BY <1>4, <1>9 DEF Follows, JoinStep, next
<1>. QED  BY <1>1, <1>8, <1>10

(* So each of the three is computed by steps.                               *)
LEMMA SelectedSteps ==
  ASSUME NEW S, NEW T
  PROVE  /\ Selected(Empty, S) = Empty
         /\ \A s \in Seq(T) : Selected(s, S) \in Seq(T)
         /\ \A s \in Seq(T) : \A c \in T :
              Selected(Add(s, c), S) = IF c \in S THEN Add(Selected(s, S), c) ELSE Selected(s, S)
<1>. DEFINE F == [s \in Seq(T) |-> Selected(s, S)]
            step == SelectionStep(S, T)
<1>1. FollowsAlong(step, <<>>, Seq(T), T, F)
  <2>1. <<>> \in Seq(T)
    BY EmptySeq
  <2>. QED  BY <2>1, SelectedFollows, ZenonT(60) DEF FollowsAlong
<1>2. /\ F[Empty] = <<>>
      /\ \A s \in Seq(T) : F[s] \in Seq(T)
      /\ \A s \in Seq(T) : \A c \in T : F[Add(s, c)] = step[<<F[s], c>>]
  <2>. HIDE DEF F, step
  <2>. QED  BY <1>1, FollowedSteps
<1>3. Empty \in Seq(T) /\ \A s \in Seq(T) : \A c \in T : Add(s, c) \in Seq(T)
  BY EmptySeq, AppendProperties DEF Empty, Add
<1>4. \A s \in Seq(T) : \A c \in T : step[<<F[s], c>>] = IF c \in S THEN Add(F[s], c) ELSE F[s]
  <2>. HIDE DEF F
  <2>. QED  BY <1>2 DEF SelectionStep, Add
<1>5. \A s \in Seq(T) : F[s] = Selected(s, S)
  OBVIOUS
<1>. HIDE DEF F, step
<1>. QED  BY <1>2, <1>3, <1>4, <1>5, ZenonT(60) DEF Empty

LEMMA SumSteps ==
  /\ SumOf(Empty) = 0
  /\ \A s \in Seq(Nat) : SumOf(s) \in Nat
  /\ \A s \in Seq(Nat) : \A c \in Nat : SumOf(Add(s, c)) = SumOf(s) + c
<1>. DEFINE F == [s \in Seq(Nat) |-> SumOf(s)]
<1>1. FollowsAlong(SumStep, 0, Nat, Nat, F)
  <2>1. <<>> \in Seq(Nat)
    BY EmptySeq
  <2>. QED  BY <2>1, SumFollows DEF FollowsAlong
<1>2. /\ F[Empty] = 0
      /\ \A s \in Seq(Nat) : F[s] \in Nat
      /\ \A s \in Seq(Nat) : \A c \in Nat : F[Add(s, c)] = SumStep[<<F[s], c>>]
  <2>. HIDE DEF F
  <2>. QED  BY <1>1, FollowedSteps
<1>3. Empty \in Seq(Nat) /\ \A s \in Seq(Nat) : \A c \in Nat : Add(s, c) \in Seq(Nat)
  BY EmptySeq, AppendProperties DEF Empty, Add
<1>4. \A s \in Seq(Nat) : \A c \in Nat : SumStep[<<F[s], c>>] = F[s] + c
  <2>. HIDE DEF F
  <2>. QED  BY <1>2 DEF SumStep
<1>5. \A s \in Seq(Nat) : F[s] = SumOf(s)
  OBVIOUS
<1>. HIDE DEF F
<1>. QED  BY <1>2, <1>3, <1>4, <1>5, ZenonT(60)

(* What the logs of one more handler add to the joined log.                 *)
LEMMA JoinedSteps ==
  ASSUME NEW T
  PROVE  /\ Joined(Empty) = Empty
         /\ \A ss \in Seq(Seq(T)) : Joined(ss) \in Seq(T)
         /\ \A ss \in Seq(Seq(T)) : \A u \in Seq(T) : Joined(Add(ss, u)) = Cat(Joined(ss), u)
<1>. DEFINE F == [s \in Seq(Seq(T)) |-> Joined(s)]
            step == JoinStep(T)
<1>1. FollowsAlong(step, <<>>, Seq(T), Seq(T), F)
  <2>1. <<>> \in Seq(Seq(T))
    BY EmptySeq
  <2>. QED  BY <2>1, JoinedFollows DEF FollowsAlong
<1>2. /\ F[Empty] = <<>>
      /\ \A s \in Seq(Seq(T)) : F[s] \in Seq(T)
      /\ \A s \in Seq(Seq(T)) : \A c \in Seq(T) : F[Add(s, c)] = step[<<F[s], c>>]
  <2>. HIDE DEF F, step
  <2>. QED  BY <1>1, FollowedSteps
<1>3. Empty \in Seq(Seq(T)) /\ \A s \in Seq(Seq(T)) : \A c \in Seq(T) : Add(s, c) \in Seq(Seq(T))
  BY EmptySeq, AppendProperties DEF Empty, Add
<1>4. \A s \in Seq(Seq(T)) : \A c \in Seq(T) : step[<<F[s], c>>] = Cat(F[s], c)
  <2>. HIDE DEF F
  <2>. QED  BY <1>2 DEF JoinStep, Cat
<1>5. \A s \in Seq(Seq(T)) : F[s] = Joined(s)
  OBVIOUS
<1>. HIDE DEF F, step
<1>. QED  BY <1>2, <1>3, <1>4, <1>5, ZenonT(60) DEF Empty

(* What the reports do with sequences, by steps.                            *)
LEMMA SequenceOperations ==
  ASSUME NEW T
  PROVE  /\ Empty \in Seq(T) /\ Len(Empty) = 0 /\ Range(Empty) = {}
         /\ \A s \in Seq(T) : \A c \in T :
              /\ Add(s, c) \in Seq(T) /\ Len(Add(s, c)) = Len(s) + 1 /\ Range(Add(s, c)) = Range(s) \cup {c}
         /\ \A s \in Seq(T) : Cat(s, Empty) = s /\ Len(s) \in Nat /\ Range(s) \subseteq T
         /\ \A s, u \in Seq(T) : Cat(s, u) \in Seq(T)
         /\ \A s, u \in Seq(T) : \A c \in T : Cat(s, Add(u, c)) = Add(Cat(s, u), c)
<1>1. Empty \in Seq(T) /\ Len(Empty) = 0 /\ Range(Empty) = {}
  BY DEF Empty, Range
<1>2. ASSUME NEW s \in Seq(T), NEW c \in T
      PROVE  Add(s, c) \in Seq(T) /\ Len(Add(s, c)) = Len(s) + 1 /\ Range(Add(s, c)) = Range(s) \cup {c}
  <2>1. PICK len \in Nat : len = Len(s) /\ DOMAIN s = 1 .. len
    BY LenProperties
  <2>2. /\ Append(s, c) \in Seq(T) /\ Len(Append(s, c)) = len + 1
        /\ DOMAIN Append(s, c) = 1 .. len + 1 /\ Append(s, c)[len + 1] = c
        /\ \A i \in 1 .. len : Append(s, c)[i] = s[i]
    BY <2>1, LenProperties, AppendProperties
  <2>3. PICK u : u = Append(s, c)
    OBVIOUS
  <2>4. 1 .. len + 1 = (1 .. len) \cup {len + 1}
    OBVIOUS
  <2>5. {u[i] : i \in 1 .. len + 1} = {s[i] : i \in 1 .. len} \cup {c}
    BY <2>2, <2>3, <2>4
  <2>. QED  BY <2>1, <2>2, <2>3, <2>5 DEF Range, Add
<1>3. ASSUME NEW s \in Seq(T) PROVE Cat(s, Empty) = s /\ Len(s) \in Nat /\ Range(s) \subseteq T
  BY ConcatEmptySeq, LenProperties, ElementOfSeq DEF Empty, Cat, Range
<1>4. ASSUME NEW s \in Seq(T), NEW u \in Seq(T) PROVE Cat(s, u) \in Seq(T)
  BY DEF Cat
<1>5. ASSUME NEW s \in Seq(T), NEW u \in Seq(T), NEW c \in T
      PROVE  Cat(s, Add(u, c)) = Add(Cat(s, u), c)
  BY DEF Add, Cat
<1>. QED  BY <1>1, <1>2, <1>3, <1>4, <1>5

(* Induction over sequences.                                                *)
LEMMA BySteps ==
  ASSUME NEW T, NEW I, Empty \in I, \A s \in Seq(T) : \A c \in T : s \in I => Add(s, c) \in I
  PROVE  Seq(T) \subseteq I
BY SequencesBySteps DEF Empty, Add

LEMMA SelectedStep ==
  ASSUME NEW T, NEW S, NEW s \in Seq(T), NEW c \in T
  PROVE  Selected(Add(s, c), S) = IF c \in S THEN Add(Selected(s, S), c) ELSE Selected(s, S)
<1>1. \A u \in Seq(T) : \A d \in T :
        Selected(Add(u, d), S) = IF d \in S THEN Add(Selected(u, S), d) ELSE Selected(u, S)
  BY SelectedSteps, Zenon
<1>. QED  BY <1>1

LEMMA SelectedType ==
  ASSUME NEW T, NEW S, NEW s \in Seq(T)
  PROVE  Selected(s, S) \in Seq(T)
BY SelectedSteps

(* A selection has the elements that it should have, and no others.         *)
LEMMA SelectedRange ==
  ASSUME NEW T, NEW S, NEW s \in Seq(T)
  PROVE  Range(Selected(s, S)) = Range(s) \cap S
<1>. DEFINE I == {u \in Seq(T) : Range(Selected(u, S)) = Range(u) \cap S}
<1>1. Empty \in I
  BY SelectedSteps, SequenceOperations
<1>2. ASSUME NEW u \in Seq(T), NEW c \in T, u \in I
      PROVE  Add(u, c) \in I
  <2>1. PICK v \in Seq(T) : v = Selected(u, S) /\ Selected(Add(u, c), S) = IF c \in S THEN Add(v, c) ELSE v
    BY SelectedStep, SelectedType
  <2>2. Range(Add(u, c)) = Range(u) \cup {c} /\ Add(u, c) \in Seq(T)
    BY SequenceOperations
  <2>3. Range(Add(v, c)) = Range(v) \cup {c}
    BY SequenceOperations
  <2>. QED  BY <1>2, <2>1, <2>2, <2>3
<1>. HIDE DEF I
<1>3. Seq(T) \subseteq I
  BY <1>1, <1>2, BySteps
<1>. QED  BY <1>3 DEF I

(* Nothing else about the set that is selected from matters.                *)
LEMMA SelectedAgree ==
  ASSUME NEW T, NEW S, NEW R, NEW s \in Seq(T), Range(s) \cap S = Range(s) \cap R
  PROVE  Selected(s, S) = Selected(s, R)
<1>. DEFINE Agree(u) == Range(u) \cap S = Range(u) \cap R
            I == {u \in Seq(T) : Agree(u) => Selected(u, S) = Selected(u, R)}
<1>1. Empty \in I
  BY SelectedSteps, SequenceOperations
<1>2. ASSUME NEW u \in Seq(T), NEW c \in T, u \in I
      PROVE  Add(u, c) \in I
  <2>1. Range(Add(u, c)) = Range(u) \cup {c} /\ Add(u, c) \in Seq(T)
    BY SequenceOperations
  <2>2. Agree(Add(u, c)) => Agree(u) /\ (c \in S <=> c \in R)
    BY <2>1
  <2>3. Selected(Add(u, c), S) = IF c \in S THEN Add(Selected(u, S), c) ELSE Selected(u, S)
    BY SelectedStep, SelectedType
  <2>4. Selected(Add(u, c), R) = IF c \in R THEN Add(Selected(u, R), c) ELSE Selected(u, R)
    BY SelectedStep, SelectedType
  <2>. HIDE DEF Agree
  <2>. QED  BY <1>2, <2>1, <2>2, <2>3, <2>4
<1>. HIDE DEF I
<1>3. Seq(T) \subseteq I
  BY <1>1, <1>2, BySteps
<1>. QED  BY <1>3 DEF I

(* All elements are selected, or none.                                      *)
LEMMA SelectedAllOrNone ==
  ASSUME NEW T, NEW S, NEW s \in Seq(T)
  PROVE  /\ Range(s) \subseteq S => Selected(s, S) = s
         /\ Range(s) \cap S = {} => Selected(s, S) = Empty
<1>. DEFINE I == {u \in Seq(T) : /\ Range(u) \subseteq S => Selected(u, S) = u
                                 /\ Range(u) \cap S = {} => Selected(u, S) = Empty}
<1>1. Empty \in I
  BY SelectedSteps, SequenceOperations
<1>2. ASSUME NEW u \in Seq(T), NEW c \in T, u \in I
      PROVE  Add(u, c) \in I
  <2>1. Range(Add(u, c)) = Range(u) \cup {c} /\ Add(u, c) \in Seq(T)
    BY SequenceOperations
  <2>2. Selected(Add(u, c), S) = IF c \in S THEN Add(Selected(u, S), c) ELSE Selected(u, S)
    BY SelectedStep, SelectedType
  <2>. QED  BY <1>2, <2>1, <2>2
<1>. HIDE DEF I
<1>3. Seq(T) \subseteq I
  BY <1>1, <1>2, BySteps
<1>. QED  BY <1>3 DEF I

(* More is selected from more.                                              *)
LEMMA SelectedMore ==
  ASSUME NEW T, NEW S, NEW R, NEW s \in Seq(T), Range(s) \cap S \subseteq R
  PROVE  Len(Selected(s, S)) <= Len(Selected(s, R))
<1>. DEFINE I == {u \in Seq(T) : Range(u) \cap S \subseteq R => Len(Selected(u, S)) <= Len(Selected(u, R))}
<1>1. Empty \in I
  BY SelectedSteps, SequenceOperations
<1>2. ASSUME NEW u \in Seq(T), NEW c \in T, u \in I
      PROVE  Add(u, c) \in I
  <2>1. Range(Add(u, c)) = Range(u) \cup {c} /\ Add(u, c) \in Seq(T)
    BY SequenceOperations
  <2>2. PICK v \in Seq(T) : v = Selected(u, S) /\ Selected(Add(u, c), S) = IF c \in S THEN Add(v, c) ELSE v
    BY SelectedStep, SelectedType
  <2>3. PICK w \in Seq(T) : w = Selected(u, R) /\ Selected(Add(u, c), R) = IF c \in R THEN Add(w, c) ELSE w
    BY SelectedStep, SelectedType
  <2>4. Len(v) \in Nat /\ Len(w) \in Nat /\ Len(Add(v, c)) = Len(v) + 1 /\ Len(Add(w, c)) = Len(w) + 1
    BY SequenceOperations
  <2>5. ASSUME Range(Add(u, c)) \cap S \subseteq R
        PROVE  Len(v) <= Len(w) /\ (c \in S => c \in R)
    BY <1>2, <2>1, <2>2, <2>3, <2>5
  <2>. QED  BY <2>1, <2>2, <2>3, <2>4, <2>5
<1>. HIDE DEF I
<1>3. Seq(T) \subseteq I
  BY <1>1, <1>2, BySteps
<1>. QED  BY <1>3 DEF I

(* A selection from two sequences, and a sum over them.                     *)
LEMMA SelectedCat ==
  ASSUME NEW T, NEW S, NEW s \in Seq(T), NEW t \in Seq(T)
  PROVE  Selected(Cat(s, t), S) = Cat(Selected(s, S), Selected(t, S))
<1>. DEFINE I == {u \in Seq(T) : Selected(Cat(s, u), S) = Cat(Selected(s, S), Selected(u, S))}
<1>1. Empty \in I
  BY SelectedSteps, SequenceOperations
<1>2. ASSUME NEW u \in Seq(T), NEW c \in T, u \in I
      PROVE  Add(u, c) \in I
  <2>1. Cat(s, Add(u, c)) = Add(Cat(s, u), c) /\ Cat(s, u) \in Seq(T) /\ Add(u, c) \in Seq(T)
    BY SequenceOperations
  <2>2. PICK v \in Seq(T) : v = Selected(u, S) /\ Selected(Add(u, c), S) = IF c \in S THEN Add(v, c) ELSE v
    BY SelectedStep, SelectedType
  <2>3. PICK w \in Seq(T) : w = Selected(s, S)
    BY SelectedStep, SelectedType
  <2>4. Selected(Add(Cat(s, u), c), S) = IF c \in S THEN Add(Cat(w, v), c) ELSE Cat(w, v)
    BY <1>2, <2>1, <2>2, <2>3, SelectedStep
  <2>5. Cat(w, Add(v, c)) = Add(Cat(w, v), c)
    BY SequenceOperations
  <2>. QED  BY <2>1, <2>2, <2>3, <2>4, <2>5
<1>. HIDE DEF I
<1>3. Seq(T) \subseteq I
  BY <1>1, <1>2, BySteps
<1>. QED  BY <1>3 DEF I

(* A sum over two sequences.                                                *)
LEMMA SumCat ==
  ASSUME NEW s \in Seq(Nat), NEW t \in Seq(Nat)
  PROVE  SumOf(Cat(s, t)) = SumOf(s) + SumOf(t)
<1>. DEFINE I == {u \in Seq(Nat) : SumOf(Cat(s, u)) = SumOf(s) + SumOf(u)}
<1>1. Empty \in I
  BY SumSteps, SequenceOperations
<1>2. ASSUME NEW u \in Seq(Nat), NEW c \in Nat, u \in I
      PROVE  Add(u, c) \in I
  <2>1. Cat(s, Add(u, c)) = Add(Cat(s, u), c) /\ Cat(s, u) \in Seq(Nat) /\ Add(u, c) \in Seq(Nat)
    BY SequenceOperations
  <2>2. PICK x, y, z \in Nat : x = SumOf(s) /\ y = SumOf(u) /\ z = SumOf(Cat(s, u))
    BY <2>1, SumSteps
  <2>3. SumOf(Add(u, c)) = y + c /\ SumOf(Add(Cat(s, u), c)) = z + c
    BY <2>1, <2>2, SumSteps
  <2>. QED  BY <1>2, <2>1, <2>2, <2>3
<1>. HIDE DEF I
<1>3. Seq(Nat) \subseteq I
  BY <1>1, <1>2, BySteps
<1>. QED  BY <1>3 DEF I

(* The elements of two sequences.                                           *)
LEMMA RangeOfCat ==
  ASSUME NEW T, NEW s \in Seq(T), NEW t \in Seq(T)
  PROVE  Range(Cat(s, t)) = Range(s) \cup Range(t)
<1>. DEFINE J == {u \in Seq(T) : Range(Cat(s, u)) = Range(s) \cup Range(u)}
<1>1. Empty \in J
  <2>1. Range(Empty) = {} /\ Empty \in Seq(T) /\ Cat(s, Empty) = s
    BY SequenceOperations
  <2>. QED  BY <2>1
<1>2. ASSUME NEW u \in Seq(T), NEW c \in T, u \in J
      PROVE  Add(u, c) \in J
  <2>1. /\ Cat(s, Add(u, c)) = Add(Cat(s, u), c) /\ Cat(s, u) \in Seq(T) /\ Add(u, c) \in Seq(T)
        /\ Range(Add(u, c)) = Range(u) \cup {c}
    BY SequenceOperations
  <2>2. Range(Add(Cat(s, u), c)) = Range(Cat(s, u)) \cup {c}
    BY <2>1, SequenceOperations
  <2>. QED  BY <1>2, <2>1, <2>2
<1>. HIDE DEF J
<1>3. Seq(T) \subseteq J
  BY <1>1, <1>2, BySteps
<1>. QED  BY <1>3 DEF J

(* What is joined has the elements of all.                                  *)
LEMMA JoinedRange ==
  ASSUME NEW T, NEW ss \in Seq(Seq(T))
  PROVE  Range(Joined(ss)) = UNION {Range(u) : u \in Range(ss)}
<1>. DEFINE I == {vs \in Seq(Seq(T)) : Range(Joined(vs)) = UNION {Range(u) : u \in Range(vs)}}
<1>1. Empty \in I
  <2>1. Joined(Empty) = Empty /\ Range(Empty) = {} /\ Empty \in Seq(Seq(T))
    BY JoinedSteps, SequenceOperations
  <2>. QED  BY <2>1
<1>2. ASSUME NEW vs \in Seq(Seq(T)), NEW t \in Seq(T), vs \in I
      PROVE  Add(vs, t) \in I
  <2>1. Joined(Add(vs, t)) = Cat(Joined(vs), t) /\ Joined(vs) \in Seq(T)
    BY JoinedSteps
  <2>2. Range(Add(vs, t)) = Range(vs) \cup {t} /\ Add(vs, t) \in Seq(Seq(T))
    BY SequenceOperations
  <2>3. Range(Cat(Joined(vs), t)) = Range(Joined(vs)) \cup Range(t)
    BY <2>1, RangeOfCat
  <2>. QED  BY <1>2, <2>1, <2>2, <2>3
<1>. HIDE DEF I
<1>3. Seq(Seq(T)) \subseteq I
  BY <1>1, <1>2, BySteps
<1>. QED  BY <1>3 DEF I

(* A sequence without repetitions has as many elements as its length.       *)
LEMMA DistinctLength ==
  ASSUME NEW T, NEW s \in Seq(T), Distinct(s)
  PROVE  IsFiniteSet(Range(s)) /\ Cardinality(Range(s)) = Len(s)
<1>1. DOMAIN s = 1 .. Len(s) /\ Len(s) \in Nat
  BY LenProperties
<1>2. IsFiniteSet(1 .. Len(s)) /\ Cardinality(1 .. Len(s)) = Len(s)
  <2>1. IsFiniteSet(1 .. Len(s)) /\ Cardinality(1 .. Len(s)) = IF 1 > Len(s) THEN 0 ELSE Len(s) - 1 + 1
    BY <1>1, FS_Interval, SMTT(60)
  <2>. QED  BY <1>1, <2>1
<1>3. ExistsBijection(1 .. Len(s), Range(s))
  <2>. DEFINE f == [k \in 1 .. Len(s) |-> s[k]]
  <2>1. f \in Bijection(1 .. Len(s), Range(s))
    BY <1>1 DEF Bijection, Injection, Surjection, IsInjective, Range, Distinct
  <2>. QED  BY <2>1 DEF ExistsBijection
<1>. QED  BY <1>2, <1>3, FS_Bijection

(* The function of each element, first for one more and then for two        *)
(* sequences.                                                               *)
Mapped(f, s) == [k \in DOMAIN s |-> f[s[k]]]
Maps(f, T, U) == f \in [T -> U]

(* A sequence of values is built along with the sequence.                   *)
LEMMA MappedSteps ==
  ASSUME NEW T, NEW U, NEW f, Maps(f, T, U), NEW s \in Seq(T)
  PROVE  /\ Mapped(f, Empty) = Empty
         /\ Mapped(f, s) \in Seq(U) /\ Len(Mapped(f, s)) = Len(s) /\ DOMAIN Mapped(f, s) = DOMAIN s
         /\ \A c \in T : Mapped(f, Add(s, c)) = Add(Mapped(f, s), f[c])
<1>1. Mapped(f, Empty) = Empty
  <2>1. DOMAIN Mapped(f, <<>>) = {}
    BY DEF Mapped
  <2>2. Mapped(f, <<>>) = [k \in 1 .. 0 |-> f[<<>>[k]]]
    BY DEF Mapped
  <2>3. PICK m : m = Mapped(f, <<>>)
    OBVIOUS
  <2>4. \A i \in 1 .. 0 : f[<<>>[i]] \in U
    OBVIOUS
  <2>5. m \in Seq(U) /\ Len(m) = 0
    <3>1. m = [k \in 1 .. 0 |-> f[<<>>[k]]]
      BY <2>2, <2>3
    <3>2. m \in [1 .. 0 -> U]
      BY <2>4, <3>1
    <3>. QED  BY <3>1, <3>2, IsASeq, LenProperties
  <2>. QED  BY <2>3, <2>5, EmptySeq DEF Empty
<1>2. PICK len \in Nat : len = Len(s) /\ DOMAIN s = 1 .. len /\ \A i \in 1 .. len : s[i] \in T
  BY LenProperties, ElementOfSeq
<1>3. PICK m : m = Mapped(f, s)
  OBVIOUS
<1>4. m \in Seq(U) /\ Len(m) = len /\ DOMAIN m = 1 .. len /\ \A i \in 1 .. len : m[i] = f[s[i]]
  <2>1. m = [i \in 1 .. len |-> f[s[i]]] /\ \A i \in 1 .. len : f[s[i]] \in U
    BY <1>2, <1>3 DEF Mapped, Maps
  <2>. QED  BY <2>1
<1>5. ASSUME NEW c \in T
      PROVE  Mapped(f, Append(s, c)) = Append(m, f[c])
  <2>1. /\ Append(s, c) \in Seq(T) /\ DOMAIN Append(s, c) = 1 .. len + 1 /\ Append(s, c)[len + 1] = c
        /\ \A i \in 1 .. len : Append(s, c)[i] = s[i]
    BY <1>2, LenProperties, AppendProperties
  <2>2. PICK u : u = Append(s, c)
    OBVIOUS
  <2>3. Mapped(f, u) = [i \in 1 .. len + 1 |-> f[u[i]]] /\ \A i \in 1 .. len + 1 : f[u[i]] \in U
    BY <1>2, <2>1, <2>2 DEF Mapped, Maps
  <2>4. Mapped(f, u) \in Seq(U) /\ Len(Mapped(f, u)) = len + 1
    BY <2>3
  <2>5. f[c] \in U /\ Append(m, f[c]) \in Seq(U) /\ Len(Append(m, f[c])) = len + 1
    BY <1>4, AppendProperties DEF Maps
  <2>6. \A i \in 1 .. len + 1 : Mapped(f, u)[i] = Append(m, f[c])[i]
    BY <1>4, <2>1, <2>2, <2>3, <2>5, AppendProperties
  <2>. QED  BY <2>2, <2>4, <2>5, <2>6, SeqEqual
<1>. QED  BY <1>1, <1>2, <1>3, <1>4, <1>5 DEF Add

(* The values of two sequences.                                             *)
LEMMA MappedCat ==
  ASSUME NEW T, NEW U, NEW f, Maps(f, T, U), NEW s \in Seq(T), NEW t \in Seq(T)
  PROVE  Mapped(f, Cat(s, t)) = Cat(Mapped(f, s), Mapped(f, t))
<1>. DEFINE I == {u \in Seq(T) : Mapped(f, Cat(s, u)) = Cat(Mapped(f, s), Mapped(f, u))}
<1>1. Empty \in I
  <2>1. Mapped(f, Empty) = Empty /\ Mapped(f, s) \in Seq(U)
    BY MappedSteps
  <2>2. Empty \in Seq(T) /\ Cat(s, Empty) = s
    BY SequenceOperations
  <2>3. Cat(Mapped(f, s), Empty) = Mapped(f, s)
    BY <2>1, SequenceOperations
  <2>. QED  BY <2>1, <2>2, <2>3
<1>2. ASSUME NEW u \in Seq(T), NEW c \in T, u \in I
      PROVE  Add(u, c) \in I
  <2>1. Cat(s, Add(u, c)) = Add(Cat(s, u), c) /\ Cat(s, u) \in Seq(T) /\ Add(u, c) \in Seq(T)
    BY SequenceOperations
  <2>2. Mapped(f, Add(u, c)) = Add(Mapped(f, u), f[c]) /\ Mapped(f, u) \in Seq(U)
    BY MappedSteps
  <2>3. Mapped(f, Add(Cat(s, u), c)) = Add(Mapped(f, Cat(s, u)), f[c]) /\ Mapped(f, s) \in Seq(U)
    BY <2>1, MappedSteps
  <2>4. Cat(Mapped(f, s), Add(Mapped(f, u), f[c])) = Add(Cat(Mapped(f, s), Mapped(f, u)), f[c])
    <3>1. PICK a, b \in Seq(U), d \in U : a = Mapped(f, s) /\ b = Mapped(f, u) /\ d = f[c]
      BY <2>2, <2>3 DEF Maps
    <3>2. Cat(a, Add(b, d)) = Add(Cat(a, b), d)
      BY SequenceOperations
    <3>. QED  BY <3>1, <3>2
  <2>. QED  BY <1>2, <2>1, <2>2, <2>3, <2>4
<1>. HIDE DEF I
<1>3. Seq(T) \subseteq I
  BY <1>1, <1>2, BySteps
<1>. QED  BY <1>3 DEF I

LEMMA LenOfCat ==
  ASSUME NEW T, NEW s \in Seq(T), NEW t \in Seq(T)
  PROVE  Len(Cat(s, t)) = Len(s) + Len(t)
BY ConcatProperties DEF Cat

LEMMA JoinedStep ==
  ASSUME NEW H, NEW T, NEW logs, Maps(logs, H, Seq(T)), NEW hs \in Seq(H), NEW h \in H
  PROVE  /\ Joined(Mapped(logs, Empty)) = Empty
         /\ Joined(Mapped(logs, hs)) \in Seq(T)
         /\ Joined(Mapped(logs, Add(hs, h))) = Cat(Joined(Mapped(logs, hs)), logs[h])
<1>1. Mapped(logs, Empty) = Empty /\ Mapped(logs, hs) \in Seq(Seq(T))
      /\ Mapped(logs, Add(hs, h)) = Add(Mapped(logs, hs), logs[h])
  BY MappedSteps
<1>2. Joined(Empty) = Empty
  BY JoinedSteps
<1>3. PICK ms \in Seq(Seq(T)), u \in Seq(T) : ms = Mapped(logs, hs) /\ u = logs[h]
  BY <1>1 DEF Maps
<1>4. Joined(ms) \in Seq(T) /\ Joined(Add(ms, u)) = Cat(Joined(ms), u)
  BY JoinedSteps
<1>. QED  BY <1>1, <1>2, <1>3, <1>4

(* Counts and sums of what is joined are the sums of those of the parts.    *)
LEMMA CountsAddUp ==
  ASSUME NEW H, NEW T, NEW S, NEW logs, Maps(logs, H, Seq(T)), NEW hs \in Seq(H),
         NEW count, Maps(count, H, Nat), \A h \in H : count[h] = Len(Selected(logs[h], S))
  PROVE  Len(Selected(Joined(Mapped(logs, hs)), S)) = SumOf(Mapped(count, hs))
<1>. DEFINE I == {us \in Seq(H) : Len(Selected(Joined(Mapped(logs, us)), S)) = SumOf(Mapped(count, us))}
<1>1. Empty \in I
  <2>1. Mapped(logs, Empty) = Empty /\ Mapped(count, Empty) = Empty /\ Empty \in Seq(H)
    BY MappedSteps, SequenceOperations
  <2>2. Joined(Empty) = Empty /\ SumOf(Empty) = 0 /\ Selected(Empty, S) = Empty /\ Len(Empty) = 0
    BY JoinedSteps, SumSteps, SelectedSteps DEF Empty
  <2>. QED  BY <2>1, <2>2
<1>2. ASSUME NEW us \in Seq(H), NEW h \in H, us \in I
      PROVE  Add(us, h) \in I
  <2>1. PICK j \in Seq(T) : j = Joined(Mapped(logs, us)) /\ Joined(Mapped(logs, Add(us, h))) = Cat(j, logs[h])
    BY JoinedStep
  <2>. PICK log \in Seq(T) : log = logs[h]
    BY DEF Maps
  <2>2. Selected(Cat(j, logs[h]), S) = Cat(Selected(j, S), Selected(logs[h], S))
    BY SelectedCat
  <2>3. Selected(j, S) \in Seq(T) /\ Selected(logs[h], S) \in Seq(T)
    BY SelectedType
  <2>4. Len(Cat(Selected(j, S), Selected(logs[h], S))) = Len(Selected(j, S)) + Len(Selected(logs[h], S))
    BY <2>3, LenOfCat
  <2>5. Mapped(count, us) \in Seq(Nat) /\ Mapped(count, Add(us, h)) = Add(Mapped(count, us), count[h])
    BY MappedSteps
  <2>6. count[h] \in Nat /\ count[h] = Len(Selected(logs[h], S)) /\ logs[h] \in Seq(T)
    BY DEF Maps
  <2>7. SumOf(Add(Mapped(count, us), count[h])) = SumOf(Mapped(count, us)) + count[h]
    BY <2>5, <2>6, SumSteps
  <2>8. Add(us, h) \in Seq(H)
    BY SequenceOperations
  <2>. QED  BY <1>2, <2>1, <2>2, <2>4, <2>5, <2>6, <2>7, <2>8
<1>. HIDE DEF I
<1>3. Seq(H) \subseteq I
  BY <1>1, <1>2, BySteps
<1>. QED  BY <1>3 DEF I

LEMMA SumsAddUp ==
  ASSUME NEW H, NEW T, NEW val, Maps(val, T, Nat), NEW logs, Maps(logs, H, Seq(T)), NEW hs \in Seq(H),
         NEW sum, Maps(sum, H, Nat), \A h \in H : sum[h] = SumOf(Mapped(val, logs[h]))
  PROVE  SumOf(Mapped(val, Joined(Mapped(logs, hs)))) = SumOf(Mapped(sum, hs))
<1>. DEFINE I == {us \in Seq(H) : SumOf(Mapped(val, Joined(Mapped(logs, us)))) = SumOf(Mapped(sum, us))}
<1>1. Empty \in I
  <2>1. Mapped(logs, Empty) = Empty /\ Mapped(sum, Empty) = Empty /\ Empty \in Seq(H)
    BY MappedSteps, SequenceOperations
  <2>2. Empty \in Seq(T)
    BY SequenceOperations
  <2>3. Joined(Empty) = Empty /\ SumOf(Empty) = 0 /\ Mapped(val, Empty) = Empty
    BY <2>2, JoinedSteps, SumSteps, MappedSteps
  <2>. QED  BY <2>1, <2>3
<1>2. ASSUME NEW us \in Seq(H), NEW h \in H, us \in I
      PROVE  Add(us, h) \in I
  <2>1. PICK j \in Seq(T) : j = Joined(Mapped(logs, us)) /\ Joined(Mapped(logs, Add(us, h))) = Cat(j, logs[h])
    BY JoinedStep
  <2>. PICK log \in Seq(T) : log = logs[h]
    BY DEF Maps
  <2>2. Mapped(val, Cat(j, logs[h])) = Cat(Mapped(val, j), Mapped(val, logs[h]))
    BY MappedCat
  <2>3. Mapped(val, j) \in Seq(Nat) /\ Mapped(val, logs[h]) \in Seq(Nat)
    BY MappedSteps
  <2>4. SumOf(Cat(Mapped(val, j), Mapped(val, logs[h]))) = SumOf(Mapped(val, j)) + SumOf(Mapped(val, logs[h]))
    BY <2>3, SumCat
  <2>5. Mapped(sum, us) \in Seq(Nat) /\ Mapped(sum, Add(us, h)) = Add(Mapped(sum, us), sum[h])
    BY MappedSteps
  <2>6. sum[h] \in Nat /\ sum[h] = SumOf(Mapped(val, logs[h]))
    BY DEF Maps
  <2>7. SumOf(Add(Mapped(sum, us), sum[h])) = SumOf(Mapped(sum, us)) + sum[h]
    BY <2>5, <2>6, SumSteps
  <2>8. Add(us, h) \in Seq(H)
    BY SequenceOperations
  <2>. QED  BY <1>2, <2>1, <2>2, <2>4, <2>5, <2>6, <2>7, <2>8
<1>. HIDE DEF I
<1>3. Seq(H) \subseteq I
  BY <1>1, <1>2, BySteps
<1>. QED  BY <1>3 DEF I

(* Without repetitions, the last element is none of the others.             *)
LEMMA DistinctSteps ==
  ASSUME NEW T, NEW s \in Seq(T), NEW c \in T, Distinct(Add(s, c))
  PROVE  Distinct(s) /\ c \notin Range(s)
<1>1. PICK len \in Nat : len = Len(s) /\ DOMAIN s = 1 .. len
  BY LenProperties
<1>2. PICK u : u = Append(s, c)
  OBVIOUS
<1>3. DOMAIN u = 1 .. len + 1 /\ u[len + 1] = c /\ \A i \in 1 .. len : u[i] = s[i]
  BY <1>1, <1>2, LenProperties, AppendProperties
<1>4. \A j, k \in 1 .. len + 1 : u[j] = u[k] => j = k
  BY <1>2, <1>3 DEF Distinct, Add
<1>5. \A j, k \in 1 .. len : s[j] = s[k] => j = k
  BY <1>3, <1>4
<1>6. \A j \in 1 .. len : s[j] # c
  BY <1>3, <1>4
<1>. QED  BY <1>1, <1>5, <1>6 DEF Distinct, Range

(* The entries of all logs are as many as those of the joined log.          *)
Entries(logs, hs) == UNION {{h} \X Range(logs[h]) : h \in hs}

LEMMA EntriesCounted ==
  ASSUME NEW H, NEW T, NEW logs, Maps(logs, H, Seq(T)), \A h \in H : Distinct(logs[h]),
         NEW hs \in Seq(H), Distinct(hs)
  PROVE  Cardinality(Entries(logs, Range(hs))) = Len(Joined(Mapped(logs, hs)))
<1>. DEFINE Tally(us) == /\ IsFiniteSet(Entries(logs, Range(us)))
                           /\ Cardinality(Entries(logs, Range(us))) = Len(Joined(Mapped(logs, us)))
            I == {us \in Seq(H) : Distinct(us) => Tally(us)}
<1>1. Empty \in I
  <2>1. Mapped(logs, Empty) = Empty /\ Empty \in Seq(H) /\ Range(Empty) = {}
    BY MappedSteps, SequenceOperations
  <2>2. Joined(Empty) = Empty /\ Len(Empty) = 0
    BY JoinedSteps DEF Empty
  <2>3. Entries(logs, {}) = {}
    BY DEF Entries
  <2>. QED  BY <2>1, <2>2, <2>3, FS_EmptySet
<1>2. ASSUME NEW us \in Seq(H), NEW h \in H, us \in I
      PROVE  Add(us, h) \in I
  <2>1. Add(us, h) \in Seq(H) /\ Range(Add(us, h)) = Range(us) \cup {h}
    BY SequenceOperations
  <2>. SUFFICES ASSUME Distinct(Add(us, h))
                PROVE  Tally(Add(us, h))
    BY <2>1
  <2>2. Tally(us) /\ h \notin Range(us)
    BY <1>2, DistinctSteps
  <2>3. PICK j \in Seq(T) : j = Joined(Mapped(logs, us)) /\ Joined(Mapped(logs, Add(us, h))) = Cat(j, logs[h])
    BY JoinedStep
  <2>4. PICK old, new : old = Entries(logs, Range(us)) /\ new = {h} \X Range(logs[h])
    OBVIOUS
  <2>5. Entries(logs, Range(Add(us, h))) = old \cup new /\ old \cap new = {}
    BY <2>1, <2>2, <2>4 DEF Entries
  <2>6. IsFiniteSet(new) /\ Cardinality(new) = Len(logs[h])
    <3>1. PICK log \in Seq(T) : log = logs[h] /\ Distinct(log)
      BY DEF Maps
    <3>2. IsFiniteSet(Range(logs[h])) /\ Cardinality(Range(logs[h])) = Len(logs[h])
      BY <3>1, DistinctLength
    <3>3. IsFiniteSet({h}) /\ Cardinality({h}) = 1
      BY FS_Singleton
    <3>4. IsFiniteSet(new) /\ Cardinality(new) = 1 * Cardinality(Range(logs[h]))
      BY <2>4, <3>2, <3>3, FS_Product
    <3>5. Len(logs[h]) \in Nat
      BY <3>1, LenProperties
    <3>. QED  BY <3>2, <3>4, <3>5
  <2>7. /\ IsFiniteSet(old \cup new)
        /\ Cardinality(old \cup new) = Cardinality(old) + Cardinality(new) - Cardinality(old \cap new)
    BY <2>2, <2>4, <2>6, FS_Union
  <2>8. Len(Cat(j, logs[h])) = Len(j) + Len(logs[h]) /\ Len(j) \in Nat /\ Len(logs[h]) \in Nat
    <3>1. PICK log \in Seq(T) : log = logs[h]
      BY DEF Maps
    <3>. QED  BY <3>1, LenOfCat, LenProperties
  <2>9. Cardinality(old) = Len(j) /\ Cardinality(old \cap new) = 0
    BY <2>2, <2>3, <2>4, <2>5, FS_EmptySet
  <2>. QED  BY <2>3, <2>5, <2>6, <2>7, <2>8, <2>9
<1>. HIDE DEF I
<1>3. Seq(H) \subseteq I
  BY <1>1, <1>2, BySteps
<1>. QED  BY <1>3 DEF I

-----------------------------------------------------------------------------
(* A sequence over a set is one over a larger set.                          *)
LEMMA InLarger ==
  ASSUME NEW A, NEW B, A \subseteq B, NEW s \in Seq(A)
  PROVE  s \in Seq(B)
<1>1. PICK len \in Nat : len = Len(s) /\ DOMAIN s = 1 .. len /\ \A i \in 1 .. len : s[i] \in A
  BY LenProperties, ElementOfSeq
<1>2. s = [i \in 1 .. len |-> s[i]] /\ \A i \in 1 .. len : s[i] \in B
  BY <1>1, LenProperties
<1>. QED  BY <1>2

(* An element that is new repeats none.                                     *)
LEMMA DistinctAdd ==
  ASSUME NEW T, NEW s \in Seq(T), NEW c \in T, Distinct(s), c \notin Range(s)
  PROVE  Distinct(Add(s, c))
<1>1. PICK len \in Nat : len = Len(s) /\ DOMAIN s = 1 .. len
  BY LenProperties
<1>2. PICK u : u = Append(s, c)
  OBVIOUS
<1>3. DOMAIN u = 1 .. len + 1 /\ u[len + 1] = c /\ \A i \in 1 .. len : u[i] = s[i]
  BY <1>1, <1>2, LenProperties, AppendProperties
<1>4. \A j, k \in 1 .. len : s[j] = s[k] => j = k
  BY <1>1 DEF Distinct
<1>5. \A j \in 1 .. len : s[j] # c
  BY <1>1 DEF Range
<1>6. \A j, k \in 1 .. len + 1 : u[j] = u[k] => j = k
  BY <1>3, <1>4, <1>5
<1>. QED  BY <1>2, <1>3, <1>6 DEF Distinct, Add

(* A selection repeats nothing that its sequence does not.                  *)
LEMMA SelectedDistinct ==
  ASSUME NEW T, NEW S, NEW s \in Seq(T), Distinct(s)
  PROVE  Distinct(Selected(s, S))
<1>. DEFINE I == {u \in Seq(T) : Distinct(u) => Distinct(Selected(u, S))}
<1>1. Empty \in I
  BY SelectedSteps, SequenceOperations
<1>2. ASSUME NEW u \in Seq(T), NEW c \in T, u \in I
      PROVE  Add(u, c) \in I
  <2>1. Add(u, c) \in Seq(T)
    BY SequenceOperations
  <2>. SUFFICES ASSUME Distinct(Add(u, c))
                PROVE  Distinct(Selected(Add(u, c), S))
    BY <2>1
  <2>2. Distinct(u) /\ c \notin Range(u)
    BY DistinctSteps
  <2>3. PICK v \in Seq(T) : v = Selected(u, S) /\ Selected(Add(u, c), S) = IF c \in S THEN Add(v, c) ELSE v
    BY SelectedStep, SelectedType
  <2>4. Distinct(v) /\ Range(v) \subseteq Range(u)
    BY <1>2, <2>2, <2>3, SelectedRange
  <2>. QED  BY <2>2, <2>3, <2>4, DistinctAdd
<1>. HIDE DEF I
<1>3. Seq(T) \subseteq I
  BY <1>1, <1>2, BySteps
<1>. QED  BY <1>3 DEF I

(* The handlers whose requests are reported.                                *)
Logged(server, plugin) ==
  IF ~server.logging THEN {} ELSE {h \in Range(server.handlers) : plugin \in {"all", h.plugin}}

(* What a server can be: handlers with logs, at a time.                     *)
ServerLogged(server) ==
  server.logging \in BOOLEAN /\ server.now \in Nat /\ LoggedHandlers(server.handlers)

(* The entries of all logs, and the log of each handler.                    *)
Entry(server) == UNION {Range(h.log) : h \in Range(server.handlers)}
LogOf(server) == [h \in Range(server.handlers) |-> h.log]

(* The handlers that are reported are the logged ones, each once.           *)
LEMMA LoggedAre ==
  ASSUME NEW server, NEW plugin, ServerLogged(server)
  PROVE  /\ LoggedRequests(server, plugin) \in Seq(Range(server.handlers))
         /\ Range(LoggedRequests(server, plugin)) = Logged(server, plugin)
         /\ Distinct(LoggedRequests(server, plugin))
<1>1. server.handlers \in Seq(Range(server.handlers))
  BY DEF ServerLogged, LoggedHandlers
<1>2. Distinct(server.handlers)
  BY DEF ServerLogged, LoggedHandlers, Distinct, ForEach
<1>3. LoggedRequests(server, plugin) = Selected(server.handlers, Logged(server, plugin))
  <2>1. CASE server.logging
    BY <2>1 DEF LoggedRequests, Logged
  <2>2. CASE ~server.logging
    <3>1. Selected(server.handlers, {}) = Empty
      BY <1>1, SelectedAllOrNone
    <3>. QED  BY <2>2, <3>1 DEF LoggedRequests, Logged, Empty
  <2>. QED  BY <2>1, <2>2
<1>4. Range(server.handlers) \cap Logged(server, plugin) = Logged(server, plugin)
  BY DEF Logged
<1>5. PICK H : H = Range(server.handlers)
  OBVIOUS
<1>6. PICK all \in Seq(H) : H = Range(server.handlers) /\ all = server.handlers
  BY <1>1, <1>5
<1>7. /\ Selected(all, Logged(server, plugin)) \in Seq(H) /\ Distinct(Selected(all, Logged(server, plugin)))
      /\ Range(Selected(all, Logged(server, plugin))) = Range(all) \cap Logged(server, plugin)
  BY <1>2, <1>6, SelectedType, SelectedRange, SelectedDistinct
<1>. QED  BY <1>3, <1>4, <1>6, <1>7

(* The logs are sequences of entries, each of which is there once.          *)
LEMMA LogsAre ==
  ASSUME NEW server, ServerLogged(server)
  PROVE  /\ Maps(LogOf(server), Range(server.handlers), Seq(Entry(server)))
         /\ \A h \in Range(server.handlers) : LogOf(server)[h] = h.log /\ Distinct(h.log)
         /\ \A e \in Entry(server) : e.end \in Nat /\ e.duration \in Nat /\ e.cpu \in Nat
<1>1. ASSUME NEW h \in Range(server.handlers)
      PROVE  /\ LogOf(server)[h] = h.log /\ Distinct(h.log) /\ h.log \in Seq(Entry(server))
             /\ \A e \in Range(h.log) : e.end \in Nat /\ e.duration \in Nat /\ e.cpu \in Nat
  <2>1. ViewLog(h.log)
    BY DEF ServerLogged, LoggedHandlers
  <2>2. h.log \in Seq(Entry(server))
    <3>1. Range(h.log) \subseteq Entry(server)
      BY DEF Entry
    <3>. QED  BY <2>1, <3>1, InLarger DEF ViewLog
  <2>3. Distinct(h.log)
    BY <2>1 DEF ViewLog, Distinct, ForEach
  <2>. QED  BY <2>1, <2>2, <2>3 DEF ViewLog, LogOf
<1>. QED  BY <1>1 DEF Maps, LogOf, Entry

(* The entries of the last span of time, and their number in each log.      *)
Since(server, span) == {e \in Entry(server) : server.now - e.end < span}
CountOf(server, span) ==
  [h \in Range(server.handlers) |-> Len(Selected(LogOf(server)[h], Since(server, span)))]

(* A count of the statistics is the length of a selection.                  *)
LEMMA CountIs ==
  ASSUME NEW server, NEW log \in Seq(Entry(server)), NEW span
  PROVE  CountSince(log, server.now, span) = Len(Selected(log, Since(server, span)))
<1>1. Range(log) \subseteq Entry(server)
  BY SequenceOperations
<1>2. Range(log) \cap {e \in Range(log) : server.now - e.end < span} = Range(log) \cap Since(server, span)
  BY <1>1 DEF Since
<1>3. Selected(log, {e \in Range(log) : server.now - e.end < span}) = Selected(log, Since(server, span))
  BY <1>2, SelectedAgree
<1>. QED  BY <1>3 DEF CountSince

(* The counts of the handlers.                                              *)
LEMMA CountsAre ==
  ASSUME NEW server, ServerLogged(server), NEW span
  PROVE  /\ Maps(CountOf(server, span), Range(server.handlers), Nat)
         /\ \A h \in Range(server.handlers) :
              /\ CountOf(server, span)[h] = Len(Selected(LogOf(server)[h], Since(server, span)))
              /\ CountOf(server, span)[h] = CountSince(h.log, server.now, span)
<1>1. ASSUME NEW h \in Range(server.handlers)
      PROVE  /\ Len(Selected(LogOf(server)[h], Since(server, span))) \in Nat
             /\ Len(Selected(LogOf(server)[h], Since(server, span))) = CountSince(h.log, server.now, span)
  <2>1. PICK log \in Seq(Entry(server)) : log = LogOf(server)[h] /\ log = h.log
    BY LogsAre DEF Maps
  <2>2. Selected(log, Since(server, span)) \in Seq(Entry(server))
    BY SelectedType
  <2>. QED  BY <2>1, <2>2, CountIs, LenProperties
<1>. QED  BY <1>1 DEF Maps, CountOf

(* The counts of the total row.                                             *)
LEMMA TotalCount ==
  ASSUME NEW server, NEW plugin, ServerLogged(server), NEW span,
         NEW logged, logged = LoggedRequests(server, plugin),
         NEW all, all = Joined(Mapped(LogOf(server), logged))
  PROVE  /\ all \in Seq(Entry(server))
         /\ CountSince(all, server.now, span) = SumOf(Mapped(CountOf(server, span), logged))
         /\ CountSince(all, server.now, span) = Len(Selected(all, Since(server, span)))
         /\ CountSince(all, server.now, span) \in Nat
<1>1. logged \in Seq(Range(server.handlers))
  BY LoggedAre
<1>2. Maps(LogOf(server), Range(server.handlers), Seq(Entry(server)))
  BY LogsAre
<1>3. all \in Seq(Entry(server))
  <2>1. Mapped(LogOf(server), logged) \in Seq(Seq(Entry(server)))
    BY <1>1, <1>2, MappedSteps
  <2>. QED  BY <2>1, JoinedSteps
<1>4. Len(Selected(all, Since(server, span))) = SumOf(Mapped(CountOf(server, span), logged))
  BY <1>1, <1>2, CountsAre, CountsAddUp
<1>5. Selected(all, Since(server, span)) \in Seq(Entry(server))
  BY <1>3, SelectedType
<1>. QED  BY <1>3, <1>4, <1>5, CountIs, LenProperties

(* The minute is part of the hour and the hour of the day.                  *)
LEMMA SpansInclude ==
  ASSUME NEW server, ServerLogged(server), NEW log \in Seq(Entry(server))
  PROVE  /\ CountSince(log, server.now, Minute) <= CountSince(log, server.now, Hour)
         /\ CountSince(log, server.now, Hour) <= CountSince(log, server.now, Day)
<1>1. ASSUME NEW long \in Nat, NEW short \in Nat, short < long
      PROVE  CountSince(log, server.now, short) <= CountSince(log, server.now, long)
  <2>1. Since(server, short) \subseteq Since(server, long)
    <3>1. \A e \in Entry(server) : server.now - e.end \in Int
      BY LogsAre DEF ServerLogged
    <3>. QED  BY <1>1, <3>1 DEF Since
  <2>2. Len(Selected(log, Since(server, short))) <= Len(Selected(log, Since(server, long)))
    BY <2>1, SelectedMore
  <2>. QED  BY <2>2, CountIs
<1>2. Minute \in Nat /\ Hour \in Nat /\ Day \in Nat /\ Minute < Hour /\ Hour < Day
  BY ReportAssumption
<1>. QED  BY <1>1, <1>2

(* The sums of the total row.                                               *)
LEMMA TotalSum ==
  ASSUME NEW server, NEW plugin, ServerLogged(server),
         NEW logged, logged = LoggedRequests(server, plugin),
         NEW val, Maps(val, Entry(server), Nat),
         NEW sum, sum = [h \in Range(server.handlers) |-> SumOf(Mapped(val, LogOf(server)[h]))]
  PROVE  /\ SumOf(Mapped(val, Joined(Mapped(LogOf(server), logged)))) = SumOf(Mapped(sum, logged))
         /\ Maps(sum, Range(server.handlers), Nat)
<1>1. logged \in Seq(Range(server.handlers))
  BY LoggedAre
<1>2. Maps(LogOf(server), Range(server.handlers), Seq(Entry(server)))
  BY LogsAre
<1>3. ASSUME NEW h \in Range(server.handlers)
      PROVE  SumOf(Mapped(val, LogOf(server)[h])) \in Nat
  <2>1. PICK log \in Seq(Entry(server)) : log = LogOf(server)[h]
    BY <1>2 DEF Maps
  <2>2. Mapped(val, log) \in Seq(Nat)
    BY MappedSteps
  <2>. QED  BY <2>1, <2>2, SumSteps
<1>4. Maps(sum, Range(server.handlers), Nat)
  BY <1>3 DEF Maps
<1>. QED  BY <1>1, <1>2, <1>4, SumsAddUp

(* What was appended is last, and what it was appended to comes before.     *)
LEMMA FrontAndLast ==
  ASSUME NEW U, NEW s \in Seq(U), NEW c \in U
  PROVE  Front(Append(s, c)) = s /\ Last(Append(s, c)) = c
<1>1. PICK len \in Nat : len = Len(s) /\ DOMAIN s = 1 .. len
  BY LenProperties
<1>2. PICK u : u = Append(s, c)
  OBVIOUS
<1>3. u \in Seq(U) /\ Len(u) = len + 1 /\ u[len + 1] = c /\ \A i \in 1 .. len : u[i] = s[i]
  BY <1>2, <1>1, AppendProperties
<1>4. SubSeq(u, 1, len) \in Seq(U) /\ Len(SubSeq(u, 1, len)) = len
      /\ \A i \in 1 .. len : SubSeq(u, 1, len)[i] = u[i]
  BY <1>1, <1>3, SubSeqProperties, ElementOfSeq
<1>5. SubSeq(u, 1, len) = s
  BY <1>1, <1>3, <1>4, SeqEqual
<1>. QED  BY <1>2, <1>1, <1>3, <1>5 DEF Front, Last

(* What a row of the statistics tells of a log.                             *)
Tells(row, log, now) ==
  /\ row[2] = CountSince(log, now, Minute)
  /\ row[3] = CountSince(log, now, Hour)
  /\ row[4] = CountSince(log, now, Day)
  /\ row[5] = Average(SumOf([k \in DOMAIN log |-> log[k].duration]), row[4])
  /\ row[6] = Average(SumOf([k \in DOMAIN log |-> log[k].cpu]), row[4])

LEMMA StatisticsColumns ==
  ASSUME NEW name, NEW log, NEW now
  PROVE  Tells(StatisticsRow(name, log, now), log, now)
BY DEF StatisticsRow, ForEach, Tells

(* The handlers and the joined log that a table is about; its rows; the     *)
(* entries.                                                                 *)
LoggedAll(server, plugin, logged, all) ==
  logged = LoggedRequests(server, plugin) /\ all = Joined(Mapped(LogOf(server), logged))
Tabulated(server, logged, all, rows, total) ==
  /\ rows = [k \in DOMAIN logged |-> StatisticsRow(logged[k].uri, logged[k].log, server.now)]
  /\ total = StatisticsRow("Total requests", all, server.now)
AllEntries(server, plugin) == UNION {{h} \X Range(h.log) : h \in Logged(server, plugin)}

(* The rows of the statistics: those of the handlers, and the total.        *)
LEMMA StatisticsRows ==
  ASSUME NEW server, NEW plugin, ServerLogged(server), NEW logged, NEW all, LoggedAll(server, plugin, logged, all)
  PROVE  Tabulated(server, logged, all, Front(ServiceStats(server, plugin).rows),
                   Last(ServiceStats(server, plugin).rows))
<1>. USE DEF LoggedAll
<1>1. logged \in Seq(Range(server.handlers))
  BY LoggedAre
<1>2. PICK len \in Nat : len = Len(logged) /\ DOMAIN logged = 1 .. len /\ \A k \in 1 .. len : logged[k] \in Range(server.handlers)
  BY <1>1, LenProperties, ElementOfSeq
<1>3. ForEach(logged, LAMBDA h : h.log) = Mapped(LogOf(server), logged)
  BY <1>2 DEF ForEach, Mapped, LogOf
<1>. DEFINE body  == [k \in DOMAIN logged |-> StatisticsRow(logged[k].uri, logged[k].log, server.now)]
            total == StatisticsRow("Total requests", all, server.now)
            U     == {StatisticsRow(h.uri, h.log, server.now) : h \in Range(server.handlers)} \cup {total}
<1>4. ServiceStats(server, plugin).rows = Append(body, total)
  BY <1>3 DEF ServiceStats, Report, ForEach
<1>5. body \in Seq(U)
  <2>1. body = [k \in 1 .. len |-> StatisticsRow(logged[k].uri, logged[k].log, server.now)]
    BY <1>2
  <2>2. \A k \in 1 .. len : StatisticsRow(logged[k].uri, logged[k].log, server.now) \in U
    BY <1>2
  <2>3. PICK b : b = body
    OBVIOUS
  <2>4. b \in [1 .. len -> U]
    BY <2>1, <2>2, <2>3
  <2>. HIDE DEF body, U
  <2>. QED  BY <2>3, <2>4
<1>6. total \in U
  OBVIOUS
<1>. HIDE DEF body, total, U
<1>7. Front(Append(body, total)) = body /\ Last(Append(body, total)) = total
  BY <1>5, <1>6, FrontAndLast
<1>. QED  BY <1>4, <1>7 DEF body, total, Tabulated

(* The total row adds up.                                                   *)
AddsUp(server, plugin, rows, total) ==
  /\ Len(rows) = Cardinality(Logged(server, plugin))
  /\ \A c \in 2 .. 4 : total[c] = SumOf([k \in DOMAIN rows |-> rows[k][c]])
  /\ total[2] <= total[3] /\ total[3] <= total[4]
  /\ (\A e \in AllEntries(server, plugin) : server.now - e[2].end < Day) =>
       /\ total[4] = Cardinality(AllEntries(server, plugin))
       /\ \A c \in 5 .. 6 : /\ total[c].total = SumOf([k \in DOMAIN rows |-> rows[k][c].total])
                            /\ total[c].count = total[4]

(* It does, with the lemmas about counts and sums.                          *)
LEMMA StatisticsOf ==
  ASSUME NEW server, NEW plugin, ServerLogged(server),
         NEW logged, NEW all, LoggedAll(server, plugin, logged, all),
         NEW rows, NEW total, Tabulated(server, logged, all, rows, total)
  PROVE  AddsUp(server, plugin, rows, total)
<1>. DEFINE Counted(log, span) == CountSince(log, server.now, span)
            Sum(val) == [h \in Range(server.handlers) |-> SumOf(Mapped(val, LogOf(server)[h]))]
<1>1. PICK duration, cpu : /\ duration = [e \in Entry(server) |-> e.duration]
                          /\ cpu = [e \in Entry(server) |-> e.cpu]
  OBVIOUS
<1>2. logged \in Seq(Range(server.handlers)) /\ Range(logged) = Logged(server, plugin) /\ Distinct(logged)
  BY LoggedAre DEF LoggedAll
<1>3. PICK len \in Nat : len = Len(logged) /\ DOMAIN logged = 1 .. len /\ \A k \in 1 .. len : logged[k] \in Range(server.handlers)
  BY <1>2, LenProperties, ElementOfSeq
<1>4. rows = [k \in 1 .. len |-> StatisticsRow(logged[k].uri, logged[k].log, server.now)]
  BY <1>3 DEF Tabulated
<1>5. Tells(total, all, server.now)
  <2>1. \A name : Tells(StatisticsRow(name, all, server.now), all, server.now)
    BY StatisticsColumns
  <2>. QED  BY <2>1, Zenon DEF Tabulated
<1>6. \A k \in 1 .. len : Tells(rows[k], logged[k].log, server.now)
  <2>. TAKE k \in 1 .. len
  <2>1. rows[k] = StatisticsRow(logged[k].uri, logged[k].log, server.now)
    BY <1>4
  <2>2. \A name : Tells(StatisticsRow(name, logged[k].log, server.now), logged[k].log, server.now)
    BY StatisticsColumns
  <2>. QED  BY <2>1, <2>2, Zenon
<1>7. Len(rows) = Cardinality(Logged(server, plugin))
  <2>1. Cardinality(Range(logged)) = len
    BY <1>2, <1>3, DistinctLength
  <2>2. PICK r : r = rows /\ DOMAIN r = 1 .. len
    BY <1>4
  <2>3. Len(r) = len
    <3>1. r = [k \in 1 .. len |-> r[k]]
      BY <1>4, <2>2
    <3>. QED  BY <3>1
  <2>. QED  BY <1>2, <2>1, <2>2, <2>3
<1>8. ASSUME NEW span
      PROVE  /\ Counted(all, span) = SumOf(Mapped(CountOf(server, span), logged))
             /\ Mapped(CountOf(server, span), logged) = [k \in 1 .. len |-> Counted(logged[k].log, span)]
  <2>1. Counted(all, span) = SumOf(Mapped(CountOf(server, span), logged))
    BY TotalCount DEF LoggedAll
  <2>2. \A h \in Range(server.handlers) : CountOf(server, span)[h] = CountSince(h.log, server.now, span)
    BY CountsAre
  <2>. QED  BY <1>3, <2>1, <2>2 DEF Mapped
<1>9. \A c \in 2 .. 4 : total[c] = SumOf([k \in DOMAIN rows |-> rows[k][c]])
  <2>1. /\ total[2] = Counted(all, Minute) /\ total[3] = Counted(all, Hour) /\ total[4] = Counted(all, Day)
    BY <1>5 DEF Tells
  <2>2. \A k \in 1 .. len : /\ rows[k][2] = Counted(logged[k].log, Minute)
                            /\ rows[k][3] = Counted(logged[k].log, Hour)
                            /\ rows[k][4] = Counted(logged[k].log, Day)
    BY <1>6 DEF Tells
  <2>3. DOMAIN rows = 1 .. len
    BY <1>4
  <2>. HIDE DEF Counted
  <2>4. /\ [k \in DOMAIN rows |-> rows[k][2]] = Mapped(CountOf(server, Minute), logged)
        /\ [k \in DOMAIN rows |-> rows[k][3]] = Mapped(CountOf(server, Hour), logged)
        /\ [k \in DOMAIN rows |-> rows[k][4]] = Mapped(CountOf(server, Day), logged)
    BY <1>8, <2>2, <2>3
  <2>5. \A c \in 2 .. 4 : c = 2 \/ c = 3 \/ c = 4
    OBVIOUS
  <2>. QED  BY <1>8, <2>1, <2>4, <2>5, ZenonT(60)
<1>10. total[2] <= total[3] /\ total[3] <= total[4]
  <2>1. /\ total[2] = Counted(all, Minute) /\ total[3] = Counted(all, Hour) /\ total[4] = Counted(all, Day)
    BY <1>5 DEF Tells
  <2>2. all \in Seq(Entry(server))
    BY TotalCount DEF LoggedAll
  <2>. QED  BY <2>1, <2>2, SpansInclude
<1>11. (\A e \in AllEntries(server, plugin) : server.now - e[2].end < Day) =>
        total[4] = Cardinality(AllEntries(server, plugin))
  <2>. SUFFICES ASSUME \A e \in AllEntries(server, plugin) : server.now - e[2].end < Day
                PROVE  Counted(all, Day) = Cardinality(AllEntries(server, plugin))
    BY <1>5 DEF Tells
  <2>1. Maps(LogOf(server), Range(server.handlers), Seq(Entry(server)))
    BY LogsAre
  <2>2. \A h \in Range(server.handlers) : LogOf(server)[h] = h.log /\ Distinct(LogOf(server)[h])
    BY LogsAre
  <2>3. Cardinality(Entries(LogOf(server), Range(logged))) = Len(all)
    BY <1>2, <2>1, <2>2, EntriesCounted DEF LoggedAll
  <2>4. Entries(LogOf(server), Range(logged)) = AllEntries(server, plugin)
    <3>1. \A h \in Range(logged) : LogOf(server)[h] = h.log
      BY <1>2, <2>2 DEF Logged
    <3>. QED  BY <1>2, <3>1 DEF Entries, AllEntries
  <2>5. all \in Seq(Entry(server)) /\ Counted(all, Day) = Len(Selected(all, Since(server, Day)))
    BY TotalCount DEF LoggedAll
  <2>6. Range(all) \subseteq Since(server, Day)
    <3>1. PICK logs \in Seq(Seq(Entry(server))) : logs = Mapped(LogOf(server), logged)
      BY <1>2, <2>1, MappedSteps
    <3>2. Range(all) = UNION {Range(u) : u \in Range(logs)}
      BY <3>1, JoinedRange DEF LoggedAll
    <3>3. \A u \in Range(logs) : \E h \in Range(logged) : u = h.log
      BY <1>2, <1>3, <2>2, <3>1 DEF Mapped, Range
    <3>4. ASSUME NEW h \in Range(logged), NEW e \in Range(h.log)
          PROVE  server.now - e.end < Day
      <4>1. <<h, e>> \in AllEntries(server, plugin)
        BY <1>2, <3>4 DEF AllEntries
      <4>. QED  BY <4>1
    <3>5. Range(all) \subseteq Entry(server)
      BY <2>5, SequenceOperations
    <3>. QED  BY <3>2, <3>3, <3>4, <3>5 DEF Since
  <2>7. Selected(all, Since(server, Day)) = all
    BY <2>5, <2>6, SelectedAllOrNone
  <2>. QED  BY <2>3, <2>4, <2>5, <2>7
<1>12. ASSUME NEW val, Maps(val, Entry(server), Nat)
       PROVE  SumOf(Mapped(val, all)) = SumOf(Mapped(Sum(val), logged))
  BY <1>12, TotalSum DEF LoggedAll
<1>13. /\ Maps(duration, Entry(server), Nat) /\ Maps(cpu, Entry(server), Nat)
  BY <1>1, LogsAre DEF Maps
<1>14. ASSUME NEW log \in Seq(Entry(server))
       PROVE  /\ [k \in DOMAIN log |-> log[k].duration] = Mapped(duration, log)
              /\ [k \in DOMAIN log |-> log[k].cpu] = Mapped(cpu, log)
  <2>1. DOMAIN log = 1 .. Len(log) /\ \A k \in 1 .. Len(log) : log[k] \in Entry(server)
    BY LenProperties, ElementOfSeq
  <2>. QED  BY <1>1, <2>1 DEF Mapped
<1>15. \A c \in 5 .. 6 : /\ total[c].total = SumOf([k \in DOMAIN rows |-> rows[k][c].total])
                         /\ total[c].count = total[4]
  <2>1. all \in Seq(Entry(server))
    BY TotalCount DEF LoggedAll
  <2>2. /\ total[5] = Average(SumOf(Mapped(duration, all)), total[4])
        /\ total[6] = Average(SumOf(Mapped(cpu, all)), total[4])
    BY <1>14, <1>5, <2>1 DEF Tells
  <2>3. \A k \in 1 .. len : /\ rows[k][5].total = Sum(duration)[logged[k]]
                            /\ rows[k][6].total = Sum(cpu)[logged[k]]
    <3>. TAKE k \in 1 .. len
    <3>1. PICK log \in Seq(Entry(server)) : log = logged[k].log /\ log = LogOf(server)[logged[k]]
      BY <1>3, LogsAre DEF Maps
    <3>2. PICK row : row = rows[k] /\ Tells(row, log, server.now)
      BY <1>6, <3>1
    <3>3. /\ row[5] = Average(SumOf(Mapped(duration, log)), row[4])
          /\ row[6] = Average(SumOf(Mapped(cpu, log)), row[4])
      BY <1>14, <3>2 DEF Tells
    <3>4. Sum(duration)[logged[k]] = SumOf(Mapped(duration, log)) /\ Sum(cpu)[logged[k]] = SumOf(Mapped(cpu, log))
      BY <1>3, <3>1
    <3>. QED  BY <3>2, <3>3, <3>4 DEF Average
  <2>4. DOMAIN rows = 1 .. len
    BY <1>4
  <2>. HIDE DEF Sum
  <2>5. /\ [k \in DOMAIN rows |-> rows[k][5].total] = Mapped(Sum(duration), logged)
        /\ [k \in DOMAIN rows |-> rows[k][6].total] = Mapped(Sum(cpu), logged)
    BY <1>3, <2>3, <2>4 DEF Mapped
  <2>6. \A c \in 5 .. 6 : c = 5 \/ c = 6
    OBVIOUS
  <2>7. /\ SumOf(Mapped(duration, all)) = SumOf(Mapped(Sum(duration), logged))
        /\ SumOf(Mapped(cpu, all)) = SumOf(Mapped(Sum(cpu), logged))
    BY <1>12, <1>13
  <2>. QED  BY <2>2, <2>5, <2>6, <2>7 DEF Average
<1>. QED  BY <1>7, <1>9, <1>10, <1>11, <1>15 DEF AddsUp

(* So the answer about the statistics is right.                             *)
LEMMA StatisticsHold ==
  ASSUME ServerLogged(arg.server), result = RequestTables(arg)
  PROVE  StatisticsAddUp
<1>1. PICK server, plugin : server = arg.server /\ plugin = arg.plugin
  OBVIOUS
<1>2. PICK logged, all : LoggedAll(server, plugin, logged, all)
  BY DEF LoggedAll
<1>3. ServerLogged(server)
  BY <1>1
<1>4. PICK rows, total : rows = Front(result.services.rows) /\ total = Last(result.services.rows)
  OBVIOUS
<1>5. Tabulated(server, logged, all, rows, total)
  <2>1. result.services.rows = ServiceStats(server, plugin).rows
    BY <1>1 DEF RequestTables
  <2>2. Tabulated(server, logged, all, Front(ServiceStats(server, plugin).rows), Last(ServiceStats(server, plugin).rows))
    BY <1>2, <1>3, StatisticsRows
  <2>. QED  BY <1>4, <2>1, <2>2
<1>6. AddsUp(server, plugin, rows, total)
  BY <1>2, <1>3, <1>5, StatisticsOf
<1>7. AddsUp(arg.server, arg.plugin, Front(result.services.rows), Last(result.services.rows))
  BY <1>1, <1>4, <1>6
<1>. QED  BY <1>7, Zenon DEF StatisticsAddUp, AddsUp, AllEntries, Logged

-----------------------------------------------------------------------------
(* The registry: what a table of admin requests tells of.                   *)
Told(table) == {table.rows[k][1] : k \in DOMAIN table.rows}

(* What it should tell of: the requests for the target, or the public ones. *)
WhatOf(requests, target, publicOnly) ==
  {r.what : r \in {r \in Range(requests) : (publicOnly => r.public) /\ \A t \in target : r.target = t}}

(* It does.                                                                 *)
LEMMA ToldOf ==
  ASSUME NEW requests, requests \in Seq(Range(requests)), NEW unique, NEW target, NEW publicOnly \in BOOLEAN
  PROVE  Told(AdminRequestsReport(requests, unique, target, publicOnly)) = WhatOf(requests, target, publicOnly)
<1>. DEFINE S == {r \in Range(requests) : /\ publicOnly => r.public
                                          /\ \A t \in target : r.target = t}
            row(r) == IF publicOnly THEN <<r.what, r.target, r.description>>
                      ELSE <<r.what, r.target, YesNo(r.authentication), YesNo(r.public),
                             YesNo(r.what \in unique), r.description>>
<1>1. PICK told : told = Selected(requests, S)
  OBVIOUS
<1>2. Range(told) = S
  <2>1. PICK T : T = Range(requests)
    OBVIOUS
  <2>2. PICK all \in Seq(T) : all = requests
    BY <2>1
  <2>3. Range(Selected(all, S)) = Range(all) \cap S
    BY <2>2, SelectedRange
  <2>. QED  BY <1>1, <2>2, <2>3
<1>3. AdminRequestsReport(requests, unique, target, publicOnly).rows = [k \in DOMAIN told |-> row(told[k])]
  BY <1>1 DEF AdminRequestsReport, Report, ForEach
<1>4. \A r : row(r)[1] = r.what
  OBVIOUS
<1>. HIDE DEF row, S
<1>5. Told(AdminRequestsReport(requests, unique, target, publicOnly)) = {row(told[k])[1] : k \in DOMAIN told}
  BY <1>3 DEF Told
<1>6. {row(told[k])[1] : k \in DOMAIN told} = {r.what : r \in S}
  BY <1>2, <1>4, SMTT(60) DEF Range
<1>. QED  BY <1>5, <1>6 DEF S, WhatOf

(* The names of requests, as a set of requests.                             *)
LEMMA NamesOf ==
  ASSUME NEW requests, NEW builtin \in BOOLEAN, NEW nonPublic \in BOOLEAN
  PROVE  AdminRequestNames(requests, builtin, nonPublic) =
           {r.what : r \in {r \in Range(requests) : /\ nonPublic \/ r.public
                                                    /\ builtin \/ r.target # "none"}}
BY DEF AdminRequestNames, Range

(* What a registry can be.                                                  *)
RegistryOf(a) ==
  /\ a.requests \in Seq(Range(a.requests)) /\ \A r \in Range(a.requests) : r.public \in BOOLEAN
  /\ \A t, u \in a.target : t = u

(* So the answers about the registry agree.                                 *)
LEMMA RegistryHolds ==
  ASSUME RegistryOf(arg), result = StateTables(arg)
  PROVE  RegistryIsReported
<1>. DEFINE All == Range(arg.requests)
            what(S) == {r.what : r \in S}
            Names(b, p) == what({r \in All : (p \/ r.public) /\ (b \/ r.target # "none")})
<1>1. arg.requests \in Seq(All) /\ \A t, u \in arg.target : t = u
  BY DEF RegistryOf
<1>2. /\ result.requests = AdminRequestsReport(arg.requests, arg.unique, arg.target, FALSE)
      /\ result.info = AdminRequestsReport(arg.requests, arg.unique, {}, TRUE)
      /\ \A b, p \in BOOLEAN : result.names[b][p] = AdminRequestNames(arg.requests, b, p)
  BY DEF StateTables
<1>3. \A b, p \in BOOLEAN : result.names[b][p] = Names(b, p)
  BY <1>2, NamesOf
<1>4. Told(result.requests) = what({r \in All : \A t \in arg.target : r.target = t})
  <2>1. Told(result.requests) = WhatOf(arg.requests, arg.target, FALSE)
    <3>1. \A unique, target : \A publicOnly \in BOOLEAN :
            Told(AdminRequestsReport(arg.requests, unique, target, publicOnly)) =
              WhatOf(arg.requests, target, publicOnly)
      BY <1>1, ToldOf
    <3>2. Told(AdminRequestsReport(arg.requests, arg.unique, arg.target, FALSE)) =
            WhatOf(arg.requests, arg.target, FALSE)
      BY <3>1, Zenon
    <3>3. result.requests = AdminRequestsReport(arg.requests, arg.unique, arg.target, FALSE)
      BY <1>2, Zenon
    <3>. QED  BY <3>2, <3>3, Zenon
  <2>. QED  BY <2>1 DEF WhatOf
<1>5. Told(result.info) = what({r \in All : r.public})
  <2>1. Told(result.info) = WhatOf(arg.requests, {}, TRUE)
    <3>1. \A unique, target : \A publicOnly \in BOOLEAN :
            Told(AdminRequestsReport(arg.requests, unique, target, publicOnly)) =
              WhatOf(arg.requests, target, publicOnly)
      BY <1>1, ToldOf
    <3>. QED  BY <1>2, <3>1, Zenon
  <2>. QED  BY <2>1 DEF WhatOf
<1>6. arg.target = {} => Told(result.requests) = result.names[TRUE][TRUE]
  BY <1>3, <1>4
<1>7. \A t \in arg.target : Told(result.requests) = what({r \in All : r.target = t})
  BY <1>1, <1>4
<1>8. Told(result.info) = result.names[TRUE][FALSE]
  BY <1>3, <1>5
<1>9. \A b \in BOOLEAN : result.names[b][FALSE] \subseteq result.names[b][TRUE]
  <2>1. \A b \in BOOLEAN : Names(b, FALSE) \subseteq Names(b, TRUE)
    OBVIOUS
  <2>. HIDE DEF Names
  <2>. QED  BY <1>3, <2>1
<1>10. result.names[FALSE][TRUE] = UNION {what({r \in All : r.target = t}) : t \in {r.target : r \in All} \ {"none"}}
  <2>1. Names(FALSE, TRUE) = UNION {what({r \in All : r.target = t}) : t \in {r.target : r \in All} \ {"none"}}
    OBVIOUS
  <2>. HIDE DEF Names
  <2>. QED  BY <1>3, <2>1
<1>. HIDE DEF arg, result
<1>. QED  BY <1>6, <1>7, <1>8, <1>9, <1>10 DEF RegistryIsReported, Told

-----------------------------------------------------------------------------
(* The first of some positions.                                             *)
LEMMA MinOfPositions ==
  ASSUME NEW len \in Nat, NEW d \in SUBSET (1 .. len), d # {}
  PROVE  Min(d) \in d /\ \A y \in d : Min(d) <= y
<1>1. PICK e : e = {x \in 1 .. len : len + 1 - x \in d}
  OBVIOUS
<1>2. e \in SUBSET (1 .. len) /\ \A y \in d : len + 1 - y \in e
  BY <1>1
<1>3. e # {}
  BY <1>2
<1>4. PICK m : m \in e /\ \A y \in e : m >= y
  BY <1>2, <1>3, MaxOfPositions
<1>5. len + 1 - m \in d /\ \A y \in d : len + 1 - m <= y
  BY <1>1, <1>2, <1>4
<1>. QED  BY <1>5 DEF Min

(* The first cache of a name.                                               *)
Positions(s, name) == {i \in 1 .. Len(s) : s[i].name = name}
FirstOf(s, name) == s[SelectInSeq(s, LAMBDA c : c.name = name)]
HasOf(s, name) == \E c \in Range(s) : c.name = name

(* It is one that has the name.                                             *)
LEMMA FirstIsThere ==
  ASSUME NEW C, NEW s \in Seq(C), NEW name, HasOf(s, name)
  PROVE  /\ Positions(s, name) # {} /\ Positions(s, name) \in SUBSET (1 .. Len(s))
         /\ FirstOf(s, name) = s[Min(Positions(s, name))]
         /\ FirstOf(s, name) \in Range(s) /\ FirstOf(s, name).name = name
<1>1. DOMAIN s = 1 .. Len(s) /\ Len(s) \in Nat
  BY LenProperties
<1>2. Positions(s, name) # {} /\ Positions(s, name) \in SUBSET (1 .. Len(s))
  BY <1>1 DEF HasOf, Range, Positions
<1>3. FirstOf(s, name) = s[Min(Positions(s, name))]
  BY <1>2 DEF FirstOf, SelectInSeq, Positions
<1>4. Min(Positions(s, name)) \in Positions(s, name)
  BY <1>1, <1>2, MinOfPositions
<1>5. Min(Positions(s, name)) \in DOMAIN s /\ s[Min(Positions(s, name))].name = name
  BY <1>1, <1>4 DEF Positions
<1>. QED  BY <1>2, <1>3, <1>5 DEF Range

(* What follows does not change which is first.                             *)
LEMMA FirstStays ==
  ASSUME NEW C, NEW s \in Seq(C), NEW t \in Seq(C), NEW name, HasOf(s, name)
  PROVE  FirstOf(Cat(s, t), name) = FirstOf(s, name)
<1>1. PICK len, more \in Nat : len = Len(s) /\ more = Len(t) /\ DOMAIN s = 1 .. len
  BY LenProperties
<1>2. PICK u : u = s \o t
  OBVIOUS
<1>3. u \in Seq(C) /\ Len(u) = len + more /\ \A i \in 1 .. len : u[i] = s[i]
  BY <1>1, <1>2, ConcatProperties
<1>4. HasOf(u, name)
  <2>1. \A i \in 1 .. len : s[i] \in Range(u)
    BY <1>1, <1>3, LenProperties DEF Range
  <2>. QED  BY <1>1, <2>1 DEF HasOf, Range
<1>5. PICK d, e : d = Positions(s, name) /\ e = Positions(u, name)
  OBVIOUS
<1>6. d = {i \in e : i <= len} /\ d # {} /\ d \in SUBSET (1 .. len) /\ e # {} /\ e \in SUBSET (1 .. len + more)
  <2>1. d # {} /\ d \in SUBSET (1 .. len) /\ e # {} /\ e \in SUBSET (1 .. len + more)
    BY <1>1, <1>3, <1>4, <1>5, FirstIsThere
  <2>2. d = {i \in e : i <= len}
    BY <1>1, <1>3, <1>5 DEF Positions
  <2>. QED  BY <2>1, <2>2
<1>7. Min(d) \in d /\ \A y \in d : Min(d) <= y
  BY <1>6, MinOfPositions
<1>8. Min(e) \in e /\ \A y \in e : Min(e) <= y
  <2>1. len + more \in Nat
    OBVIOUS
  <2>. QED  BY <1>6, <2>1, MinOfPositions
<1>9. Min(d) = Min(e) /\ Min(d) \in 1 .. len
  <2>1. PICK a, b : a = Min(d) /\ b = Min(e)
    OBVIOUS
  <2>2. a \in d /\ b \in e
    BY <1>7, <1>8, <2>1
  <2>3. a \in 1 .. len /\ b \in 1 .. len + more /\ a \in e
    BY <1>6, <2>2
  <2>4. a \in 1 .. len /\ b \in Int /\ a \in e /\ b <= a
    BY <1>8, <2>1, <2>3
  <2>5. b \in d /\ a <= b
    BY <1>6, <1>7, <2>1, <2>4, <2>2
  <2>. QED  BY <2>1, <2>4, <2>5
<1>10. FirstOf(s, name) = s[Min(d)] /\ FirstOf(u, name) = u[Min(e)]
  BY <1>3, <1>4, <1>5, FirstIsThere
<1>. QED  BY <1>2, <1>3, <1>9, <1>10 DEF Cat

(* The owners before the first that has the name have none of it.           *)
FirstOwner(os, o, name) ==
  /\ o \in DOMAIN os /\ HasOf(os[o].caches, name)
  /\ \A m \in 1 .. o - 1 : ~HasOf(os[m].caches, name)

(* The first cache of a name is of the first owner that has one.            *)
LEMMA FirstOfFirstOwner ==
  ASSUME NEW O, NEW C, NEW lists, Maps(lists, O, Seq(C)), \A o \in O : lists[o] = o.caches,
         NEW os \in Seq(O), NEW name, NEW o, FirstOwner(os, o, name)
  PROVE  /\ HasOf(Joined(Mapped(lists, os)), name)
         /\ FirstOf(Joined(Mapped(lists, os)), name) \in Range(os[o].caches)
<1>. DEFINE I == {us \in Seq(O) : \A p : FirstOwner(us, p, name) =>
                    /\ HasOf(Joined(Mapped(lists, us)), name)
                    /\ FirstOf(Joined(Mapped(lists, us)), name) \in Range(us[p].caches)}
<1>1. Empty \in I
  <2>1. Empty \in Seq(O) /\ DOMAIN Empty = {}
    BY EmptySeq DEF Empty
  <2>. QED  BY <2>1 DEF FirstOwner
<1>2. ASSUME NEW us \in Seq(O), NEW h \in O, us \in I
      PROVE  Add(us, h) \in I
  <2>1. Add(us, h) \in Seq(O)
    BY SequenceOperations
  <2>. SUFFICES ASSUME NEW p, FirstOwner(Add(us, h), p, name)
                PROVE  /\ HasOf(Joined(Mapped(lists, Add(us, h))), name)
                       /\ FirstOf(Joined(Mapped(lists, Add(us, h))), name) \in Range(Add(us, h)[p].caches)
    BY <2>1
  <2>2. PICK len \in Nat : len = Len(us) /\ DOMAIN us = 1 .. len
    BY LenProperties
  <2>3. PICK vs : vs = Add(us, h)
    OBVIOUS
  <2>4. DOMAIN vs = 1 .. len + 1 /\ vs[len + 1] = h /\ \A i \in 1 .. len : vs[i] = us[i]
    BY <2>2, <2>3, LenProperties, AppendProperties DEF Add
  <2>5. PICK j \in Seq(C), t \in Seq(C) : j = Joined(Mapped(lists, us)) /\ t = h.caches
                                       /\ Joined(Mapped(lists, Add(us, h))) = Cat(j, t)
    <3>1. lists[h] \in Seq(C) /\ lists[h] = h.caches
      BY DEF Maps
    <3>. QED  BY <3>1, JoinedStep
  <2>6. Cat(j, t) \in Seq(C) /\ Range(Cat(j, t)) = Range(j) \cup Range(t)
    <3>1. Cat(j, t) \in Seq(C)
      BY SequenceOperations
    <3>2. Range(Cat(j, t)) = Range(j) \cup Range(t)
      BY RangeOfCat
    <3>. QED  BY <3>1, <3>2
  <2>7. p \in 1 .. len + 1 /\ HasOf(vs[p].caches, name) /\ \A m \in 1 .. p - 1 : ~HasOf(vs[m].caches, name)
    BY <2>3, <2>4 DEF FirstOwner
  <2>8. CASE p \in 1 .. len
    <3>1. FirstOwner(us, p, name)
      <4>1. vs[p] = us[p] /\ \A m \in 1 .. p - 1 : vs[m] = us[m]
        BY <2>4, <2>8
      <4>2. p \in DOMAIN us
        BY <2>2, <2>8
      <4>. QED  BY <2>7, <4>1, <4>2 DEF FirstOwner
    <3>2. HasOf(j, name) /\ FirstOf(j, name) \in Range(us[p].caches)
      BY <1>2, <2>5, <3>1
    <3>3. FirstOf(Cat(j, t), name) = FirstOf(j, name)
      BY <3>2, FirstStays
    <3>4. HasOf(Cat(j, t), name)
      BY <2>6, <3>2 DEF HasOf
    <3>. QED  BY <2>3, <2>4, <2>5, <2>8, <3>2, <3>3, <3>4
  <2>9. CASE p = len + 1
    <3>1. ~HasOf(j, name)
      <4>1. PICK logs \in Seq(Seq(C)) : logs = Mapped(lists, us)
        BY MappedSteps
      <4>2. Range(j) = UNION {Range(u) : u \in Range(logs)}
        BY <2>5, <4>1, JoinedRange
      <4>3. \A u \in Range(logs) : \E m \in 1 .. len : u = us[m].caches
        BY <2>2, <4>1, ElementOfSeq DEF Mapped, Range
      <4>4. \A m \in 1 .. len : ~HasOf(us[m].caches, name)
        BY <2>4, <2>7, <2>9
      <4>. QED  BY <4>2, <4>3, <4>4, SMTT(60) DEF HasOf
    <3>2. HasOf(t, name)
      BY <2>4, <2>5, <2>7, <2>9
    <3>3. HasOf(Cat(j, t), name)
      BY <2>6, <3>2 DEF HasOf
    <3>4. FirstOf(Cat(j, t), name) \in Range(Cat(j, t)) /\ FirstOf(Cat(j, t), name).name = name
      BY <2>6, <3>3, FirstIsThere
    <3>5. FirstOf(Cat(j, t), name) \in Range(t)
      BY <2>6, <3>1, <3>4 DEF HasOf
    <3>. QED  BY <2>3, <2>4, <2>5, <2>9, <3>3, <3>5
  <2>. QED  BY <2>7, <2>8, <2>9
<1>. HIDE DEF I
<1>3. Seq(O) \subseteq I
  BY <1>1, <1>2, BySteps
<1>. QED  BY <1>3 DEF I

(* What the owners of caches can be; the caches of all and of the ready     *)
(* ones.                                                                    *)
CachesOf(a) ==
  CacheOwners(a.engines) /\ CacheOwners(a.plugins) /\ a.dnsCache.name \in Range(CacheNames)

Owner(a)   == Range(a.engines) \cup Range(a.plugins)
Cache(a)   == {a.dnsCache} \cup UNION {Range(o.caches) : o \in Owner(a)}
ListOf(a)  == [o \in Owner(a) |-> o.caches]
Owners(a)  == LET components == a.engines \o a.plugins
              IN Selected(components, {o \in Range(components) : o.ready})
Collected(a) == Add(Joined(Mapped(ListOf(a), Owners(a))), a.dnsCache)
NamesOfCaches(a) ==
  {a.dnsCache.name} \cup UNION {{o.caches[k].name : k \in DOMAIN o.caches} : o \in Range(Owners(a))}

(* The owners, and the caches of those that are ready.                      *)
LEMMA OwnersAre ==
  ASSUME NEW a, CachesOf(a)
  PROVE  /\ Range(a.engines \o a.plugins) = Owner(a)
         /\ Owners(a) \in Seq(Owner(a)) /\ \A o \in Range(Owners(a)) : o \in Owner(a) /\ o.ready
         /\ Maps(ListOf(a), Owner(a), Seq(Cache(a)))
         /\ \A o \in Owner(a) : /\ ListOf(a)[o] = o.caches /\ o.ready \in BOOLEAN
                                /\ \A c \in Range(o.caches) : c.name \in Range(CacheNames)
<1>1. PICK O : O = Owner(a)
  OBVIOUS
<1>2. PICK s \in Seq(O), t \in Seq(O) : s = a.engines /\ t = a.plugins
  BY <1>1, InLarger DEF Owner, CachesOf, CacheOwners
<1>3. Cat(s, t) \in Seq(O) /\ Range(Cat(s, t)) = Range(s) \cup Range(t)
  <2>1. Cat(s, t) \in Seq(O)
    BY SequenceOperations
  <2>. QED  BY <2>1, RangeOfCat
<1>4. PICK S : S = {o \in Range(Cat(s, t)) : o.ready}
  OBVIOUS
<1>5. PICK u \in Seq(O) : u = Cat(s, t) /\ S = {o \in Range(u) : o.ready} /\ Owners(a) = Selected(u, S)
  BY <1>2, <1>3, <1>4 DEF Owners, Cat
<1>6. Selected(u, S) \in Seq(O) /\ Range(Selected(u, S)) = Range(u) \cap S
  BY SelectedType, SelectedRange
<1>7. ASSUME NEW o \in Owner(a)
      PROVE  /\ ListOf(a)[o] = o.caches /\ o.ready \in BOOLEAN /\ o.caches \in Seq(Cache(a))
             /\ \A c \in Range(o.caches) : c.name \in Range(CacheNames)
  <2>1. o.caches \in Seq(Range(o.caches)) /\ o.ready \in BOOLEAN
        /\ \A c \in Range(o.caches) : c.name \in Range(CacheNames)
    BY DEF Owner, CachesOf, CacheOwners
  <2>2. Range(o.caches) \subseteq Cache(a)
    BY DEF Cache
  <2>3. o.caches \in Seq(Cache(a))
    BY <2>1, <2>2, InLarger
  <2>. QED  BY <2>1, <2>3 DEF ListOf
<1>8. Maps(ListOf(a), Owner(a), Seq(Cache(a)))
  BY <1>7 DEF Maps, ListOf
<1>9. Range(a.engines \o a.plugins) = Owner(a)
  BY <1>2, <1>3 DEF Cat, Owner
<1>10. Owners(a) \in Seq(Owner(a)) /\ \A o \in Range(Owners(a)) : o \in Owner(a) /\ o.ready
  <2>1. Owners(a) = Selected(u, S)
    BY <1>5
  <2>2. S \subseteq {o \in O : o.ready}
    BY <1>1, <1>2, <1>3, <1>4 DEF Owner
  <2>. QED  BY <1>1, <1>6, <2>1, <2>2
<1>. QED  BY <1>7, <1>8, <1>9, <1>10

(* All caches, in the order in which they are collected.                    *)
LEMMA CollectedAre ==
  ASSUME NEW a, CachesOf(a)
  PROVE  /\ Joined(Mapped(ListOf(a), Owners(a))) \in Seq(Cache(a))
         /\ Collected(a) \in Seq(Cache(a))
         /\ {c.name : c \in Range(Collected(a))} = NamesOfCaches(a)
         /\ NamesOfCaches(a) \subseteq Range(CacheNames)
<1>1. Owners(a) \in Seq(Owner(a)) /\ Maps(ListOf(a), Owner(a), Seq(Cache(a)))
  BY OwnersAre
<1>2. PICK logs \in Seq(Seq(Cache(a))) : logs = Mapped(ListOf(a), Owners(a)) /\ DOMAIN logs = DOMAIN Owners(a)
  BY <1>1, MappedSteps
<1>3. Joined(logs) \in Seq(Cache(a)) /\ Range(Joined(logs)) = UNION {Range(u) : u \in Range(logs)}
  BY JoinedSteps, JoinedRange
<1>4. a.dnsCache \in Cache(a)
  BY DEF Cache
<1>5. PICK j \in Seq(Cache(a)), d \in Cache(a) : j = Joined(logs) /\ d = a.dnsCache
  BY <1>3, <1>4
<1>6. Add(j, d) \in Seq(Cache(a)) /\ Range(Add(j, d)) = Range(j) \cup {d}
  BY SequenceOperations
<1>7. Range(logs) = {o.caches : o \in Range(Owners(a))}
  <2>1. \A k \in DOMAIN Owners(a) : Owners(a)[k] \in Owner(a) /\ logs[k] = Owners(a)[k].caches
    <3>1. \A k \in DOMAIN Owners(a) : Owners(a)[k] \in Owner(a)
      BY <1>1, LenProperties, ElementOfSeq
    <3>2. \A o \in Owner(a) : ListOf(a)[o] = o.caches
      BY OwnersAre
    <3>. QED  BY <1>2, <3>1, <3>2 DEF Mapped
  <2>. QED  BY <1>2, <2>1 DEF Range
<1>8. Range(j) = UNION {Range(o.caches) : o \in Range(Owners(a))}
  BY <1>3, <1>5, <1>7
<1>9. {c.name : c \in Range(Add(j, d))} = NamesOfCaches(a)
  <2>. DEFINE A(o) == {o.caches[k].name : k \in DOMAIN o.caches}
              B(o) == {c.name : c \in Range(o.caches)}
  <2>1. \A o : A(o) = B(o)
    BY DEF Range
  <2>2. NamesOfCaches(a) = {a.dnsCache.name} \cup UNION {B(o) : o \in Range(Owners(a))}
    <3>1. NamesOfCaches(a) = {a.dnsCache.name} \cup UNION {A(o) : o \in Range(Owners(a))}
      BY DEF NamesOfCaches
    <3>. HIDE DEF A, B
    <3>. QED  BY <2>1, <3>1
  <2>3. {c.name : c \in Range(j)} = UNION {{c.name : c \in Range(o.caches)} : o \in Range(Owners(a))}
    BY <1>8
  <2>. QED  BY <1>5, <1>6, <2>2, <2>3
<1>10. NamesOfCaches(a) \subseteq Range(CacheNames)
  <2>1. \A o \in Range(Owners(a)) : \A c \in Range(o.caches) : c.name \in Range(CacheNames)
    BY OwnersAre
  <2>2. \A c \in Range(j) : c.name \in Range(CacheNames)
    BY <1>8, <2>1
  <2>3. d.name \in Range(CacheNames)
    BY <1>5 DEF CachesOf
  <2>. QED  BY <1>6, <1>9, <2>2, <2>3
<1>. QED  BY <1>2, <1>3, <1>5, <1>6, <1>9, <1>10 DEF Collected

(* The map of caches has the first of each name.                            *)
LEMMA CacheStatsAre ==
  ASSUME NEW a, CachesOf(a)
  PROVE  CacheStats(a) = [name \in NamesOfCaches(a) |-> FirstOf(Collected(a), name)]
<1>1. PICK owners : owners = Owners(a)
  OBVIOUS
<1>2. [k \in DOMAIN owners |-> owners[k].caches] = Mapped(ListOf(a), owners)
  <2>1. \A k \in DOMAIN owners : owners[k] \in Owner(a)
    BY <1>1, OwnersAre, LenProperties, ElementOfSeq
  <2>. QED  BY <2>1 DEF Mapped, ListOf
<1>3. CacheStats(a) = [name \in {c.name : c \in Range(Collected(a))} |-> FirstOf(Collected(a), name)]
  <2>1. PICK all : all = Append(Joined([k \in DOMAIN owners |-> owners[k].caches]), a.dnsCache)
    OBVIOUS
  <2>2. CacheStats(a) = [name \in {c.name : c \in Range(all)} |-> FirstOf(all, name)]
    BY <1>1, <2>1 DEF CacheStats, Owners, ForEach, FirstOf, SelectInSeq
  <2>. QED  BY <1>1, <1>2, <2>1, <2>2 DEF Collected, Add
<1>. QED  BY <1>3, CollectedAre

(* The rows of the table of caches.                                         *)
RowsOfCaches(a, named) ==
  CacheReport(a, CacheNames).rows = [r \in DOMAIN named |-> CacheRow(r, FirstOf(Collected(a), named[r]), a.now)]

(* There is one row for each name.                                          *)
LEMMA CacheRowsAre ==
  ASSUME NEW a, CachesOf(a), NEW named, named = Selected(CacheNames, NamesOfCaches(a))
  PROVE  /\ RowsOfCaches(a, named)
         /\ named \in Seq(Range(CacheNames)) /\ Range(named) = NamesOfCaches(a)
         /\ Len(named) = Cardinality(NamesOfCaches(a))
<1>1. CacheNames \in Seq(Range(CacheNames)) /\ Distinct(CacheNames)
  BY RequestAnswersAssumption
<1>2. PICK T : T = Range(CacheNames)
  OBVIOUS
<1>3. PICK order \in Seq(T) : order = CacheNames
  BY <1>1, <1>2
<1>4. /\ Selected(order, NamesOfCaches(a)) \in Seq(T) /\ Distinct(Selected(order, NamesOfCaches(a)))
      /\ Range(Selected(order, NamesOfCaches(a))) = Range(order) \cap NamesOfCaches(a)
  BY <1>1, <1>3, SelectedType, SelectedRange, SelectedDistinct
<1>5. named \in Seq(T) /\ Distinct(named) /\ Range(named) = NamesOfCaches(a)
  BY <1>2, <1>3, <1>4, CollectedAre
<1>6. Len(named) = Cardinality(NamesOfCaches(a))
  BY <1>5, DistinctLength
<1>7. RowsOfCaches(a, named)
  <2>1. PICK stats : stats = CacheStats(a)
    OBVIOUS
  <2>2. DOMAIN stats = NamesOfCaches(a) /\ \A name \in NamesOfCaches(a) : stats[name] = FirstOf(Collected(a), name)
    BY <2>1, CacheStatsAre
  <2>3. CacheReport(a, CacheNames).rows = CacheRows(stats, a.now, CacheNames)
    BY <2>1 DEF CacheReport
  <2>4. CacheRows(stats, a.now, CacheNames) = [r \in DOMAIN named |-> CacheRow(r, stats[named[r]], a.now)]
    BY <2>2 DEF CacheRows
  <2>5. \A r \in DOMAIN named : named[r] \in NamesOfCaches(a)
    BY <1>5 DEF Range
  <2>. QED  BY <2>2, <2>3, <2>4, <2>5 DEF RowsOfCaches
<1>. QED  BY <1>2, <1>5, <1>6, <1>7

(* The owner that is first to have the name of a row has the cache that the *)
(* row tells of.                                                            *)
LEMMA RowOfFirstOwner ==
  ASSUME NEW a, CachesOf(a), NEW name, NEW o, FirstOwner(Owners(a), o, name)
  PROVE  FirstOf(Collected(a), name) \in Range(Owners(a)[o].caches)
<1>1. PICK j \in Seq(Cache(a)) : j = Joined(Mapped(ListOf(a), Owners(a)))
  BY CollectedAre
<1>2. HasOf(j, name) /\ FirstOf(j, name) \in Range(Owners(a)[o].caches)
  BY <1>1, OwnersAre, FirstOfFirstOwner
<1>3. PICK d \in Cache(a) : d = a.dnsCache
  BY DEF Cache
<1>4. PICK one \in Seq(Cache(a)) : one = Add(Empty, d)
  BY SequenceOperations
<1>5. Collected(a) = Cat(j, one)
  <2>1. Cat(j, Add(Empty, d)) = Add(Cat(j, Empty), d) /\ Cat(j, Empty) = j
    BY SequenceOperations
  <2>. QED  BY <1>1, <1>3, <1>4, <2>1 DEF Collected
<1>6. FirstOf(Cat(j, one), name) = FirstOf(j, name)
  BY <1>2, FirstStays
<1>. QED  BY <1>2, <1>5, <1>6

(* The tables of engines and plugins tell who is ready.                     *)
LEMMA InfoRows ==
  ASSUME NEW a
  PROVE  /\ \A m \in DOMAIN a.engines : /\ EngineInfo(a).rows[m][1] = a.engines[m].name
                                        /\ EngineInfo(a).rows[m][2] = YesNo(a.engines[m].ready)
         /\ DOMAIN EngineInfo(a).rows = DOMAIN a.engines
         /\ \A m \in DOMAIN a.plugins : /\ PluginInfo(a).rows[m][1] = a.plugins[m].name
                                        /\ PluginInfo(a).rows[m][2] = YesNo(a.plugins[m].ready)
         /\ DOMAIN PluginInfo(a).rows = DOMAIN a.plugins
BY DEF EngineInfo, PluginInfo, Report, ForEach

(* So the answer about the caches is right.                                 *)
LEMMA CachesHold ==
  ASSUME CachesOf(arg), result = StateTables(arg)
  PROVE  CachesAreReportedOnce
<1>1. PICK a : a = arg
  OBVIOUS
<1>2. CachesOf(a)
  BY <1>1
<1>3. PICK named : named = Selected(CacheNames, NamesOfCaches(a))
  OBVIOUS
<1>. DEFINE rows == result.caches.rows
<1>4. rows = result.caches.rows
  OBVIOUS
<1>. HIDE DEF rows
<1>5. PICK len \in Nat : /\ len = Len(named) /\ DOMAIN named = 1 .. len
                         /\ len = Cardinality(NamesOfCaches(a)) /\ Range(named) = NamesOfCaches(a)
  BY <1>2, <1>3, CacheRowsAre, LenProperties
<1>6. rows = [r \in 1 .. len |-> CacheRow(r, FirstOf(Collected(a), named[r]), a.now)]
  <2>1. result.caches.rows = CacheReport(a, CacheNames).rows
    BY <1>1 DEF StateTables
  <2>2. RowsOfCaches(a, named)
    BY <1>2, <1>3, CacheRowsAre
  <2>. QED  BY <1>4, <1>5, <2>1, <2>2 DEF RowsOfCaches
<1>7. \A k \in 1 .. len : /\ rows[k][1] = k
                          /\ rows[k][2] = FirstOf(Collected(a), named[k]).name
                          /\ rows[k][6] = FirstOf(Collected(a), named[k]).hits
  BY <1>6 DEF CacheRow
<1>8. \A k \in 1 .. len : named[k] \in NamesOfCaches(a)
  BY <1>5 DEF Range
<1>9. \A k \in 1 .. len : FirstOf(Collected(a), named[k]).name = named[k]
  <2>. TAKE k \in 1 .. len
  <2>1. PICK all \in Seq(Cache(a)) : all = Collected(a) /\ {c.name : c \in Range(all)} = NamesOfCaches(a)
    BY <1>2, CollectedAre
  <2>2. HasOf(all, named[k])
    BY <1>8, <2>1 DEF HasOf
  <2>. QED  BY <2>1, <2>2, FirstIsThere
<1>10. Len(rows) = len /\ DOMAIN rows = 1 .. len
  <2>1. PICK e : e = [r \in 1 .. len |-> CacheRow(r, FirstOf(Collected(a), named[r]), a.now)]
    OBVIOUS
  <2>2. e = [r \in 1 .. len |-> e[r]]
    BY <2>1
  <2>. QED  BY <1>6, <2>1, <2>2
<1>11. {rows[k][2] : k \in DOMAIN rows} = NamesOfCaches(a)
  <2>1. \A k \in 1 .. len : rows[k][2] = named[k]
    BY <1>7, <1>9
  <2>2. {named[k] : k \in 1 .. len} = NamesOfCaches(a)
    BY <1>5 DEF Range
  <2>. QED  BY <1>10, <2>1, <2>2
<1>12. ASSUME NEW k \in DOMAIN rows, NEW o \in DOMAIN Owners(a), HasOf(Owners(a)[o].caches, rows[k][2]),
              \A m \in 1 .. o - 1 : ~HasOf(Owners(a)[m].caches, rows[k][2])
       PROVE  \E c \in Range(Owners(a)[o].caches) : c.name = rows[k][2] /\ c.hits = rows[k][6]
  <2>1. k \in 1 .. len /\ rows[k][2] = named[k]
    BY <1>7, <1>9, <1>10
  <2>2. FirstOwner(Owners(a), o, named[k])
    BY <1>12, <2>1 DEF FirstOwner
  <2>3. FirstOf(Collected(a), named[k]) \in Range(Owners(a)[o].caches)
    BY <1>2, <2>2, RowOfFirstOwner
  <2>. QED  BY <1>7, <2>1, <2>3
<1>13. ASSUME NEW t \in {result.engines, result.plugins}, NEW k \in DOMAIN t.rows, t.rows[k][2] = "no"
       PROVE  \E o \in Range(a.engines \o a.plugins) : o.name = t.rows[k][1] /\ ~o.ready
  <2>1. /\ \A m \in DOMAIN a.engines : /\ result.engines.rows[m][1] = a.engines[m].name
                                       /\ result.engines.rows[m][2] = YesNo(a.engines[m].ready)
        /\ DOMAIN result.engines.rows = DOMAIN a.engines
    <3>1. result.engines = EngineInfo(a)
      BY <1>1 DEF StateTables
    <3>. QED  BY <3>1, InfoRows, ZenonT(60)
  <2>2. /\ \A m \in DOMAIN a.plugins : /\ result.plugins.rows[m][1] = a.plugins[m].name
                                       /\ result.plugins.rows[m][2] = YesNo(a.plugins[m].ready)
        /\ DOMAIN result.plugins.rows = DOMAIN a.plugins
    <3>1. result.plugins = PluginInfo(a)
      BY <1>1 DEF StateTables
    <3>. QED  BY <3>1, InfoRows
  <2>. HIDE DEF result
  <2>3. CASE t = result.engines
    <3>1. k \in DOMAIN a.engines /\ a.engines[k].name = t.rows[k][1] /\ YesNo(a.engines[k].ready) = "no"
      BY <1>13, <2>3, <2>1
    <3>2. a.engines[k] \in Owner(a)
      BY <3>1 DEF Owner, Range
    <3>. QED  BY <1>2, <3>1, <3>2, OwnersAre DEF YesNo
  <2>4. CASE t = result.plugins
    <3>1. k \in DOMAIN a.plugins /\ a.plugins[k].name = t.rows[k][1] /\ YesNo(a.plugins[k].ready) = "no"
      BY <1>13, <2>4, <2>2
    <3>2. a.plugins[k] \in Owner(a)
      BY <3>1 DEF Owner, Range
    <3>. QED  BY <1>2, <3>1, <3>2, OwnersAre DEF YesNo
  <2>. QED  BY <2>3, <2>4
<1>. DEFINE owners == Selected(arg.engines \o arg.plugins, {o \in Range(arg.engines \o arg.plugins) : o.ready})
            owns(o, name) == \E c \in DOMAIN owners[o].caches : owners[o].caches[c].name = name
<1>14. Owners(a) = owners
  BY <1>1 DEF Owners
<1>15. ASSUME NEW k \in DOMAIN rows, NEW o \in DOMAIN owners, owns(o, rows[k][2]),
              \A m \in 1 .. o - 1 : ~owns(m, rows[k][2])
       PROVE  \E c \in DOMAIN owners[o].caches :
                owners[o].caches[c].name = rows[k][2] /\ owners[o].caches[c].hits = rows[k][6]
  <2>1. \A m, name : HasOf(Owners(a)[m].caches, name) <=> owns(m, name)
    BY <1>14 DEF HasOf, Range
  <2>. HIDE DEF owners, owns
  <2>2. \E c \in Range(owners[o].caches) : c.name = rows[k][2] /\ c.hits = rows[k][6]
    BY <1>12, <1>14, <1>15, <2>1
  <2>. QED  BY <2>2, SMTT(60) DEF Range
<1>16. NamesOfCaches(a) = {arg.dnsCache.name} \cup UNION {{o.caches[k].name : k \in DOMAIN o.caches} : o \in Range(owners)}
  BY <1>1, <1>14 DEF NamesOfCaches
<1>17. Len(rows) = Cardinality(NamesOfCaches(a)) /\ \A k \in DOMAIN rows : rows[k][1] = k
  BY <1>5, <1>7, <1>10
<1>18. \A t \in {result.engines, result.plugins} : \A k \in DOMAIN t.rows :
         t.rows[k][2] = "no" => \E o \in Range(arg.engines \o arg.plugins) : o.name = t.rows[k][1] /\ ~o.ready
  <2>. HIDE DEF arg, result
  <2>. QED  BY <1>1, <1>13
<1>. HIDE DEF arg, result
<1>19. /\ {rows[k][2] : k \in DOMAIN rows} =
            {arg.dnsCache.name} \cup UNION {{o.caches[k].name : k \in DOMAIN o.caches} : o \in Range(owners)}
       /\ Len(rows) = Cardinality({arg.dnsCache.name}
            \cup UNION {{o.caches[k].name : k \in DOMAIN o.caches} : o \in Range(owners)})
  <2>. HIDE DEF owners
  <2>. QED  BY <1>11, <1>16, <1>17
<1>. QED  BY <1>15, <1>17, <1>18, <1>19, ZenonT(60) DEF CachesAreReportedOnce, rows

-----------------------------------------------------------------------------
(* What follows the first k elements.                                       *)
LEMMA Suffix ==
  ASSUME NEW T, NEW s \in Seq(T), NEW k \in 0 .. Len(s)
  PROVE  /\ SubSeq(s, k + 1, Len(s)) \in Seq(T) /\ Len(SubSeq(s, k + 1, Len(s))) = Len(s) - k
         /\ DOMAIN SubSeq(s, k + 1, Len(s)) = 1 .. Len(s) - k
         /\ \A i \in 1 .. Len(s) - k : SubSeq(s, k + 1, Len(s))[i] = s[k + i]
<1>1. PICK len \in Nat : len = Len(s) /\ \A i \in 1 .. len : s[i] \in T
  BY LenProperties, ElementOfSeq
<1>2. PICK u : u = SubSeq(s, k + 1, len)
  OBVIOUS
<1>3. u \in Seq(T) /\ Len(u) = (IF k + 1 <= len THEN len - (k + 1) + 1 ELSE 0)
      /\ \A i \in 1 .. len - (k + 1) + 1 : u[i] = s[(k + 1) + i - 1]
  <2>1. k + 1 \in Int /\ \A i \in k + 1 .. len : s[i] \in T
    BY <1>1
  <2>. QED  BY <1>2, <2>1, SubSeqProperties, SMTT(60)
<1>4. k \in Nat /\ k <= len /\ len - (k + 1) + 1 = len - k /\ \A i \in 1 .. len - k : (k + 1) + i - 1 = k + i
  BY <1>1
<1>5. Len(u) = len - k
  BY <1>3, <1>4
<1>6. DOMAIN u = 1 .. len - k
  BY <1>3, <1>5, LenProperties
<1>. QED  BY <1>1, <1>2, <1>3, <1>4, <1>5, <1>6

(* A snapshot is what the log has from the first recent entry on.           *)
LEMMA SnapshotIs ==
  ASSUME NEW T, NEW log \in Seq(T), \A e \in T : e.end \in Int, NEW v \in Int
  PROVE  \E k \in 0 .. Len(log) : /\ Snapshot(log, v) = SubSeq(log, k + 1, Len(log))
                                  /\ k < Len(log) => log[k + 1].end > v
                                  /\ \A i \in 1 .. k : log[i].end <= v
<1>1. PICK len \in Nat : len = Len(log) /\ \A i \in 1 .. len : log[i] \in T /\ log[i].end \in Int
  BY LenProperties, ElementOfSeq
<1>2. PICK d : d = {i \in 1 .. len : log[i].end > v}
  OBVIOUS
<1>3. Snapshot(log, v) = LET k == IF d # {} THEN Min(d) ELSE 0
                         IN  IF k = 0 THEN <<>> ELSE SubSeq(log, k, len)
  BY <1>1, <1>2 DEF Snapshot, SelectInSeq
<1>4. CASE d = {}
  <2>1. Snapshot(log, v) = <<>>
    BY <1>3, <1>4
  <2>2. SubSeq(log, len + 1, len) = <<>>
    <3>1. len + 1 \in Int /\ len \in Int /\ len < len + 1
      BY <1>1
    <3>. QED  BY <3>1, SubSeqEmpty
  <2>3. \A i \in 1 .. len : log[i].end <= v
    BY <1>1, <1>2, <1>4
  <2>. QED  BY <1>1, <2>1, <2>2, <2>3
<1>5. CASE d # {}
  <2>1. PICK k : k = Min(d)
    OBVIOUS
  <2>2. k \in d /\ (\A y \in d : k <= y) /\ k \in 1 .. len
    <3>1. d \in SUBSET (1 .. len)
      BY <1>2
    <3>2. Min(d) \in d /\ \A y \in d : Min(d) <= y
      BY <1>5, <3>1, MinOfPositions
    <3>. QED  BY <2>1, <3>1, <3>2
  <2>3. Snapshot(log, v) = SubSeq(log, k, len)
    BY <1>3, <1>5, <2>1, <2>2, SMTT(60)
  <2>4. log[k].end > v /\ \A i \in 1 .. k - 1 : log[i].end <= v
    BY <1>1, <1>2, <2>2
  <2>5. PICK m \in 0 .. len : m = k - 1
    BY <2>2
  <2>6. k = m + 1
    BY <2>2, <2>5
  <2>. QED  BY <1>1, <2>3, <2>4, <2>5, <2>6
<1>. QED  BY <1>4, <1>5

(* Of rows that are joined, those of one handler.                           *)
LEMMA SelectedPart ==
  ASSUME NEW H, NEW R, NEW S, NEW parts, Maps(parts, H, Seq(R)), NEW h \in H,
         \A g \in H : IF g = h THEN Range(parts[g]) \subseteq S ELSE Range(parts[g]) \cap S = {},
         NEW hs \in Seq(H), Distinct(hs)
  PROVE  Selected(Joined(Mapped(parts, hs)), S) = IF h \in Range(hs) THEN parts[h] ELSE Empty
<1>. DEFINE I == {us \in Seq(H) : Distinct(us) =>
                    Selected(Joined(Mapped(parts, us)), S) = IF h \in Range(us) THEN parts[h] ELSE Empty}
<1>1. Empty \in I
  <2>1. Mapped(parts, Empty) = Empty /\ Empty \in Seq(H) /\ Range(Empty) = {}
    BY MappedSteps, SequenceOperations
  <2>2. Joined(Empty) = Empty /\ Selected(Empty, S) = Empty
    BY JoinedSteps, SelectedSteps
  <2>. QED  BY <2>1, <2>2
<1>2. ASSUME NEW us \in Seq(H), NEW g \in H, us \in I
      PROVE  Add(us, g) \in I
  <2>1. Add(us, g) \in Seq(H) /\ Range(Add(us, g)) = Range(us) \cup {g}
    BY SequenceOperations
  <2>. SUFFICES ASSUME Distinct(Add(us, g))
                PROVE  Selected(Joined(Mapped(parts, Add(us, g))), S) =
                         IF h \in Range(Add(us, g)) THEN parts[h] ELSE Empty
    BY <2>1
  <2>2. g \notin Range(us) /\ Distinct(us)
    BY DistinctSteps
  <2>3. PICK j \in Seq(R), t \in Seq(R) : j = Joined(Mapped(parts, us)) /\ t = parts[g]
                                       /\ Joined(Mapped(parts, Add(us, g))) = Cat(j, t)
    <3>1. parts[g] \in Seq(R)
      BY DEF Maps
    <3>. QED  BY <3>1, JoinedStep
  <2>4. Selected(Cat(j, t), S) = Cat(Selected(j, S), Selected(t, S))
    BY SelectedCat
  <2>5. Selected(j, S) = IF h \in Range(us) THEN parts[h] ELSE Empty
    BY <1>2, <2>2, <2>3
  <2>6. Selected(j, S) \in Seq(R)
    BY SelectedType
  <2>7. CASE g = h
    <3>1. Selected(t, S) = t
      <4>1. Range(t) \subseteq S
        BY <2>3, <2>7
      <4>. QED  BY <4>1, SelectedAllOrNone
    <3>2. Selected(j, S) = Empty
      BY <2>2, <2>5, <2>7
    <3>3. Cat(Empty, t) = t
      BY ConcatEmptySeq DEF Cat, Empty
    <3>. QED  BY <2>1, <2>3, <2>4, <2>7, <3>1, <3>2, <3>3
  <2>8. CASE g # h
    <3>1. Selected(t, S) = Empty
      <4>1. Range(t) \cap S = {}
        BY <2>3, <2>8
      <4>. QED  BY <4>1, SelectedAllOrNone
    <3>2. Cat(Selected(j, S), Empty) = Selected(j, S)
      BY <2>6, SequenceOperations
    <3>3. h \in Range(Add(us, g)) <=> h \in Range(us)
      BY <2>1, <2>8
    <3>. QED  BY <2>3, <2>4, <2>5, <3>1, <3>2, <3>3
  <2>. QED  BY <2>7, <2>8
<1>. HIDE DEF I
<1>3. Seq(H) \subseteq I
  BY <1>1, <1>2, BySteps
<1>. QED  BY <1>3 DEF I

(* The fields that the property asks for.                                   *)
Reported == <<"plugin", "url">>

(* They are told when they are asked for.                                   *)
LEMMA FieldsReported == SelectedFields(<<"plugin", "requeststring">>) = Reported
<1>1. PICK T : T = {"plugin", "url"}
  OBVIOUS
<1>2. PICK s : s = ForEach(<<"plugin", "requeststring">>, Canonical)
  OBVIOUS
<1>3. s = Reported
  BY <1>2 DEF ForEach, Canonical, Reported
<1>4. Reported \in Seq(T) /\ Range(Reported) \subseteq T
  BY <1>1 DEF Reported, Range
<1>5. T \subseteq Range(Fields)
  <2>1. Fields[13] = "plugin" /\ Fields[14] = "url" /\ 13 \in DOMAIN Fields /\ 14 \in DOMAIN Fields
    BY DEF Fields
  <2>. QED  BY <1>1, <2>1 DEF Range
<1>6. Selected(Reported, Range(Fields)) = Reported
  BY <1>4, <1>5, SelectedAllOrNone
<1>7. Reported # <<>>
  BY DEF Reported
<1>. QED  BY <1>2, <1>3, <1>6, <1>7 DEF SelectedFields

(* A row with these fields.                                                 *)
ReportedRow(e, uri) == [c \in DOMAIN Reported |-> FieldText(Reported[c], e, uri)]

LEMMA ReportedColumns ==
  ASSUME NEW e, NEW uri
  PROVE  ReportedRow(e, uri)[1] = uri /\ ReportedRow(e, uri)[2][2] = e.id
<1>1. DOMAIN Reported = {1, 2} /\ Reported[1] = "plugin" /\ Reported[2] = "url"
  BY DEF Reported
<1>2. FieldText("plugin", e, uri) = uri
  BY DEF FieldText
<1>3. FieldText("url", e, uri) = <<"url", e.id>>
  BY DEF FieldText
<1>. QED  BY <1>1, <1>2, <1>3 DEF ReportedRow

(* The rows of a handler, before those of all are joined.                   *)
Part(server, minutes) ==
  [h \in Range(server.handlers) |->
     LET recent == Snapshot(h.log, FirstValidTime(server.now, minutes))
     IN [k \in DOMAIN recent |-> ReportedRow(recent[k], h.uri)]]

RowSet(server, minutes) == UNION {Range(Part(server, minutes)[h]) : h \in Range(server.handlers)}

(* The rows of a handler are those of a suffix of its log, which has every  *)
(* recent entry and begins with one.                                        *)
LEMMA RecentOf ==
  ASSUME NEW server, ServerLogged(server), NEW minutes \in 1 .. MaxMinutes, NEW h \in Range(server.handlers)
  PROVE  \E k \in 0 .. Len(h.log) :
           /\ Part(server, minutes)[h] = [i \in 1 .. Len(h.log) - k |-> ReportedRow(h.log[k + i], h.uri)]
           /\ k < Len(h.log) => h.log[k + 1].end > server.now - minutes * Minute - Second
           /\ \A i \in 1 .. k : h.log[i].end <= server.now - minutes * Minute
<1>1. PICK T : T = Entry(server)
  OBVIOUS
<1>2. PICK log \in Seq(T) : log = h.log /\ T = Entry(server)
  BY <1>1, LogsAre DEF Maps
<1>3. PICK v : v = FirstValidTime(server.now, minutes)
  OBVIOUS
<1>4. v \in Int /\ v <= server.now - minutes * Minute /\ v > server.now - minutes * Minute - Second
  <2>1. Second \in Nat \ {0} /\ Minute \in Nat /\ MaxMinutes \in Nat /\ server.now \in Nat
    BY ReportAssumption DEF ServerLogged
  <2>2. PICK q : q = server.now % Second
    OBVIOUS
  <2>3. q \in Nat /\ q < Second
    BY <2>1, <2>2
  <2>4. Clamped(minutes) = minutes
    BY <2>1 DEF Clamped
  <2>5. PICK p \in Int : p = minutes * Minute
    BY <2>1
  <2>6. v = (server.now - q) - p
    BY <1>3, <2>2, <2>4, <2>5 DEF FirstValidTime
  <2>. QED  BY <2>1, <2>3, <2>5, <2>6
<1>5. \A e \in T : e.end \in Int
  BY <1>2, LogsAre
<1>6. PICK k \in 0 .. Len(log) : /\ Snapshot(log, v) = SubSeq(log, k + 1, Len(log))
                                 /\ k < Len(log) => log[k + 1].end > v
                                 /\ \A i \in 1 .. k : log[i].end <= v
  BY <1>4, <1>5, SnapshotIs
<1>7. PICK recent : recent = SubSeq(log, k + 1, Len(log))
  OBVIOUS
<1>8. DOMAIN recent = 1 .. Len(log) - k /\ \A i \in 1 .. Len(log) - k : recent[i] = log[k + i]
  BY <1>7, Suffix
<1>9. Part(server, minutes)[h] = [i \in 1 .. Len(log) - k |-> ReportedRow(log[k + i], h.uri)]
  <2>1. Part(server, minutes)[h] = [i \in DOMAIN recent |-> ReportedRow(recent[i], h.uri)]
    BY <1>2, <1>3, <1>6, <1>7 DEF Part
  <2>. QED  BY <1>8, <2>1
<1>10. \A i \in 1 .. Len(log) : log[i].end \in Int
  BY <1>5, ElementOfSeq
<1>11. Len(log) \in Nat
  BY LenProperties
<1>12. PICK since \in Int : since = server.now - minutes * Minute
  BY ReportAssumption DEF ServerLogged
<1>13. ASSUME k < Len(log)
       PROVE  log[k + 1].end > since - Second
  <2>1. PICK e \in Int : e = log[k + 1].end /\ e > v
    BY <1>6, <1>10, <1>11, <1>13, SMTT(60)
  <2>2. v > since - Second /\ v \in Int /\ Second \in Int
    BY <1>4, <1>12, ReportAssumption
  <2>. QED  BY <1>12, <2>1, <2>2
<1>14. \A i \in 1 .. k : log[i].end <= since
  BY <1>4, <1>6, <1>10, <1>11, <1>12
<1>. QED  BY <1>2, <1>6, <1>9, <1>12, <1>13, <1>14

(* The table has the rows of all handlers, joined.                          *)
LEMMA RowsReported ==
  ASSUME NEW server, ServerLogged(server), server.logging, NEW minutes
  PROVE  LastRequests(server, "all", minutes, <<"plugin", "requeststring">>).rows =
           Joined(Mapped(Part(server, minutes), server.handlers))
<1>1. LoggedRequests(server, "all") = server.handlers
  <2>1. PICK T : T = Range(server.handlers)
    OBVIOUS
  <2>2. PICK all \in Seq(T) : all = server.handlers
    BY <2>1 DEF ServerLogged, LoggedHandlers
  <2>3. PICK S : S = {h \in Range(server.handlers) : "all" \in {"all", h.plugin}}
    OBVIOUS
  <2>4. Range(all) \subseteq S
    BY <2>2, <2>3
  <2>5. Selected(all, S) = all
    BY <2>4, SelectedAllOrNone
  <2>. QED  BY <2>2, <2>3, <2>5 DEF LoggedRequests
<1>2. PICK handlers : handlers = server.handlers
  OBVIOUS
<1>3. PICK v : v = FirstValidTime(server.now, minutes)
  OBVIOUS
<1>4. LastRequests(server, "all", minutes, <<"plugin", "requeststring">>).rows =
        Joined([m \in DOMAIN handlers |->
                  [k \in DOMAIN Snapshot(handlers[m].log, v) |->
                     ReportedRow(Snapshot(handlers[m].log, v)[k], handlers[m].uri)]])
  BY <1>1, <1>2, <1>3, FieldsReported DEF LastRequests, Report, ForEach, ReportedRow
<1>5. \A m \in DOMAIN handlers : Part(server, minutes)[handlers[m]] =
        [k \in DOMAIN Snapshot(handlers[m].log, v) |-> ReportedRow(Snapshot(handlers[m].log, v)[k], handlers[m].uri)]
  BY <1>2, <1>3 DEF Part, Range
<1>. QED  BY <1>2, <1>4, <1>5 DEF Mapped

(* The rows with the URI of a handler are those of the handler.             *)
LEMMA RowsOfHandler ==
  ASSUME NEW server, ServerLogged(server), NEW minutes \in 1 .. MaxMinutes, NEW h \in Range(server.handlers),
         NEW rows, rows = Joined(Mapped(Part(server, minutes), server.handlers))
  PROVE  Selected(rows, {row \in Range(rows) : row[1] = h.uri}) = Part(server, minutes)[h]
<1>1. PICK H, R, parts : H = Range(server.handlers) /\ R = RowSet(server, minutes) /\ parts = Part(server, minutes)
  OBVIOUS
<1>2. ASSUME NEW g \in H
      PROVE  parts[g] \in Seq(R) /\ \A row \in Range(parts[g]) : row[1] = g.uri
  <2>1. g \in Range(server.handlers) /\ parts[g] = Part(server, minutes)[g]
    BY <1>1
  <2>2. PICK k \in 0 .. Len(g.log) :
          /\ Part(server, minutes)[g] = [i \in 1 .. Len(g.log) - k |-> ReportedRow(g.log[k + i], g.uri)]
          /\ k < Len(g.log) => g.log[k + 1].end > server.now - minutes * Minute - Second
          /\ \A i \in 1 .. k : g.log[i].end <= server.now - minutes * Minute
    BY <2>1, RecentOf
  <2>3. PICK len \in Nat : len = Len(g.log) - k
    <3>1. PICK log \in Seq(Entry(server)) : log = g.log
      BY <1>1, LogsAre DEF Maps
    <3>. QED  BY <3>1, LenProperties, SMTT(60)
  <2>4. parts[g] = [i \in 1 .. len |-> ReportedRow(g.log[k + i], g.uri)]
    BY <2>1, <2>2, <2>3
  <2>5. \A row \in Range(parts[g]) : row \in R
    BY <1>1 DEF RowSet
  <2>6. \A i \in 1 .. len : ReportedRow(g.log[k + i], g.uri) \in Range(parts[g])
    BY <2>4 DEF Range
  <2>7. parts[g] \in Seq(R)
    <3>1. PICK p : p = parts[g]
      OBVIOUS
    <3>2. p = [i \in 1 .. len |-> p[i]] /\ \A i \in 1 .. len : p[i] \in R
      BY <2>4, <2>5, <2>6, <3>1
    <3>. QED  BY <3>1, <3>2
  <2>8. \A row \in Range(parts[g]) : row[1] = g.uri
    BY <2>4, ReportedColumns DEF Range
  <2>. QED  BY <2>7, <2>8
<1>3. Maps(parts, H, Seq(R))
  BY <1>1, <1>2 DEF Maps, Part
<1>4. PICK hs \in Seq(H) : hs = server.handlers /\ Distinct(hs) /\ \A f, g \in H : f.uri = g.uri => f = g
  <2>1. server.handlers \in Seq(H)
    BY <1>1 DEF ServerLogged, LoggedHandlers
  <2>2. \A j, k \in DOMAIN server.handlers : server.handlers[j].uri = server.handlers[k].uri => j = k
    BY DEF ServerLogged, LoggedHandlers, Distinct, ForEach
  <2>3. Distinct(server.handlers)
    BY <2>2 DEF Distinct
  <2>4. \A f, g \in H : f.uri = g.uri => f = g
    <3>. TAKE f \in H, g \in H
    <3>1. PICK j, k \in DOMAIN server.handlers : f = server.handlers[j] /\ g = server.handlers[k]
      BY <1>1 DEF Range
    <3>. QED  BY <2>2, <3>1
  <2>. QED  BY <2>1, <2>3, <2>4
<1>5. PICK S : S = {row \in R : row[1] = h.uri}
  OBVIOUS
<1>6. \A g \in H : IF g = h THEN Range(parts[g]) \subseteq S ELSE Range(parts[g]) \cap S = {}
  <2>1. \A g \in H : Range(parts[g]) \subseteq R
    BY <1>1 DEF RowSet
  <2>. QED  BY <1>1, <1>2, <1>4, <1>5, <2>1
<1>7. Selected(Joined(Mapped(parts, hs)), S) = IF h \in Range(hs) THEN parts[h] ELSE Empty
  BY <1>1, <1>3, <1>4, <1>6, SelectedPart
<1>8. PICK all \in Seq(R) : all = rows /\ all = Joined(Mapped(parts, hs))
  <2>1. Mapped(parts, hs) \in Seq(Seq(R))
    BY <1>3, MappedSteps
  <2>. QED  BY <1>1, <1>4, <2>1, JoinedSteps
<1>9. PICK Q : Q = {row \in Range(all) : row[1] = h.uri}
  OBVIOUS
<1>10. Selected(all, Q) = Selected(all, S)
  <2>1. Range(all) \subseteq R
    BY SequenceOperations
  <2>2. Range(all) \cap Q = Range(all) \cap S
    BY <1>5, <1>9, <2>1
  <2>. QED  BY <2>2, SelectedAgree
<1>. QED  BY <1>1, <1>4, <1>7, <1>8, <1>9, <1>10

(* So the answer about the last requests is right.                          *)
LEMMA RecentHold ==
  ASSUME ServerLogged(arg.server), result = RequestTables(arg)
  PROVE  RecentRequestsAreReported
<1>. DEFINE urls(h) == Selected(result.last.rows, {row \in Range(result.last.rows) : row[1] = h.uri})
            since == arg.server.now - arg.minutes * Minute
            ids(h) == [k \in DOMAIN urls(h) |-> urls(h)[k][2][2]]
            log(h) == [k \in DOMAIN h.log |-> h.log[k].id]
            whole(h) ==
              /\ \A k \in DOMAIN h.log : h.log[k].end > since => log(h)[k] \in Range(ids(h))
              /\ \E k \in 0 .. Len(log(h)) :
                   /\ ids(h) = SubSeq(log(h), k + 1, Len(log(h)))
                   /\ k < Len(log(h)) => h.log[k + 1].end > since - Second
<1>1. ASSUME arg.server.logging, arg.plugin = "all", arg.fields = <<"plugin", "requeststring">>,
             arg.minutes \in 1 .. MaxMinutes, NEW h \in Range(arg.server.handlers)
      PROVE  whole(h)
  <2>1. PICK server, minutes : server = arg.server /\ minutes = arg.minutes
    OBVIOUS
  <2>2. ServerLogged(server) /\ server.logging /\ minutes \in 1 .. MaxMinutes /\ h \in Range(server.handlers)
    BY <1>1, <2>1
  <2>3. result.last.rows = Joined(Mapped(Part(server, minutes), server.handlers))
    <3>1. result.last.rows = LastRequests(server, "all", minutes, <<"plugin", "requeststring">>).rows
      BY <1>1, <2>1 DEF RequestTables
    <3>. QED  BY <2>2, <3>1, RowsReported
  <2>4. urls(h) = Part(server, minutes)[h]
    <3>1. PICK rows : rows = result.last.rows
      OBVIOUS
    <3>. QED  BY <2>2, <2>3, <3>1, RowsOfHandler
  <2>5. PICK entries \in Seq(Entry(server)) : entries = h.log
    BY <2>2, LogsAre DEF Maps
  <2>6. PICK k \in 0 .. Len(h.log) :
          /\ Part(server, minutes)[h] = [i \in 1 .. Len(h.log) - k |-> ReportedRow(h.log[k + i], h.uri)]
          /\ k < Len(h.log) => h.log[k + 1].end > server.now - minutes * Minute - Second
          /\ \A i \in 1 .. k : h.log[i].end <= server.now - minutes * Minute
    BY <2>2, RecentOf
  <2>7. PICK len \in Nat : len = Len(h.log) /\ DOMAIN h.log = 1 .. len
    BY <2>5, LenProperties
  <2>8. ids(h) = [i \in 1 .. len - k |-> h.log[k + i].id]
    <3>. HIDE DEF urls
    <3>1. DOMAIN urls(h) = 1 .. len - k /\ \A i \in 1 .. len - k : urls(h)[i] = ReportedRow(h.log[k + i], h.uri)
      BY <2>4, <2>6, <2>7
    <3>2. \A i \in 1 .. len - k : urls(h)[i][2][2] = h.log[k + i].id
      BY <3>1, ReportedColumns
    <3>. QED  BY <3>1, <3>2
  <2>9. PICK told, names : told = ids(h) /\ names = log(h)
    OBVIOUS
  <2>10. PICK D : D = {e.id : e \in Entry(server)}
    OBVIOUS
  <2>11. names \in Seq(D) /\ Len(names) = len /\ \A i \in 1 .. len : names[i] = h.log[i].id
    <3>1. names = [i \in 1 .. len |-> h.log[i].id] /\ \A i \in 1 .. len : h.log[i].id \in D
      BY <2>5, <2>7, <2>9, <2>10, ElementOfSeq
    <3>. QED  BY <3>1
  <2>12. told = SubSeq(names, k + 1, len)
    <3>1. PICK u : u = SubSeq(names, k + 1, len)
      OBVIOUS
    <3>2. u \in Seq(D) /\ Len(u) = len - k /\ \A i \in 1 .. len - k : u[i] = names[k + i]
      BY <2>6, <2>7, <2>11, <3>1, Suffix
    <3>3. \A i \in 1 .. len - k : k + i \in 1 .. len
      BY <2>6, <2>7
    <3>4. \A i \in 1 .. len - k : u[i] = h.log[k + i].id
      BY <2>11, <3>2, <3>3
    <3>5. told = [i \in 1 .. len - k |-> h.log[k + i].id]
      BY <2>8, <2>9
    <3>6. told = [i \in 1 .. len - k |-> u[i]]
      BY <3>4, <3>5
    <3>. QED  BY <3>1, <3>2, <3>6, LenProperties
  <2>13. ASSUME NEW i \in 1 .. len, h.log[i].end > since
         PROVE  names[i] \in Range(told)
    <3>1. i \notin 1 .. k
      <4>1. h.log[i].end \in Int /\ since \in Int
        <5>1. h.log[i] \in Entry(server)
          BY <2>5, <2>7, ElementOfSeq
        <5>2. h.log[i].end \in Int
          BY <2>2, <5>1, LogsAre
        <5>3. since \in Int
          BY <2>1, <2>2, ReportAssumption, SMTT(60) DEF ServerLogged
        <5>. QED  BY <5>2, <5>3
      <4>2. \A m \in 1 .. k : h.log[m].end <= since
        BY <2>1, <2>6
      <4>. QED  BY <2>13, <4>1, <4>2
    <3>2. PICK m \in 1 .. len - k : i = k + m
      BY <2>6, <2>7, <3>1
    <3>3. told[m] = h.log[k + m].id /\ m \in DOMAIN told
      BY <2>8, <2>9
    <3>. QED  BY <2>11, <3>2, <3>3 DEF Range
  <2>14. k < len => h.log[k + 1].end > since - Second
    BY <2>1, <2>6, <2>7
  <2>. HIDE DEF ids, log, since
  <2>. QED  BY <2>6, <2>7, <2>9, <2>11, <2>12, <2>13, <2>14
<1>. HIDE DEF arg, result
<1>. QED  BY <1>1, Zenon DEF RecentRequestsAreReported

-----------------------------------------------------------------------------
(* An answer is the one that is computed from the question.                 *)
Answered ==
  /\ question.arg \in Questions[question.about]
  /\ \/ reply = Unanswered
     \/ /\ reply.about = question.about
        /\ \/ reply.about \notin {"precondition", "user", "address", "requests", "state"}
           \/ reply.about = "precondition" /\ reply.result = Precondition(question.arg)
           \/ reply.about = "user" /\ reply.result = Authenticated(question.arg)
           \/ reply.about = "address" /\ reply.result = Filtered(question.arg)
           \/ reply.about = "requests" /\ reply.result = RequestTables(question.arg)
           \/ reply.about = "state" /\ reply.result = StateTables(question.arg)

LEMMA AnsweredInit == ConversionInit => Answered
BY DEF ConversionInit, Answered

LEMMA AnsweredStep == Answered /\ [RequestNext \/ AskedElsewhere]_conversionVars => Answered'
<1>. SUFFICES ASSUME Answered, [RequestNext \/ AskedElsewhere]_conversionVars
              PROVE  Answered'
  OBVIOUS
<1>1. CASE Answer("precondition", Precondition)
  BY <1>1 DEF Answered, Answer
<1>2. CASE Answer("user", Authenticated)
  BY <1>2 DEF Answered, Answer
<1>3. CASE Answer("address", Filtered)
  BY <1>3 DEF Answered, Answer
<1>4. CASE Answer("requests", RequestTables)
  BY <1>4 DEF Answered, Answer
<1>5. CASE Answer("state", StateTables)
  BY <1>5 DEF Answered, Answer
<1>6. CASE AskedElsewhere
  BY <1>6 DEF Answered, AskedElsewhere
<1>7. CASE UNCHANGED conversionVars
  BY <1>7 DEF Answered, conversionVars
<1>. QED  BY <1>1, <1>2, <1>3, <1>4, <1>5, <1>6, <1>7 DEF RequestNext

(* What the invariant says of each kind of answer.                          *)
LEMMA AnsweredCases ==
  ASSUME Answered
  PROVE  /\ Asks("precondition") => arg \in Questions["precondition"] /\ result = Precondition(arg)
         /\ Asks("user") => arg \in Questions["user"] /\ result = Authenticated(arg)
         /\ Asks("address") => arg \in Questions["address"] /\ result = Filtered(arg)
         /\ Asks("requests") => arg \in Questions["requests"] /\ result = RequestTables(arg)
         /\ Asks("state") => arg \in Questions["state"] /\ result = StateTables(arg)
<1>1. reply = Unanswered => reply.about = "nothing"
  BY DEF Unanswered
<1>. QED  BY <1>1 DEF Answered, Asks, arg, result

(* With the invariant, each of the three kinds of requests is understood.   *)
LEMMA AnsweredIsUnderstood == Answered => RequestsAreUnderstood
<1>. SUFFICES ASSUME Answered PROVE RequestsAreUnderstood
  OBVIOUS
<1>1. ConditionsAreThoseOfTheRfc
  <2>1. CASE Asks("precondition")
    BY <2>1, AnsweredCases, RequestAnswersAssumption, ConditionsHold, SMTT(60)
  <2>. QED  BY <2>1 DEF ConditionsAreThoseOfTheRfc
<1>2. LastCallDecides
  <2>1. CASE Asks("user")
    BY <2>1, AnsweredCases, RequestAnswersAssumption, UsersHold
  <2>. QED  BY <2>1 DEF LastCallDecides
<1>3. AddressesInRangePass
  <2>1. CASE Asks("address")
    <3>1. \A k \in DOMAIN arg.formats : arg.formats[k] \in Range(arg.formats)
      BY DEF Range
    <3>. QED  BY <2>1, <3>1, AnsweredCases, RequestAnswersAssumption, AddressesHold
  <2>. QED  BY <2>1 DEF AddressesInRangePass
<1>. QED  BY <1>1, <1>2, <1>3 DEF RequestsAreUnderstood

(* With the invariant, each of the two kinds of reports is complete.        *)
LEMMA AnsweredIsComplete == Answered => ReportsAreComplete
<1>. SUFFICES ASSUME Answered PROVE ReportsAreComplete
  OBVIOUS
<1>1. RecentRequestsAreReported /\ StatisticsAddUp
  <2>1. CASE Asks("requests")
    <3>1. result = RequestTables(arg)
      BY <2>1, AnsweredCases
    <3>2. ServerLogged(arg.server)
      BY <2>1, AnsweredCases, RequestAnswersAssumption DEF ServerLogged
    <3>. QED  BY <3>1, <3>2, RecentHold, StatisticsHold
  <2>. QED  BY <2>1 DEF RecentRequestsAreReported, StatisticsAddUp
<1>2. CachesAreReportedOnce /\ RegistryIsReported
  <2>1. CASE Asks("state")
    <3>1. result = StateTables(arg)
      BY <2>1, AnsweredCases
    <3>2. CachesOf(arg) /\ RegistryOf(arg)
      BY <2>1, AnsweredCases, RequestAnswersAssumption DEF CachesOf, RegistryOf
    <3>. QED  BY <3>1, <3>2, CachesHold, RegistryHolds
  <2>. QED  BY <2>1 DEF CachesAreReportedOnce, RegistryIsReported
<1>. QED  BY <1>1, <1>2, SMTT(60) DEF ReportsAreComplete

(* What a request says of itself is understood as it was meant, in lists of *)
(* any length and after any number of calls.                                *)
THEOREM RequestsAreUnderstoodAlways == AnswerSpec => []RequestsAreUnderstood
<1>1. ConversionInit => Answered
  BY AnsweredInit
<1>2. Answered /\ [RequestNext \/ AskedElsewhere]_conversionVars => Answered'
  BY AnsweredStep
<1>3. Answered => RequestsAreUnderstood
  BY AnsweredIsUnderstood
<1>. QED  BY <1>1, <1>2, <1>3, PTL DEF AnswerSpec

(* The reports tell what there is, whatever the handlers, their logs, the   *)
(* owners of caches and the registry are.                                   *)
THEOREM ReportsAreCompleteAlways == AnswerSpec => []ReportsAreComplete
<1>1. ConversionInit => Answered
  BY AnsweredInit
<1>2. Answered /\ [RequestNext \/ AskedElsewhere]_conversionVars => Answered'
  BY AnsweredStep
<1>3. Answered => ReportsAreComplete
  BY AnsweredIsComplete
<1>. QED  BY <1>1, <1>2, <1>3, PTL DEF AnswerSpec

=============================================================================
