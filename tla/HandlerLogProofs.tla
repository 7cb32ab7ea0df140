-------------------------- MODULE HandlerLogProofs --------------------------
(***************************************************************************)
(* Proofs about HandlerLog: the access log is complete and in order, and   *)
(* the purge spares readers, for any number of requests and readers.       *)
(***************************************************************************)
EXTENDS HandlerLog, TLAPS

(* The list holds the latest requests without a gap.                        *)
Suffix == \E n \in 0 .. accepted : log = (n + 1) .. accepted

(* Who may hold a batch of entries, and when.  A view that is off has an    *)
(* empty list, and its access log is open whenever a batch is about to be   *)
(* written.                                                                 *)
Places ==
  /\ cbuf # {} => cpc = "write"
  /\ sbuf # {} => spc = "write"
  /\ dbuf # {} => dpc = "write" /\ isLogging
  /\ cpc # "sleep" => cleaner /\ dpc = "live" /\ spc \notin {"write", "stop"}
  /\ spc = "switch" => (cleaner <=> enabled)
  /\ spc \in {"write", "stop"} => ~isLogging /\ ~enabled /\ ~cleaner
  /\ dpc = "live" /\ spc = "idle" => (enabled <=> isLogging)
  /\ dpc = "live" /\ spc \in {"join", "switch"} => (enabled <=> ~isLogging)
  /\ ~isLogging => log = {}
  /\ isLogging \/ cbuf # {} \/ sbuf # {} => running

(* What lets the purge and the destructor drop entries: those old enough    *)
(* for this round are flushed, and a view on its way out has only late ones.*)
Flushed ==
  /\ cpc \in {"write", "purge"} => \A e \in Unflushed : e > climit
  /\ dpc # "live" => Due = {}
  /\ dpc = "live" => inTime = accepted

-----------------------------------------------------------------------------
(* First and last entries of an interval.                                   *)
LEMMA Ends ==
  ASSUME NEW m \in Nat, NEW n \in Nat, m <= n
  PROVE  First(m .. n) = m /\ Last(m .. n) = n
BY DEF First, Last

LEMMA LastEntry ==
  ASSUME TypeOK, Suffix, log # {}
  PROVE  Last(log) = accepted /\ First(log) \in log
<1>1. PICK n \in 0 .. accepted : log = (n + 1) .. accepted
  BY DEF Suffix
<1>. QED  BY <1>1, Ends DEF TypeOK

(* Type correctness, with the shape of the list.                            *)
LEMMA TypeInit == Init => TypeOK /\ Suffix
<1>. SUFFICES ASSUME Init PROVE TypeOK /\ Suffix
  OBVIOUS
<1>1. enabled \in BOOLEAN /\ isLogging \in BOOLEAN /\ running \in BOOLEAN /\ cleaner \in BOOLEAN /\ crashed \in BOOLEAN /\ down \in BOOLEAN
  BY DEF Init
<1>2. log = (accepted + 1) .. accepted /\ accepted \in 0 .. accepted
  BY DEF Init
<1>3. 0 \in 0 .. MaxEntries
  BY HandlerLogAssumption
<1>. QED  BY <1>1, <1>2, <1>3 DEF Init, TypeOK, Suffix, End

USE DEF logVars, diskVars, cleanVars, setVars, destroyVars, readVars

LEMMA SuffixStep ==
  ASSUME TypeOK, Suffix, [Next]_vars
  PROVE  Suffix'
<1>. USE DEF TypeOK
<1>0. PICK n \in 0 .. accepted : log = (n + 1) .. accepted
  BY DEF Suffix
<1>1. CASE log' = log /\ accepted' = accepted
  BY <1>1 DEF Suffix
<1>2. CASE log' = {} /\ accepted' = accepted
  <2>1. log' = (accepted' + 1) .. accepted' /\ accepted' \in 0 .. accepted'
    BY <1>2
  <2>. QED  BY <2>1 DEF Suffix
<1>3. CASE AppendLoggedRequest
  <2>1. log' = (n + 1) .. accepted' /\ n \in 0 .. accepted'
    BY <1>0, <1>3 DEF AppendLoggedRequest
  <2>. QED  BY <2>1 DEF Suffix
<1>4. CASE accepted' = accepted /\ log' = Survivors
  <2>1. CASE climit <= n
    <3>1. log' = log
      BY <1>0, <1>4, <2>1 DEF Survivors
    <3>. QED  BY <1>1, <1>4, <3>1
  <2>2. CASE n < climit
    <3>1. log' = (climit + 1) .. accepted' /\ climit \in 0 .. accepted'
      BY <1>0, <1>4, <2>2 DEF Survivors
    <3>. QED  BY <3>1 DEF Suffix
  <2>. QED  BY <2>1, <2>2
<1>. QED
  BY <1>1, <1>2, <1>3, <1>4 DEF Next, Cleaning, Switching, vars, AppendTooLate, Age, Shutdown, CleanLogBegin, CleanLogSkip, CleanLogSnapshot,
    CleanLogWrite, CleanLogPurge, SetLogging, JoinCleaner, SwitchOff, SwitchOn, SwitchRemoved, SwitchWrite,
    SwitchStop, Destroy, DestroyWrite, GetLoggedRequests, ReadNext, ReleaseLogRange, Crash

LEMMA BooleanStep ==
  ASSUME TypeOK, [Next]_vars
  PROVE  /\ isLogging' \in BOOLEAN /\ running' \in BOOLEAN /\ enabled' \in BOOLEAN
         /\ cleaner' \in BOOLEAN /\ crashed' \in BOOLEAN /\ down' \in BOOLEAN
BY ZenonT(60) DEF TypeOK, Next, Cleaning, Switching, vars, AppendLoggedRequest, AppendTooLate, Age, Shutdown, CleanLogBegin, CleanLogSkip, CleanLogSnapshot,
    CleanLogWrite, CleanLogPurge, SetLogging, JoinCleaner, SwitchOff, SwitchOn, SwitchRemoved, SwitchWrite,
    SwitchStop, Destroy, DestroyWrite, GetLoggedRequests, ReadNext, ReleaseLogRange, Crash

LEMMA TypeStep ==
  ASSUME TypeOK, Suffix, [Next]_vars
  PROVE  TypeOK'
<1>0. /\ isLogging' \in BOOLEAN /\ running' \in BOOLEAN /\ enabled' \in BOOLEAN
      /\ cleaner' \in BOOLEAN /\ crashed' \in BOOLEAN /\ down' \in BOOLEAN
  BY BooleanStep
<1>. USE HandlerLogAssumption, <1>0 DEF TypeOK
<1>c. CASE Crash
  BY <1>c DEF Crash
<1>1. CASE AppendLoggedRequest
  BY <1>1 DEF AppendLoggedRequest
<1>2. CASE Age
  BY <1>2 DEF Age
<1>20. CASE Shutdown
  BY <1>20 DEF Shutdown
<1>3. CASE CleanLogBegin
  BY <1>3 DEF CleanLogBegin
<1>21. CASE CleanLogSkip
  BY <1>21 DEF CleanLogSkip
<1>4. CASE CleanLogSnapshot
  <2>. SUFFICES ASSUME Valid(marker) PROVE TypeOK'
    BY <1>c, <1>4 DEF CleanLogSnapshot
  <2>1. Unflushed \subseteq 1 .. accepted /\ (Unflushed # {} => Last(log) = accepted)
    BY LastEntry DEF Unflushed
  <2>2. marker' \in 0 .. accepted
    BY <1>4, <2>1 DEF CleanLogSnapshot
  <2>. QED  BY <1>4, <2>1, <2>2 DEF CleanLogSnapshot
<1>5. CASE CleanLogWrite
  BY <1>5 DEF CleanLogWrite, Written
<1>6. CASE CleanLogPurge
  <2>1. log' \subseteq log /\ (marker' = marker \/ marker' = 0)
    BY <1>6 DEF CleanLogPurge, Survivors, End
  <2>. QED  BY <1>6, <2>1 DEF CleanLogPurge
<1>7. CASE \E on \in BOOLEAN : SetLogging(on)
  BY <1>7 DEF SetLogging
<1>8. CASE JoinCleaner
  BY <1>8 DEF JoinCleaner
<1>9. CASE SwitchOff
  <2>. SUFFICES ASSUME Valid(marker) PROVE TypeOK'
    BY <1>c, <1>9 DEF SwitchOff
  <2>1. sbuf' \subseteq log /\ log' = {} /\ marker' = 0
    BY <1>9 DEF SwitchOff, End, Unflushed
  <2>2. UNCHANGED <<accepted, inTime, old, down, diskVars, cleanVars, enabled, destroyVars, readVars, crashed>> /\ spc' = "write"
    BY <1>9 DEF SwitchOff
  <2>. QED  BY <2>1, <2>2
<1>10. CASE SwitchOn
  BY <1>10 DEF SwitchOn, End
<1>11. CASE SwitchRemoved
  BY <1>11 DEF SwitchRemoved
<1>12. CASE SwitchWrite
  BY <1>c, <1>12 DEF SwitchWrite, Written
<1>13. CASE SwitchStop
  BY <1>c, <1>13 DEF SwitchStop
<1>14. CASE Destroy
  <2>. SUFFICES ASSUME Valid(marker) PROVE TypeOK'
    BY <1>c, <1>14 DEF Destroy
  <2>1. Unflushed \subseteq 1 .. accepted /\ (Unflushed # {} => Last(log) = accepted)
    BY LastEntry DEF Unflushed
  <2>2. marker' \in 0 .. accepted
    BY <1>14, <2>1 DEF Destroy
  <2>. QED  BY <1>14, <2>1, <2>2 DEF Destroy
<1>15. CASE DestroyWrite
  BY <1>15 DEF DestroyWrite, Written, End
<1>16. ASSUME NEW r \in Reader, GetLoggedRequests(r) PROVE TypeOK'
  <2>1. log # {} => First(log) \in log
    BY LastEntry
  <2>. DEFINE start == IF log = {} THEN End ELSE First(log)
  <2>2. start \in 0 .. accepted
    <3>1. CASE log = {}
      BY <3>1 DEF End
    <3>2. CASE log # {}
      <4>1. start \in 1 .. accepted
        BY <2>1, <3>2
      <4>2. accepted \in Nat
        OBVIOUS
      <4>. HIDE DEF start
      <4>. QED  BY <4>1, <4>2
    <3>. QED  BY <3>1, <3>2
  <2>3. at' = [at EXCEPT ![r] = start] /\ holding' = holding \cup {r}
    BY <1>16 DEF GetLoggedRequests
  <2>. HIDE DEF start
  <2>4. at' \in [Reader -> 0 .. accepted] /\ holding' \subseteq Reader
    BY <2>2, <2>3
  <2>. QED  BY <1>16, <2>4 DEF GetLoggedRequests
<1>17. ASSUME NEW r \in Reader, ReadNext(r) PROVE TypeOK'
  <2>. DEFINE rest == {e \in log : e > at[r]}
  <2>1. rest # {} => First(rest) \in 0 .. accepted
    <3>1. PICK n \in 0 .. accepted : log = (n + 1) .. accepted
      BY DEF Suffix
    <3>0. at[r] \in Nat
      BY <1>17
    <3>2. \E m \in Nat : rest = m .. accepted
      <4>1. CASE at[r] <= n
        <5>1. rest = (n + 1) .. accepted
          BY <3>0, <3>1, <4>1
        <5>. QED  BY <5>1
      <4>2. CASE n < at[r]
        <5>1. rest = (at[r] + 1) .. accepted
          BY <3>0, <3>1, <4>2
        <5>. QED  BY <5>1, <3>0
      <4>. QED  BY <4>1, <4>2, <3>0
    <3>3. PICK m \in Nat : rest = m .. accepted
      BY <3>2
    <3>4. rest # {} => m <= accepted /\ accepted \in Nat
      BY <3>3
    <3>5. rest # {} => First(rest) = m
      BY <3>3, <3>4, Ends
    <3>. QED  BY <3>4, <3>5
  <2>. HIDE DEF rest
  <2>. SUFFICES ASSUME Valid(at[r]) PROVE TypeOK'
    BY <1>c, <1>17 DEF ReadNext
  <2>2. at' = [at EXCEPT ![r] = IF rest = {} THEN End ELSE First(rest)]
    BY <1>17 DEF ReadNext, rest
  <2>3. at' \in [Reader -> 0 .. accepted]
    BY <2>1, <2>2 DEF End
  <2>. QED  BY <1>17, <2>3 DEF ReadNext
<1>18. ASSUME NEW r \in Reader, ReleaseLogRange(r) PROVE TypeOK'
  <2>. SUFFICES ASSUME dpc # "gone" PROVE TypeOK'
    BY <1>c, <1>18 DEF ReleaseLogRange
  <2>1. at' \in [Reader -> 0 .. accepted]
    BY <1>18 DEF ReleaseLogRange, End
  <2>. QED  BY <1>18, <2>1 DEF ReleaseLogRange
<1>19. CASE UNCHANGED vars
  BY <1>19 DEF vars
<1>. QED
  BY <1>1, <1>2, <1>3, <1>4, <1>5, <1>6, <1>7, <1>8, <1>9, <1>10, <1>11, <1>12, <1>13, <1>14,
     <1>15, <1>16, <1>17, <1>18, <1>19, <1>20, <1>21, <1>c DEF Next, Cleaning, Switching, AppendTooLate

(* Type correctness of every behaviour (the state of one view's log).       *)
THEOREM TypeCorrect == Spec => []TypeOK
<1>1. TypeOK /\ Suffix /\ [Next]_vars => TypeOK' /\ Suffix'
  BY TypeStep, SuffixStep
<1>. QED  BY TypeInit, <1>1, PTL DEF Spec

-----------------------------------------------------------------------------
(* Places is an invariant: an action moves one thread and what it holds.    *)
LEMMA PlacesInit == Init => Places
BY DEF Init, Places

LEMMA PlacesStep ==
  ASSUME TypeOK, Places, [Next]_vars
  PROVE  Places'
<1>. USE DEF Places
<1>c. CASE Crash
  BY <1>c DEF Crash
<1>1. CASE AppendLoggedRequest
  BY <1>1 DEF AppendLoggedRequest
<1>2. CASE Age \/ Shutdown
  BY <1>2 DEF Age, Shutdown
<1>3. CASE CleanLogBegin \/ CleanLogSkip
  BY <1>3 DEF CleanLogBegin, CleanLogSkip
<1>4. CASE CleanLogSnapshot
  <2>1. Unflushed # {} => log # {}
    BY DEF Unflushed
  <2>. QED  BY <1>c, <1>4, <2>1 DEF CleanLogSnapshot
<1>5. CASE CleanLogWrite
  BY <1>5 DEF CleanLogWrite
<1>6. CASE CleanLogPurge
  <2>1. log = {} => log' = {}
    BY <1>6 DEF CleanLogPurge, Survivors
  <2>. QED  BY <1>6, <2>1 DEF CleanLogPurge
<1>7. ASSUME NEW on \in BOOLEAN, SetLogging(on) PROVE Places'
  BY <1>7 DEF SetLogging, TypeOK
<1>8. CASE JoinCleaner
  BY <1>8 DEF JoinCleaner
<1>9. CASE SwitchOff
  <2>1. Unflushed # {} => log # {}
    BY DEF Unflushed
  <2>. QED  BY <1>c, <1>9, <2>1 DEF SwitchOff
<1>10. CASE SwitchOn
  BY <1>10 DEF SwitchOn
<1>11. CASE SwitchRemoved
  BY <1>11 DEF SwitchRemoved
<1>12. CASE SwitchWrite
  BY <1>c, <1>12 DEF SwitchWrite
<1>13. CASE SwitchStop
  BY <1>c, <1>13 DEF SwitchStop
<1>14. CASE Destroy
  <2>1. Unflushed # {} => log # {}
    BY DEF Unflushed
  <2>. QED  BY <1>c, <1>14, <2>1 DEF Destroy
<1>15. CASE DestroyWrite
  BY <1>15 DEF DestroyWrite
<1>16. ASSUME NEW r \in Reader, GetLoggedRequests(r) \/ ReadNext(r) \/ ReleaseLogRange(r) PROVE Places'
  BY <1>c, <1>16 DEF GetLoggedRequests, ReadNext, ReleaseLogRange
<1>17. CASE UNCHANGED vars
  BY <1>17 DEF vars
<1>. QED
  BY <1>1, <1>2, <1>3, <1>4, <1>5, <1>6, <1>7, <1>8, <1>9, <1>10, <1>11, <1>12, <1>13, <1>14,
     <1>15, <1>16, <1>17, <1>c DEF Next, Cleaning, Switching, AppendTooLate

-----------------------------------------------------------------------------
(* The order.  What the cleaner has snapshot, what a thread turning the log *)
(* off has taken, and what the destructor has, are each written before      *)
(* anybody else can take a batch (Places), and only what is flushed is      *)
(* purged (Flushed).                                                        *)
IInv == TypeOK /\ Suffix /\ Places /\ Flushed /\ CompleteInOrder

LEMMA OneBatch ==
  ASSUME Places
  PROVE  \A x, y \in {cbuf, sbuf, dbuf} : x # y => x = {} \/ y = {}
BY DEF Places

LEMMA OrderInit == Init => Flushed /\ CompleteInOrder
<1>. SUFFICES ASSUME Init PROVE Flushed /\ CompleteInOrder
  OBVIOUS
<1>1. Unflushed = {} /\ Buffered = {} /\ file = {} /\ 1 .. inTime = {}
  BY DEF Init, Unflushed, Buffered
<1>. QED  BY <1>1 DEF Init, Flushed, Due, CompleteInOrder

(* Steps that move no entry, no marker and no batch.                        *)
LEMMA OrderFrame ==
  ASSUME CompleteInOrder, UNCHANGED <<inTime, log, marker, file, cbuf, sbuf, dbuf>>
  PROVE  CompleteInOrder'
BY DEF CompleteInOrder, Buffered, Due, Unflushed

(* A thread takes all that is unflushed as its batch; nobody holds another. *)
LEMMA TakeBatch ==
  ASSUME Places', CompleteInOrder, Buffered = {}, Buffered' = Unflushed, Unflushed = Due, Unflushed' = {},
         file' = file, inTime' = inTime
  PROVE  CompleteInOrder'
<1>1. \A x, y \in {cbuf', sbuf', dbuf'} : x # y => x = {} \/ y = {}
  BY OneBatch DEF Places
<1>. QED  BY <1>1 DEF CompleteInOrder, Due

(* A thread writes its batch to the open access log.                        *)
LEMMA WriteBatch ==
  ASSUME Places', CompleteInOrder, file' = file \cup Buffered, Buffered' = {}, Unflushed' = Unflushed,
         inTime' = inTime
  PROVE  CompleteInOrder'
<1>1. \A x, y \in {cbuf', sbuf', dbuf'} : x # y => x = {} \/ y = {}
  BY OneBatch DEF Places
<1>. QED  BY <1>1 DEF CompleteInOrder, Due

(* As long as the view is there, all that is unflushed is due.              *)
LEMMA AllDue ==
  ASSUME TypeOK, Flushed, dpc = "live"
  PROVE  Due = Unflushed
<1>1. inTime = accepted /\ accepted \in Nat /\ Unflushed \subseteq 1 .. accepted
  <2>1. Unflushed \subseteq log
    BY DEF Unflushed
  <2>. QED  BY <2>1, HandlerLogAssumption DEF TypeOK, Flushed
<1>2. \A e \in Unflushed : e \in Nat /\ e <= inTime
  <2>. HIDE DEF Unflushed
  <2>. QED  BY <1>1
<1>. QED  BY <1>2 DEF Due

LEMMA OrderStep ==
  ASSUME IInv, [Next]_vars, TypeOK', Places'
  PROVE  Flushed' /\ CompleteInOrder'
<1>. USE DEF IInv
<1>c. CASE Crash
  BY <1>c, OrderFrame DEF Crash, Flushed, Due, Unflushed
<1>1. CASE AppendLoggedRequest
  <2>1. Unflushed' = Unflushed \cup {accepted + 1}
    BY <1>1 DEF AppendLoggedRequest, Unflushed, TypeOK
  <2>2. /\ accepted \in Nat /\ inTime \in 0 .. accepted /\ climit < accepted + 1
        /\ \A e \in file \cup Buffered : e < accepted + 1
        /\ Unflushed \subseteq 1 .. accepted
    <3>1. Unflushed \subseteq log
      BY DEF Unflushed
    <3>. QED  BY <3>1, HandlerLogAssumption DEF TypeOK, Buffered
  <2>3. file' = file /\ cbuf' = cbuf /\ sbuf' = sbuf /\ dbuf' = dbuf /\ Buffered' = Buffered
    BY <1>1 DEF AppendLoggedRequest, Buffered
  <2>4. CASE dpc = "live"
    <3>1. inTime' = accepted' /\ inTime = accepted /\ accepted' = accepted + 1 /\ dpc' = dpc /\ cpc' = cpc /\ climit' = climit
      BY <1>1, <2>4 DEF AppendLoggedRequest, Flushed
    <3>2. Due' = Due \cup {accepted + 1}
      <4>1. \A e \in Unflushed' : e <= inTime'
        BY <2>1, <2>2, <3>1
      <4>2. \A e \in Unflushed : e <= inTime
        BY <2>2, <3>1
      <4>3. Due' = Unflushed' /\ Due = Unflushed
        BY <4>1, <4>2 DEF Due
      <4>. QED  BY <2>1, <4>3
    <3>3. 1 .. inTime' = (1 .. inTime) \cup {accepted + 1}
      BY <2>2, <3>1
    <3>4. Flushed'
      BY <2>1, <2>2, <2>4, <3>1 DEF Flushed
    <3>. QED  BY <2>1, <2>2, <2>3, <3>2, <3>3, <3>4 DEF CompleteInOrder
  <2>5. CASE dpc # "live"
    <3>1. inTime' = inTime /\ dpc' = dpc /\ cpc' = cpc /\ climit' = climit
      BY <1>1, <2>5 DEF AppendLoggedRequest
    <3>2. Due' = Due
      <4>1. ~(accepted + 1 <= inTime)
        BY <2>2
      <4>. QED  BY <2>1, <3>1, <4>1 DEF Due
    <3>3. Flushed'
      BY <2>1, <2>2, <2>5, <3>1, <3>2 DEF Flushed
    <3>. QED  BY <2>1, <2>2, <2>3, <3>1, <3>2, <3>3 DEF CompleteInOrder
  <2>. QED  BY <2>4, <2>5
<1>2. CASE Age \/ Shutdown
  BY <1>2, OrderFrame DEF Age, Shutdown, Flushed, Due, Unflushed
<1>3. CASE CleanLogBegin \/ CleanLogSkip
  BY <1>3, OrderFrame DEF CleanLogBegin, CleanLogSkip, Flushed, Due, Unflushed
<1>4. CASE CleanLogSnapshot
  <2>. SUFFICES ASSUME Valid(marker) PROVE Flushed' /\ CompleteInOrder'
    BY <1>c, <1>4 DEF CleanLogSnapshot
  <2>1. Buffered = {}
    BY <1>4 DEF CleanLogSnapshot, Places, Buffered
  <2>2. Buffered' = Unflushed
    BY <1>4, <2>1 DEF CleanLogSnapshot, Buffered
  <2>3. Unflushed' = {}
    <3>1. CASE Unflushed = {}
      BY <1>4, <3>1 DEF CleanLogSnapshot, Unflushed
    <3>2. CASE Unflushed # {}
      <4>1. log # {} /\ log \subseteq 1 .. accepted /\ accepted \in Nat
        BY <3>2 DEF Unflushed, TypeOK
      <4>2. marker' = accepted /\ log' = log
        BY <1>4, <3>2, <4>1, LastEntry DEF CleanLogSnapshot
      <4>3. \A e \in log' : ~(e > marker')
        BY <4>1, <4>2
      <4>. QED  BY <4>3 DEF Unflushed
    <3>. QED  BY <3>1, <3>2
  <2>4. Due = Unflushed /\ Due' = {}
    BY <1>4, <2>3, AllDue DEF CleanLogSnapshot, Places, Due
  <2>. QED  BY <1>4, <2>1, <2>2, <2>3, <2>4, TakeBatch DEF CleanLogSnapshot, Flushed, Places
<1>5. CASE CleanLogWrite
  <2>1. Buffered = cbuf /\ Buffered' = {} /\ (cbuf = {} \/ running)
    BY <1>5 DEF CleanLogWrite, Places, Buffered
  <2>2. file' = file \cup Buffered /\ Unflushed' = Unflushed
    BY <1>5, <2>1 DEF CleanLogWrite, Written, Unflushed
  <2>. QED  BY <1>5, <2>1, <2>2, WriteBatch DEF CleanLogWrite, Flushed, Due
<1>6. CASE CleanLogPurge
  <2>1. Unflushed' = Unflushed
    <3>1. CASE holding # {}
      BY <1>6, <3>1 DEF CleanLogPurge, Unflushed
    <3>2. CASE holding = {} /\ Survivors = {}
      <4>1. Unflushed = {} /\ log' = {}
        BY <1>6, <3>2 DEF CleanLogPurge, Survivors, Unflushed, Flushed
      <4>. QED  BY <4>1 DEF Unflushed
    <3>3. CASE holding = {} /\ Survivors # {}
      <4>1. marker' = marker /\ log' = Survivors
        BY <1>6, <3>3 DEF CleanLogPurge
      <4>. QED  BY <1>6, <4>1 DEF CleanLogPurge, Survivors, Unflushed, Flushed
    <3>. QED  BY <3>1, <3>2, <3>3
  <2>. QED  BY <1>6, <2>1 DEF CleanLogPurge, Flushed, Due, CompleteInOrder, Buffered
<1>7. ASSUME NEW on \in BOOLEAN, SetLogging(on) PROVE Flushed' /\ CompleteInOrder'
  BY <1>7, OrderFrame DEF SetLogging, Flushed, Due, Unflushed
<1>8. CASE JoinCleaner
  BY <1>8, OrderFrame DEF JoinCleaner, Flushed, Due, Unflushed
<1>9. CASE SwitchOff
  <2>. SUFFICES ASSUME Valid(marker) PROVE Flushed' /\ CompleteInOrder'
    BY <1>c, <1>9 DEF SwitchOff
  <2>1. Buffered = {}
    BY <1>9 DEF SwitchOff, Places, Buffered
  <2>2. Buffered' = Unflushed /\ Unflushed' = {}
    BY <1>9, <2>1 DEF SwitchOff, Buffered, Unflushed
  <2>3. Due = Unflushed /\ Due' = {}
    BY <1>9, <2>2, AllDue DEF SwitchOff, Due
  <2>. QED  BY <1>9, <2>1, <2>2, <2>3, TakeBatch DEF SwitchOff, Flushed
<1>10. CASE SwitchOn
  <2>1. Unflushed = {} /\ Unflushed' = {}
    BY <1>10 DEF SwitchOn, Unflushed, Places
  <2>. QED  BY <1>10, <2>1 DEF SwitchOn, Flushed, Due, CompleteInOrder, Buffered
<1>11. CASE SwitchRemoved
  BY <1>11, OrderFrame DEF SwitchRemoved, Flushed, Due, Unflushed
<1>12. CASE SwitchWrite
  <2>. SUFFICES ASSUME dpc # "gone" PROVE Flushed' /\ CompleteInOrder'
    BY <1>c, <1>12 DEF SwitchWrite
  <2>1. Buffered = sbuf /\ Buffered' = {} /\ (sbuf = {} \/ running)
    BY <1>12 DEF SwitchWrite, Places, Buffered
  <2>2. file' = file \cup Buffered /\ Unflushed' = Unflushed
    BY <1>12, <2>1 DEF SwitchWrite, Written, Unflushed
  <2>. QED  BY <1>12, <2>1, <2>2, WriteBatch DEF SwitchWrite, Flushed, Due
<1>13. CASE SwitchStop
  BY <1>c, <1>13, OrderFrame DEF SwitchStop, Flushed, Due, Unflushed
<1>14. CASE Destroy
  <2>. SUFFICES ASSUME Valid(marker) PROVE Flushed' /\ CompleteInOrder'
    BY <1>c, <1>14 DEF Destroy
  <2>1. Unflushed' = {}
    <3>1. CASE Unflushed = {}
      BY <1>14, <3>1 DEF Destroy, Unflushed
    <3>2. CASE Unflushed # {}
      <4>1. log # {} /\ log \subseteq 1 .. accepted /\ accepted \in Nat
        BY <3>2 DEF Unflushed, TypeOK
      <4>2. marker' = accepted /\ log' = log
        BY <1>14, <3>2, <4>1, LastEntry DEF Destroy
      <4>3. \A e \in log' : ~(e > marker')
        BY <4>1, <4>2
      <4>. QED  BY <4>3 DEF Unflushed
    <3>. QED  BY <3>1, <3>2
  <2>4. Due = Unflushed /\ Due' = {}
    BY <1>14, <2>1, AllDue DEF Destroy, Due
  <2>2. CASE sbuf = {}
    <3>1. Buffered = {}
      BY <1>14, <2>2 DEF Destroy, Places, Buffered
    <3>2. Buffered' = Unflushed
      BY <1>14, <3>1 DEF Destroy, Buffered
    <3>. QED  BY <1>14, <2>1, <2>4, <3>1, <3>2, TakeBatch DEF Destroy, Flushed, Places
  <2>3. CASE sbuf # {}
    <3>1. Unflushed = {}
      BY <2>3 DEF Places, Unflushed
    <3>2. dbuf = {} /\ dbuf' = {}
      BY <1>14, <3>1 DEF Destroy, Places
    <3>. QED  BY <1>14, <2>1, <2>4, <3>1, <3>2 DEF Destroy, Flushed, Places, CompleteInOrder, Buffered
  <2>. QED  BY <2>2, <2>3
<1>15. CASE DestroyWrite
  <2>1. Due = {} /\ Unflushed' = {} /\ Due' = {} /\ Flushed'
    BY <1>15 DEF DestroyWrite, Flushed, Unflushed, Due, Places
  <2>2. file' = file \cup dbuf
    BY <1>15 DEF DestroyWrite, Written, Places
  <2>3. CASE dbuf = {}
    <3>1. Buffered' = Buffered
      BY <1>15, <2>3 DEF DestroyWrite, Buffered
    <3>. QED  BY <1>15, <2>1, <2>2, <2>3, <3>1, OneBatch DEF DestroyWrite, CompleteInOrder
  <2>4. CASE dbuf # {}
    <3>1. Buffered = dbuf /\ Buffered' = {} /\ cbuf = {} /\ sbuf = {}
      BY <1>15, <2>4 DEF DestroyWrite, Places, Buffered
    <3>. QED  BY <1>15, <2>1, <2>2, <3>1 DEF DestroyWrite, CompleteInOrder
  <2>. QED  BY <2>3, <2>4
<1>16. ASSUME NEW r \in Reader, GetLoggedRequests(r) \/ ReadNext(r) \/ ReleaseLogRange(r)
       PROVE  Flushed' /\ CompleteInOrder'
  <2>. SUFFICES ASSUME UNCHANGED <<accepted, inTime, logVars, diskVars, cleanVars, setVars, destroyVars>>
                PROVE  Flushed' /\ CompleteInOrder'
    BY <1>c, <1>16 DEF GetLoggedRequests, ReadNext, ReleaseLogRange
  <2>. QED  BY OrderFrame DEF Flushed, Due, Unflushed
<1>17. CASE UNCHANGED vars
  BY <1>17, OrderFrame DEF vars, Flushed, Due, Unflushed
<1>. QED
  BY <1>1, <1>2, <1>3, <1>4, <1>5, <1>6, <1>7, <1>8, <1>9, <1>10, <1>11, <1>12, <1>13, <1>14,
     <1>15, <1>16, <1>17, <1>c DEF Next, Cleaning, Switching, AppendTooLate

LEMMA Invariance == Spec => []IInv
<1>1. Init => IInv
  BY TypeInit, PlacesInit, OrderInit DEF IInv
<1>2. IInv /\ [Next]_vars => IInv'
  BY TypeStep, SuffixStep, PlacesStep, OrderStep DEF IInv
<1>. QED  BY <1>1, <1>2, PTL DEF Spec

(* The access log is complete and in order (cleanLog, setLogging, flushLog).*)
THEOREM CompleteInOrderAlways == Spec => []CompleteInOrder
<1>1. IInv => CompleteInOrder
  BY DEF IInv
<1>. QED  BY <1>1, Invariance, PTL

-----------------------------------------------------------------------------
(* The purge spares readers: only CleanLogPurge, SwitchOff and DestroyWrite *)
(* drop entries; the first does so only with no reader about.               *)
LEMMA SparesReadersStep ==
  ASSUME [Next]_vars, NEW r \in holding, isLogging', dpc' # "gone", at[r] \in log
  PROVE  at[r] \in log'
<1>1. CASE log \subseteq log'
  BY <1>1
<1>2. CASE CleanLogPurge
  BY <1>2 DEF CleanLogPurge
<1>3. CASE SwitchOff
  BY <1>3 DEF SwitchOff, Crash
<1>4. CASE DestroyWrite
  BY <1>4 DEF DestroyWrite
<1>. QED
  BY <1>1, <1>2, <1>3, <1>4 DEF Next, Cleaning, Switching, vars, AppendLoggedRequest, AppendTooLate, Age, Shutdown, CleanLogBegin, CleanLogSkip,
    CleanLogSnapshot, CleanLogWrite, SetLogging, JoinCleaner, SwitchOn, SwitchRemoved, SwitchWrite,
    SwitchStop, Destroy, GetLoggedRequests, ReadNext, ReleaseLogRange, Crash

(* A LogRange is safe from the purge while its view stays (cleanLog's phase *)
(* C and itsLogReaderCount).                                                *)
THEOREM PurgeSparesReadersAlways == Spec => PurgeSparesReaders
<1>1. [Next]_vars =>
        [\A r \in holding : isLogging' /\ dpc' # "gone" /\ at[r] \in log => at[r] \in log']_vars
  BY SparesReadersStep
<1>. QED  BY <1>1, PTL DEF Spec, PurgeSparesReaders

=============================================================================
