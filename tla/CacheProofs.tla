---------------------------- MODULE CacheProofs -----------------------------
(***************************************************************************)
(* Proofs about FileCaches, for any threads, maximum check ages and        *)
(* versions of the file, and about SmartMetCache, for any sizes, keys and  *)
(* threads, whether writes fail or waits end spuriously.                   *)
(***************************************************************************)
EXTENDS SmartMetCache, FileCaches, SequenceTheorems, FiniteSetTheorems, TLAPS

(* The file: its versions follow each other, and the modification time of   *)
(* each but a missing one is the second it is from.                         *)
Version == [state : States, mtime : Nat, since : Nat]
Mtime(k) == versions[k].mtime
Since(k) == versions[k].since

History ==
  /\ versions \in Seq(Version) /\ OnDisk \in 1 .. MaxVersions
  /\ clock \in 1 .. MaxTime
  /\ \A k \in 1 .. OnDisk : /\ Since(k) \in 1 .. clock
                            /\ Mtime(k) = IF State(k) = "missing" THEN 0 ELSE Since(k)
  /\ \A j, k \in 1 .. OnDisk : j <= k => Since(j) <= Since(k)

(* Version k was on disk at a time, or after it.                            *)
Until(k, time) == k < OnDisk => Since(k + 1) >= time

Question == [op : {"none", "file", "json"}, since : Nat, window : Nat]
QuestionOK(t) ==
  /\ asked[t] # Idle => asked[t].op # "none" /\ asked[t].since \in 1 .. clock /\ asked[t].window > 0
  /\ asked[t].op = "file" => asked[t].window >= age
Questions == age \in Ages /\ asked \in [Threads -> Question] /\ \A t \in Threads : QuestionOK(t)

(* The content of an entry is from the second of its modification time, or  *)
(* from a later one.                                                        *)
Stored == [mtime : -1 .. MaxTime, checked : 0 .. MaxTime, content : 0 .. MaxVersions]
EntryOK(e) ==
  /\ e \in Stored
  /\ e # NoEntry =>
       /\ e.content \in 1 .. OnDisk /\ e.mtime >= 0 /\ e.checked <= clock
       /\ IF e.mtime = 0 THEN Mtime(e.content) = 0 ELSE Mtime(e.content) >= e.mtime

(* It was as good as the file when the entry was last checked.              *)
AsGoodAt(k, time) == \E m \in 1 .. OnDisk : AsGoodAs(k, m) /\ Until(m, time)
Fresh(e) == e # NoEntry => AsGoodAt(e.content, e.checked)

Work == [pc : {"idle", "lookup", "stat", "compare", "read", "store"},
         mtime : 0 .. MaxTime, content : 0 .. MaxVersions]
JobOK(t) ==
  LET j == job[t]
  IN /\ j.pc = "idle" <=> asked[t] = Idle
     /\ j.pc = "lookup" => asked[t].op = "file"
     /\ j.pc \in {"compare", "read"} => j.content \in 1 .. OnDisk /\ j.mtime = Mtime(j.content)
     /\ j.pc = "compare" => Until(j.content, asked[t].since) /\ (asked[t].op = "json" => j.mtime # 0)
     /\ j.pc = "read" => j.mtime # 0
     /\ j.pc = "store" => /\ j.content \in 1 .. OnDisk /\ Mtime(j.content) >= j.mtime /\ j.mtime # 0
                          /\ Until(j.content, asked[t].since)
Jobs == job \in [Threads -> Work] /\ \A t \in Threads : JobOK(t)

CInv ==
  /\ History /\ Questions /\ Jobs
  /\ EntryOK(cache) /\ Fresh(cache) /\ EntryOK(jsonCache)

-----------------------------------------------------------------------------
(* A new version leaves the others as they were.                            *)
LEMMA VersionAdded ==
  ASSUME History, NEW s \in States, Change(s)
  PROVE  /\ OnDisk' = OnDisk + 1 /\ \A k \in 1 .. OnDisk : versions'[k] = versions[k]
         /\ History'
<1>. DEFINE v == [state |-> s, mtime |-> IF s = "missing" THEN 0 ELSE clock, since |-> clock]
<1>1. /\ versions \in Seq(Version) /\ clock \in 1 .. MaxTime /\ clock \in Nat
      /\ OnDisk \in Nat /\ OnDisk < MaxVersions /\ MaxVersions \in Nat
  BY RegisterAssumption DEF History, OnDisk, Change
<1>2. v \in Version /\ versions' = Append(versions, v) /\ clock' = clock
  BY <1>1 DEF Version, Change
<1>3. /\ versions' \in Seq(Version) /\ Len(versions') = Len(versions) + 1
      /\ \A k \in 1 .. Len(versions) : versions'[k] = versions[k]
      /\ versions'[Len(versions) + 1] = v
  <2>. HIDE DEF v
  <2>. QED  BY <1>1, <1>2, AppendProperties
<1>4. \A k \in 1 .. OnDisk : Since(k)' = Since(k) /\ Mtime(k)' = Mtime(k) /\ State(k)' = State(k)
  <2>. HIDE DEF v
  <2>. QED  BY <1>3 DEF OnDisk, Since, Mtime, State
<1>5. ASSUME NEW n, n = OnDisk + 1
      PROVE  Since(n)' = clock /\ State(n)' = s /\ Mtime(n)' = IF s = "missing" THEN 0 ELSE clock
  BY <1>3, <1>5 DEF OnDisk, Since, Mtime, State
<1>6. \A k \in 1 .. OnDisk + 1 : k \in 1 .. OnDisk \/ k = OnDisk + 1
  BY <1>1
<1>. HIDE DEF v
<1>7. ASSUME NEW k \in 1 .. OnDisk + 1
      PROVE  Since(k)' \in 1 .. clock' /\ Mtime(k)' = IF State(k)' = "missing" THEN 0 ELSE Since(k)'
  <2>1. CASE k \in 1 .. OnDisk
    BY <1>2, <1>4, <2>1 DEF History
  <2>2. CASE k = OnDisk + 1
    BY <1>1, <1>2, <1>5, <2>2
  <2>. QED  BY <1>6, <2>1, <2>2
<1>8. ASSUME NEW j \in 1 .. OnDisk + 1, NEW k \in 1 .. OnDisk + 1, j <= k
      PROVE  Since(j)' <= Since(k)'
  <2>1. CASE k \in 1 .. OnDisk
    <3>1. j \in 1 .. OnDisk
      BY <1>1, <1>8, <2>1
    <3>. QED  BY <1>4, <1>8, <2>1, <3>1 DEF History
  <2>2. CASE k = OnDisk + 1
    BY <1>1, <1>4, <1>5, <1>6, <2>2 DEF History
  <2>. QED  BY <1>6, <2>1, <2>2
<1>9. OnDisk' = OnDisk + 1 /\ OnDisk' \in 1 .. MaxVersions
  BY <1>1, <1>3 DEF OnDisk
<1>. QED  BY <1>1, <1>2, <1>3, <1>7, <1>8, <1>9 DEF History, OnDisk

(* The content of an entry that a check finds unchanged is as good as the   *)
(* file was at the time of the question.                                    *)
LEMMA UnchangedIsAsGood ==
  ASSUME History, NEW t \in Threads, Questions, Jobs, Is(t, "compare"),
         NEW e, EntryOK(e), e.mtime = job[t].mtime, job[t].mtime # 0
  PROVE  e # NoEntry /\ AsGoodAt(e.content, asked[t].since)
<1>. DEFINE a == job[t].content
            b == e.content
            T == asked[t].since
<1>1. e # NoEntry
  BY DEF NoEntry, Jobs, Work
<1>2. a \in 1 .. OnDisk /\ job[t].mtime = Mtime(a) /\ Until(a, T) /\ T \in Nat
  BY DEF Jobs, JobOK, Is, Questions, Question
<1>3. b \in 1 .. OnDisk /\ Mtime(b) >= Mtime(a) /\ Mtime(a) # 0 /\ Mtime(a) \in Nat
  BY <1>1, <1>2 DEF EntryOK, Jobs, Work
<1>4. OnDisk \in Nat /\ \A k \in 1 .. OnDisk : Since(k) \in Nat /\ Mtime(k) \in Nat /\ (Mtime(k) # 0 => Mtime(k) = Since(k))
  BY RegisterAssumption DEF History
<1>5. CASE Mtime(b) = Mtime(a)
  BY <1>1, <1>2, <1>5 DEF AsGoodAt, AsGoodAs, Mtime
<1>6. CASE Mtime(b) > Mtime(a)
  <2>1. Since(b) > Since(a)
    BY <1>2, <1>3, <1>4, <1>6
  <2>2. a < b
    BY <1>2, <1>3, <1>4, <2>1, SMTT(60) DEF History
  <2>3. Since(a + 1) >= T
    BY <1>2, <1>3, <1>4, <2>2 DEF Until
  <2>4. b < OnDisk => Since(b + 1) >= Since(a + 1) /\ Since(b + 1) \in Nat /\ Since(a + 1) \in Nat
    <3>1. b < OnDisk => b + 1 \in 1 .. OnDisk /\ a + 1 \in 1 .. OnDisk /\ a + 1 <= b + 1
      BY <1>2, <1>3, <1>4, <2>2
    <3>. QED  BY <1>4, <3>1 DEF History
  <2>5. Until(b, T)
    BY <1>2, <2>3, <2>4 DEF Until
  <2>6. AsGoodAs(b, b)
    BY DEF AsGoodAs
  <2>. QED  BY <1>1, <1>3, <2>5, <2>6 DEF AsGoodAt
<1>. QED  BY <1>1, <1>2, <1>3, <1>4, <1>5, <1>6

(* What was on disk within the window of the question may be told.         *)
LEMMA AnswerAllowed ==
  ASSUME Questions, History, NEW t \in Threads, asked[t] # Idle, NEW k \in 1 .. OnDisk,
         NEW time \in Nat, time > asked[t].since - asked[t].window,
         AsGoodAt(k, time), Return(t, k), UNCHANGED fileVars
  PROVE  Tell(t)
<1>1. PICK m \in 1 .. OnDisk : AsGoodAs(k, m) /\ Until(m, time)
  BY DEF AsGoodAt
<1>2. asked[t].since \in Nat /\ asked[t].window \in Nat
  BY DEF Questions, QuestionOK, Question
<1>3. m < OnDisk => versions[m + 1].since \in Nat
  BY RegisterAssumption, SMTT(60) DEF History, Since
<1>4. InWindow(t, m)
  BY <1>1, <1>2, <1>3, SMTT(60) DEF InWindow, Until, Since, OnDisk
<1>. QED  BY <1>1, <1>4 DEF Tell, Return, fileVars, OnDisk

(* What is on disk is as good as the file.                                  *)
LEMMA OnDiskIsAsGood ==
  ASSUME History, NEW k \in 1 .. OnDisk, NEW time, Until(k, time)
  PROVE  AsGoodAt(k, time)
BY DEF AsGoodAt, AsGoodAs

-----------------------------------------------------------------------------
(* A step of a thread leaves the others alone.                              *)
LEMMA OthersKept ==
  ASSUME CInv, NEW t \in Threads, UNCHANGED fileVars,
         asked' \in [Threads -> Question], job' \in [Threads -> Work],
         \A u \in Threads \ {t} : asked'[u] = asked[u] /\ job'[u] = job[u],
         QuestionOK(t)', JobOK(t)'
  PROVE  History' /\ Questions' /\ Jobs'
<1>1. History'
  BY DEF CInv, History, fileVars, OnDisk, Since, Mtime, State
<1>2. ASSUME NEW u \in Threads
      PROVE  QuestionOK(u)' /\ JobOK(u)'
  BY SMTT(60) DEF CInv, Questions, QuestionOK, Jobs, JobOK, fileVars, OnDisk, Mtime, Until, Since
<1>. QED  BY <1>1, <1>2 DEF CInv, Questions, Jobs, fileVars

LEMMA ReturnKeeps ==
  ASSUME CInv, NEW t \in Threads, NEW k, Return(t, k), UNCHANGED fileVars
  PROVE  History' /\ Questions' /\ Jobs'
<1>1. Idle \in Question /\ NoJob \in Work
  BY RegisterAssumption DEF Idle, Question, NoJob, Work
<1>2. /\ asked' \in [Threads -> Question] /\ job' \in [Threads -> Work]
      /\ \A u \in Threads \ {t} : asked'[u] = asked[u] /\ job'[u] = job[u]
      /\ asked'[t] = Idle /\ job'[t] = NoJob
  BY <1>1 DEF CInv, Questions, Jobs, Return
<1>3. QuestionOK(t)'
  BY <1>2 DEF QuestionOK, Idle
<1>4. JobOK(t)'
  BY <1>2 DEF JobOK, NoJob
<1>. QED  BY <1>2, <1>3, <1>4, OthersKept

(* The thread goes on with the same question.                               *)
LEMMA WorkKeeps ==
  ASSUME CInv, NEW t \in Threads, NEW w \in Work, job' = [job EXCEPT ![t] = w],
         UNCHANGED <<fileVars, asked>>, JobOK(t)'
  PROVE  History' /\ Questions' /\ Jobs'
<1>1. /\ asked' \in [Threads -> Question] /\ job' \in [Threads -> Work]
      /\ \A u \in Threads \ {t} : asked'[u] = asked[u] /\ job'[u] = job[u]
  BY DEF CInv, Questions, Jobs
<1>2. QuestionOK(t)'
  BY DEF CInv, Questions, QuestionOK, fileVars
<1>. QED  BY <1>1, <1>2, OthersKept

LEMMA EntriesKept ==
  ASSUME CInv, UNCHANGED fileVars
  PROVE  /\ UNCHANGED cache => EntryOK(cache)' /\ Fresh(cache)'
         /\ UNCHANGED jsonCache => EntryOK(jsonCache)'
BY DEF CInv, EntryOK, Fresh, AsGoodAt, AsGoodAs, Until, Mtime, Since, OnDisk, fileVars

-----------------------------------------------------------------------------
(* What others do to the file, the clock and the age: no past time is       *)
(* another for it, and a question that waits has a window at least as wide. *)
LEMMA ChangeKeeps ==
  ASSUME CInv, NEW s \in States, Change(s), UNCHANGED <<cache, jsonCache, job>>
  PROVE  CInv'
<1>1. /\ OnDisk' = OnDisk + 1 /\ \A k \in 1 .. OnDisk : versions'[k] = versions[k]
      /\ History' /\ clock' = clock /\ age' = age /\ asked' = asked
  BY VersionAdded DEF CInv, Change
<1>2. OnDisk \in Nat /\ clock \in Nat /\ \A k \in 1 .. OnDisk : Mtime(k)' = Mtime(k)
  BY <1>1, RegisterAssumption DEF CInv, History, Mtime
<1>3. \A n : n = OnDisk + 1 => Since(n)' = clock
  <2>1. Len(versions) = OnDisk /\ versions \in Seq(Version)
    BY DEF OnDisk, CInv, History
  <2>2. [state |-> s, mtime |-> IF s = "missing" THEN 0 ELSE clock, since |-> clock] \in Version
    BY <1>2 DEF Version
  <2>3. versions'[OnDisk + 1] = [state |-> s, mtime |-> IF s = "missing" THEN 0 ELSE clock, since |-> clock]
    BY <2>1, <2>2, AppendProperties DEF Change
  <2>4. ASSUME NEW n, n = OnDisk + 1
        PROVE  Since(n)' = clock
    BY <2>3, <2>4 DEF Since
  <2>. QED  BY <2>4
<1>4. ASSUME NEW k \in 1 .. OnDisk, NEW time \in Nat, time <= clock, Until(k, time)
      PROVE  Until(k, time)'
  <2>1. CASE k < OnDisk
    <3>1. k + 1 \in 1 .. OnDisk
      BY <1>2, <2>1
    <3>2. Since(k + 1)' = Since(k + 1)
      BY <1>1, <3>1 DEF Since
    <3>. QED  BY <1>4, <2>1, <3>2 DEF Until
  <2>2. CASE k = OnDisk
    BY <1>1, <1>2, <1>3, <1>4, <2>2 DEF Until
  <2>. QED  BY <1>2, <2>1, <2>2
<1>5. ASSUME NEW e, EntryOK(e)
      PROVE  EntryOK(e)'
  BY <1>1, <1>2, <1>5 DEF EntryOK
<1>6. ASSUME NEW e, EntryOK(e), Fresh(e)
      PROVE  Fresh(e)'
  <2>1. SUFFICES ASSUME e # NoEntry
                 PROVE  AsGoodAt(e.content, e.checked)'
    BY DEF Fresh
  <2>2. e.content \in 1 .. OnDisk /\ e.checked \in Nat /\ e.checked <= clock
    BY <1>6, <2>1, RegisterAssumption DEF EntryOK, Stored
  <2>3. PICK m \in 1 .. OnDisk : AsGoodAs(e.content, m) /\ Until(m, e.checked)
    BY <1>6, <2>1 DEF Fresh, AsGoodAt
  <2>4. m \in 1 .. OnDisk' /\ AsGoodAs(e.content, m)' /\ Until(m, e.checked)'
    BY <1>1, <1>2, <1>4, <2>2, <2>3 DEF AsGoodAs
  <2>. QED  BY <2>4 DEF AsGoodAt
<1>7. Questions'
  BY <1>1 DEF CInv, Questions, QuestionOK
<1>8. ASSUME NEW t \in Threads
      PROVE  JobOK(t)'
  <2>1. asked[t] # Idle => asked[t].since \in Nat /\ asked[t].since <= clock
    BY <1>2 DEF CInv, Questions, QuestionOK
  <2>2. job'[t] = job[t] /\ asked'[t] = asked[t] /\ JobOK(t) /\ job[t] \in Work
    BY <1>1 DEF CInv, Jobs
  <2>3. job[t].pc \in {"compare", "store"} => asked[t] # Idle
    BY <2>2 DEF JobOK
  <2>4. job[t].pc \in {"compare", "store"} => Until(job[t].content, asked[t].since)'
    BY <1>4, <2>1, <2>2, <2>3 DEF JobOK
  <2>5. job[t].pc \in {"compare", "read", "store"} =>
          Mtime(job[t].content)' = Mtime(job[t].content) /\ job[t].content \in 1 .. OnDisk'
    BY <1>1, <1>2, <2>2 DEF JobOK
  <2>. QED  BY <1>1, <2>2, <2>4, <2>5 DEF JobOK
<1>9. EntryOK(cache)' /\ Fresh(cache)' /\ EntryOK(jsonCache)'
  BY <1>5, <1>6 DEF CInv
<1>. QED  BY <1>1, <1>7, <1>8, <1>9 DEF CInv, Jobs

LEMMA TickKeeps ==
  ASSUME CInv, Tick, UNCHANGED <<cache, jsonCache, job>>
  PROVE  CInv'
<1>1. /\ versions' = versions /\ age' = age /\ asked' = asked /\ clock' = clock + 1
      /\ clock' \in 1 .. MaxTime /\ clock \in 1 .. MaxTime /\ OnDisk' = OnDisk
      /\ cache' = cache /\ jsonCache' = jsonCache /\ job' = job
  BY RegisterAssumption DEF Tick, CInv, History, OnDisk
<1>2. History'
  <2>1. 1 .. clock \subseteq 1 .. clock'
    BY <1>1, RegisterAssumption
  <2>. QED  BY <1>1, <2>1 DEF CInv, History, Since, Mtime, State
<1>3. ASSUME NEW t \in Threads
      PROVE  QuestionOK(t)' /\ JobOK(t)'
  <2>1. QuestionOK(t)'
    BY <1>1, RegisterAssumption DEF CInv, Questions, QuestionOK
  <2>2. JobOK(t)'
    BY <1>1 DEF CInv, Jobs, JobOK, Mtime, Until, Since
  <2>. QED  BY <2>1, <2>2
<1>4. Questions' /\ Jobs'
  BY <1>1, <1>3 DEF CInv, Questions, Jobs
<1>5. ASSUME NEW e, EntryOK(e)
      PROVE  EntryOK(e)'
  <2>1. e.checked <= clock /\ e.checked \in Nat => e.checked <= clock'
    BY <1>1, RegisterAssumption
  <2>. QED  BY <1>1, <1>5, <2>1, RegisterAssumption DEF EntryOK, Stored, Mtime
<1>6. EntryOK(cache)' /\ EntryOK(jsonCache)' /\ Fresh(cache)'
  BY <1>1, <1>5 DEF CInv, Fresh, AsGoodAt, AsGoodAs, Until, Since
<1>. QED  BY <1>2, <1>4, <1>6 DEF CInv

LEMMA SetAgeKeeps ==
  ASSUME CInv, NEW a \in Ages, SetAge(a), UNCHANGED <<cache, jsonCache, job>>
  PROVE  CInv'
<1>1. /\ versions' = versions /\ clock' = clock /\ age' = a /\ a \in Nat /\ age \in Nat
      /\ OnDisk' = OnDisk /\ cache' = cache /\ jsonCache' = jsonCache /\ job' = job
  BY RegisterAssumption DEF SetAge, CInv, Questions, OnDisk
<1>2. ASSUME NEW t \in Threads
      PROVE  /\ asked'[t] \in Question /\ asked'[t].op = asked[t].op
             /\ asked'[t].since = asked[t].since /\ (asked'[t] = Idle <=> asked[t] = Idle)
             /\ QuestionOK(t)'
  <2>1. asked[t] \in Question /\ QuestionOK(t)
    BY DEF CInv, Questions
  <2>2. CASE asked[t].op = "file"
    <3>1. asked'[t] = [asked[t] EXCEPT !.window = Larger(@, a)]
      BY <2>2 DEF SetAge
    <3>2. Larger(asked[t].window, a) \in Nat /\ Larger(asked[t].window, a) >= a
          /\ Larger(asked[t].window, a) >= asked[t].window
      BY <1>1, <2>1 DEF Larger, Question
    <3>3. /\ asked'[t].op = "file" /\ asked'[t].since = asked[t].since
          /\ asked'[t].window = Larger(asked[t].window, a) /\ asked'[t] \in Question
      BY <2>1, <2>2, <3>1, <3>2 DEF Question
    <3>4. asked[t] # Idle /\ asked'[t] # Idle
      BY <2>2, <3>3 DEF Idle
    <3>5. asked[t].window \in Nat
      BY <2>1 DEF Question
    <3>6. QuestionOK(t)'
      BY <1>1, <2>1, <3>2, <3>3, <3>4, <3>5 DEF QuestionOK
    <3>. QED  BY <2>2, <3>3, <3>4, <3>6
  <2>3. CASE asked[t].op # "file"
    <3>1. asked'[t] = asked[t]
      BY <2>3 DEF SetAge
    <3>. QED  BY <1>1, <2>1, <2>3, <3>1 DEF QuestionOK
  <2>. QED  BY <2>2, <2>3
<1>3. Questions'
  <2>1. asked' \in [Threads -> Question]
    BY <1>2 DEF SetAge
  <2>. QED  BY <1>1, <1>2, <2>1 DEF Questions
<1>4. Jobs' /\ History'
  <2>1. History'
    BY <1>1 DEF CInv, History, Since, Mtime, State
  <2>2. ASSUME NEW t \in Threads
        PROVE  JobOK(t)'
    BY <1>1, <1>2 DEF CInv, Jobs, JobOK, Mtime, Until, Since
  <2>. QED  BY <1>1, <2>1, <2>2 DEF CInv, Jobs
<1>5. EntryOK(cache)' /\ EntryOK(jsonCache)' /\ Fresh(cache)'
  BY <1>1 DEF CInv, EntryOK, Fresh, AsGoodAt, AsGoodAs, Until, Since, Mtime
<1>. QED  BY <1>3, <1>4, <1>5 DEF CInv

-----------------------------------------------------------------------------
(* The steps of a thread keep the invariant; each that returns tells what   *)
(* the register allows, and the others leave the register alone.            *)
LEMMA CallKeeps ==
  ASSUME CInv, NEW t \in Threads, NEW op \in {"file", "json"}, Call(t, op)
  PROVE  CInv' /\ Ask(t, op)
<1>. DEFINE q == [op |-> op, since |-> clock, window |-> IF op = "json" THEN 1 ELSE age]
            w == [job[t] EXCEPT !.pc = IF op = "json" THEN "stat" ELSE "lookup"]
<1>1. /\ asked' = [asked EXCEPT ![t] = q] /\ UNCHANGED fileVars /\ Ask(t, op)
      /\ UNCHANGED <<cache, jsonCache>> /\ job' = [job EXCEPT ![t] = w]
  BY DEF Call, Ask, Goto, fileVars, CInv, Jobs
<1>2. q \in Question /\ q # Idle /\ q.op # "none" /\ q.since \in 1 .. clock /\ q.window > 0
      /\ (q.op = "file" => q.window >= age)
  BY RegisterAssumption DEF CInv, History, Questions, Question, Idle
<1>3. w \in Work /\ w.pc = IF op = "json" THEN "stat" ELSE "lookup"
  BY DEF CInv, Jobs, Work
<1>4. q.op = op
  OBVIOUS
<1>. HIDE DEF q, w
<1>5. /\ asked' \in [Threads -> Question] /\ job' \in [Threads -> Work]
      /\ \A u \in Threads \ {t} : asked'[u] = asked[u] /\ job'[u] = job[u]
      /\ asked'[t] = q /\ job'[t] = w /\ clock' = clock /\ age' = age
  BY <1>1, <1>2, <1>3 DEF CInv, Questions, Jobs, fileVars
<1>6. QuestionOK(t)'
  BY <1>2, <1>5 DEF QuestionOK
<1>7. JobOK(t)'
  BY <1>2, <1>3, <1>4, <1>5 DEF JobOK
<1>. QED  BY <1>1, <1>5, <1>6, <1>7, OthersKept, EntriesKept DEF CInv

LEMMA LookupKeeps ==
  ASSUME CInv, NEW t \in Threads, Lookup(t)
  PROVE  CInv' /\ (Tell(t) \/ UNCHANGED registerVars)
<1>1. UNCHANGED fileVars /\ UNCHANGED <<cache, jsonCache>> /\ job[t].pc = "lookup"
      /\ job[t] \in Work /\ JobOK(t) /\ asked[t] \in Question /\ QuestionOK(t)
  BY DEF Lookup, Is, CInv, Jobs, Questions
<1>2. asked[t].op = "file" /\ asked[t] # Idle
  BY <1>1 DEF JobOK
<1>3. CASE cache # NoEntry /\ asked[t].since - cache.checked < age
  <2>1. Return(t, cache.content)
    BY <1>3 DEF Lookup
  <2>2. /\ cache.content \in 1 .. OnDisk /\ cache.checked \in Nat
        /\ AsGoodAt(cache.content, cache.checked)
    BY <1>3, RegisterAssumption DEF CInv, EntryOK, Fresh, Stored
  <2>3. cache.checked > asked[t].since - asked[t].window
    BY <1>1, <1>2, <1>3, <2>2, RegisterAssumption DEF QuestionOK, Question, CInv, Questions
  <2>4. Tell(t)
    BY <1>1, <1>2, <2>1, <2>2, <2>3, AnswerAllowed DEF CInv
  <2>. QED  BY <1>1, <2>1, <2>4, ReturnKeeps, EntriesKept DEF CInv
<1>4. CASE ~(cache # NoEntry /\ asked[t].since - cache.checked < age)
  <2>. DEFINE w == [job[t] EXCEPT !.pc = "stat"]
  <2>1. /\ job' = [job EXCEPT ![t] = w] /\ UNCHANGED <<fileVars, asked>>
        /\ UNCHANGED registerVars
    BY <1>1, <1>4 DEF Lookup, Goto, registerVars, fileVars
  <2>2. w \in Work /\ w.pc = "stat"
    BY <1>1 DEF Work
  <2>. HIDE DEF w
  <2>3. job'[t] = w /\ asked'[t] = asked[t]
    BY <2>1 DEF CInv, Jobs
  <2>4. JobOK(t)'
    BY <1>2, <2>2, <2>3 DEF JobOK
  <2>. QED  BY <1>1, <2>1, <2>2, <2>4, WorkKeeps, EntriesKept DEF CInv
<1>. QED  BY <1>3, <1>4

(* What is on disk now was so at the time of the question, or later.        *)
LEMMA ToldFromDisk ==
  ASSUME CInv, NEW t \in Threads, asked[t] # Idle, NEW k \in 1 .. OnDisk,
         Until(k, asked[t].since), Return(t, k), UNCHANGED fileVars
  PROVE  Tell(t)
<1>1. asked[t].since \in Nat /\ asked[t].since > asked[t].since - asked[t].window
  BY DEF CInv, Questions, QuestionOK, Question
<1>2. AsGoodAt(k, asked[t].since)
  BY OnDiskIsAsGood DEF CInv
<1>. QED  BY <1>1, <1>2, AnswerAllowed DEF CInv

LEMMA StatKeeps ==
  ASSUME CInv, NEW t \in Threads, Stat(t)
  PROVE  CInv' /\ (Tell(t) \/ UNCHANGED registerVars)
<1>1. UNCHANGED fileVars /\ UNCHANGED <<cache, jsonCache>> /\ job[t].pc = "stat"
      /\ job[t] \in Work /\ JobOK(t) /\ asked[t] \in Question
  BY DEF Stat, Is, CInv, Jobs, Questions
<1>2. asked[t] # Idle
  BY <1>1 DEF JobOK
<1>3. OnDisk \in 1 .. OnDisk /\ Until(OnDisk, asked[t].since) /\ OnDisk \in 0 .. MaxVersions
  BY RegisterAssumption DEF CInv, History, Until
<1>4. CASE asked[t].op = "json" /\ State(OnDisk) = "missing"
  <2>1. Return(t, OnDisk)
    BY <1>4 DEF Stat
  <2>. QED  BY <1>1, <1>2, <1>3, <2>1, ToldFromDisk, ReturnKeeps, EntriesKept DEF CInv
<1>5. CASE ~(asked[t].op = "json" /\ State(OnDisk) = "missing")
  <2>. DEFINE w == [pc |-> "compare", mtime |-> versions[OnDisk].mtime, content |-> OnDisk]
  <2>1. /\ job' = [job EXCEPT ![t] = w] /\ UNCHANGED <<fileVars, asked>>
        /\ UNCHANGED registerVars
    BY <1>1, <1>5 DEF Stat, registerVars, fileVars
  <2>2. Mtime(OnDisk) \in 0 .. MaxTime /\ (asked[t].op = "json" => Mtime(OnDisk) # 0)
    BY <1>3, <1>5, RegisterAssumption DEF CInv, History
  <2>3. w \in Work /\ w.pc = "compare" /\ w.content = OnDisk /\ w.mtime = Mtime(OnDisk)
    BY <1>3, <2>2 DEF Work, Mtime
  <2>. HIDE DEF w
  <2>4. job'[t] = w /\ asked'[t] = asked[t] /\ OnDisk' = OnDisk /\ versions' = versions
    BY <2>1 DEF CInv, Jobs, fileVars, OnDisk
  <2>5. ~(OnDisk < OnDisk) /\ versions'[OnDisk].mtime = Mtime(OnDisk)
    BY <2>4, <1>3 DEF Mtime
  <2>6. JobOK(t)'
    BY <1>2, <1>3, <2>2, <2>3, <2>4, <2>5 DEF JobOK, Mtime, Until
  <2>. QED  BY <1>1, <2>1, <2>3, <2>6, WorkKeeps, EntriesKept DEF CInv
<1>. QED  BY <1>4, <1>5

LEMMA StoreMissingKeeps ==
  ASSUME CInv, NEW t \in Threads, StoreMissing(t)
  PROVE  CInv' /\ Tell(t)
<1>. DEFINE e == [mtime |-> 0, checked |-> asked[t].since, content |-> job[t].content]
<1>1. /\ UNCHANGED fileVars /\ jsonCache' = jsonCache /\ job[t].pc = "compare" /\ job[t].mtime = 0
      /\ job[t] \in Work /\ JobOK(t) /\ cache' = e /\ Return(t, job[t].content)
  BY DEF StoreMissing, Is, CInv, Jobs
<1>2. /\ asked[t] # Idle /\ job[t].content \in 1 .. OnDisk /\ Mtime(job[t].content) = 0
      /\ Until(job[t].content, asked[t].since) /\ asked[t].since \in 1 .. clock
  BY <1>1 DEF JobOK, CInv, Questions, QuestionOK
<1>3. Tell(t)
  BY <1>1, <1>2, ToldFromDisk
<1>4. EntryOK(e) /\ Fresh(e)
  <2>1. clock \in Nat /\ clock <= MaxTime /\ e \in Stored
    BY <1>1, <1>2, RegisterAssumption, SMTT(60) DEF CInv, History, Stored, Work
  <2>2. AsGoodAt(job[t].content, asked[t].since)
    BY <1>2, OnDiskIsAsGood DEF CInv
  <2>. QED  BY <1>2, <2>1, <2>2 DEF EntryOK, Fresh
<1>. HIDE DEF e
<1>5. EntryOK(cache)' /\ Fresh(cache)'
  BY <1>1, <1>4 DEF EntryOK, Fresh, AsGoodAt, AsGoodAs, Until, Mtime, Since, OnDisk, fileVars
<1>. QED  BY <1>1, <1>3, <1>5, ReturnKeeps, EntriesKept DEF CInv

LEMMA CompareKeeps ==
  ASSUME CInv, NEW t \in Threads, Compare(t)
  PROVE  CInv' /\ (Tell(t) \/ UNCHANGED registerVars)
<1>1. /\ UNCHANGED fileVars /\ jsonCache' = jsonCache /\ Is(t, "compare") /\ job[t].mtime # 0
      /\ job[t] \in Work /\ JobOK(t) /\ asked[t].op # "json"
  BY DEF Compare, CInv, Jobs
<1>2. /\ asked[t] # Idle /\ job[t].content \in 1 .. OnDisk /\ asked[t].since \in 1 .. clock
      /\ asked[t].window > 0 /\ asked[t].window \in Nat
  BY <1>1 DEF JobOK, Is, CInv, Questions, QuestionOK, Question
<1>3. CASE cache.mtime = job[t].mtime
  <2>. DEFINE e == [cache EXCEPT !.checked = asked[t].since]
  <2>1. cache' = e /\ Return(t, cache.content)
    BY <1>3 DEF Compare
  <2>2. cache # NoEntry /\ AsGoodAt(cache.content, asked[t].since)
    BY <1>1, <1>3, UnchangedIsAsGood DEF CInv
  <2>3. cache.content \in 1 .. OnDisk /\ asked[t].since \in Nat
        /\ asked[t].since > asked[t].since - asked[t].window
    BY <1>2, <2>2 DEF CInv, EntryOK
  <2>4. Tell(t)
    BY <1>1, <1>2, <2>1, <2>2, <2>3, AnswerAllowed DEF CInv
  <2>5. e \in Stored /\ e.content = cache.content /\ e.mtime = cache.mtime /\ e.checked = asked[t].since
    <3>1. asked[t].since \in 0 .. MaxTime /\ cache \in Stored
      BY <1>2, RegisterAssumption, SMTT(60) DEF CInv, History, EntryOK
    <3>. QED  BY <3>1 DEF Stored
  <2>. HIDE DEF e
  <2>6. EntryOK(e) /\ Fresh(e)
    BY <1>2, <2>2, <2>5 DEF CInv, EntryOK, Fresh
  <2>7. EntryOK(cache)' /\ Fresh(cache)'
    BY <1>1, <2>1, <2>6 DEF EntryOK, Fresh, AsGoodAt, AsGoodAs, Until, Mtime, Since, OnDisk, fileVars
  <2>. QED  BY <1>1, <2>1, <2>4, <2>7, ReturnKeeps, EntriesKept DEF CInv
<1>4. CASE cache.mtime # job[t].mtime
  <2>. DEFINE w == [job[t] EXCEPT !.pc = "read"]
  <2>1. /\ job' = [job EXCEPT ![t] = w] /\ UNCHANGED <<fileVars, asked>>
        /\ UNCHANGED registerVars /\ cache' = cache
    BY <1>1, <1>4 DEF Compare, Goto, registerVars, fileVars
  <2>2. w \in Work /\ w.pc = "read" /\ w.content = job[t].content /\ w.mtime = job[t].mtime
    BY <1>1 DEF Work
  <2>. HIDE DEF w
  <2>3. job'[t] = w /\ asked'[t] = asked[t] /\ OnDisk' = OnDisk /\ versions' = versions
    BY <2>1 DEF CInv, Jobs, fileVars, OnDisk
  <2>4. JobOK(t)'
    BY <1>1, <1>2, <2>2, <2>3 DEF JobOK, Is, Mtime
  <2>. QED  BY <1>1, <2>1, <2>2, <2>4, WorkKeeps, EntriesKept DEF CInv
<1>. QED  BY <1>3, <1>4

LEMMA CompareJsonKeeps ==
  ASSUME CInv, NEW t \in Threads, CompareJson(t)
  PROVE  CInv' /\ (Tell(t) \/ UNCHANGED registerVars)
<1>1. /\ UNCHANGED fileVars /\ UNCHANGED <<cache, jsonCache>> /\ Is(t, "compare") /\ job[t].mtime # 0
      /\ job[t] \in Work /\ JobOK(t) /\ asked[t].op = "json"
  BY DEF CompareJson, CInv, Jobs, JobOK, Is
<1>2. /\ asked[t] # Idle /\ job[t].content \in 1 .. OnDisk /\ asked[t].since \in 1 .. clock
      /\ asked[t].window > 0 /\ asked[t].window \in Nat
  BY <1>1 DEF JobOK, Is, CInv, Questions, QuestionOK, Question
<1>3. CASE jsonCache.mtime = job[t].mtime
  <2>1. Return(t, jsonCache.content)
    BY <1>3 DEF CompareJson
  <2>2. jsonCache # NoEntry /\ AsGoodAt(jsonCache.content, asked[t].since)
    BY <1>1, <1>3, UnchangedIsAsGood DEF CInv
  <2>3. jsonCache.content \in 1 .. OnDisk /\ asked[t].since \in Nat
        /\ asked[t].since > asked[t].since - asked[t].window
    BY <1>2, <2>2 DEF CInv, EntryOK
  <2>4. Tell(t)
    BY <1>1, <1>2, <2>1, <2>2, <2>3, AnswerAllowed DEF CInv
  <2>. QED  BY <1>1, <2>1, <2>4, ReturnKeeps, EntriesKept DEF CInv
<1>4. CASE jsonCache.mtime # job[t].mtime
  <2>. DEFINE w == [job[t] EXCEPT !.pc = "read"]
  <2>1. /\ job' = [job EXCEPT ![t] = w] /\ UNCHANGED <<fileVars, asked>> /\ UNCHANGED registerVars
    BY <1>1, <1>4 DEF CompareJson, Goto, registerVars, fileVars
  <2>2. w \in Work /\ w.pc = "read" /\ w.content = job[t].content /\ w.mtime = job[t].mtime
    BY <1>1 DEF Work
  <2>. HIDE DEF w
  <2>3. job'[t] = w /\ asked'[t] = asked[t] /\ OnDisk' = OnDisk /\ versions' = versions
    BY <2>1 DEF CInv, Jobs, fileVars, OnDisk
  <2>4. JobOK(t)'
    BY <1>1, <1>2, <2>2, <2>3 DEF JobOK, Is, Mtime
  <2>. QED  BY <1>1, <2>1, <2>2, <2>4, WorkKeeps, EntriesKept DEF CInv
<1>. QED  BY <1>3, <1>4

LEMMA ReadFileKeeps ==
  ASSUME CInv, NEW t \in Threads, ReadFile(t)
  PROVE  CInv' /\ (Tell(t) \/ UNCHANGED registerVars)
<1>1. /\ UNCHANGED fileVars /\ UNCHANGED <<cache, jsonCache>> /\ job[t].pc = "read"
      /\ job[t] \in Work /\ JobOK(t) /\ asked[t] \in Question
  BY DEF ReadFile, Is, CInv, Jobs, Questions
<1>2. asked[t] # Idle
  BY <1>1 DEF JobOK
<1>3. OnDisk \in 1 .. OnDisk /\ ~(OnDisk < OnDisk) /\ OnDisk \in 0 .. MaxVersions
  BY RegisterAssumption DEF CInv, History
<1>4. CASE State(OnDisk) = "missing" \/ (asked[t].op = "json" /\ State(OnDisk) = "invalid")
  <2>1. Return(t, OnDisk) /\ Until(OnDisk, asked[t].since)
    BY <1>3, <1>4 DEF ReadFile, Until
  <2>. QED  BY <1>1, <1>2, <1>3, <2>1, ToldFromDisk, ReturnKeeps, EntriesKept DEF CInv
<1>5. CASE ~(State(OnDisk) = "missing" \/ (asked[t].op = "json" /\ State(OnDisk) = "invalid"))
  <2>. DEFINE w == [job[t] EXCEPT !.pc = "store", !.content = OnDisk]
  <2>1. /\ job' = [job EXCEPT ![t] = w] /\ UNCHANGED <<fileVars, asked>>
        /\ UNCHANGED registerVars
    BY <1>1, <1>5 DEF ReadFile, registerVars, fileVars
  <2>2. w \in Work /\ w.pc = "store" /\ w.content = OnDisk /\ w.mtime = job[t].mtime
    BY <1>1, <1>3 DEF Work
  <2>. HIDE DEF w
  <2>3. Mtime(OnDisk) >= job[t].mtime /\ job[t].mtime # 0
    <3>1. /\ job[t].content \in 1 .. OnDisk /\ job[t].mtime = Mtime(job[t].content)
          /\ job[t].mtime # 0 /\ job[t].content <= OnDisk
      BY <1>1 DEF JobOK
    <3>2. Mtime(OnDisk) = Since(OnDisk) /\ Mtime(job[t].content) = Since(job[t].content)
      BY <1>3, <1>5, <3>1 DEF CInv, History
    <3>3. Since(job[t].content) <= Since(OnDisk)
      BY <1>3, <3>1 DEF CInv, History
    <3>. QED  BY <3>1, <3>2, <3>3
  <2>4. job'[t] = w /\ asked'[t] = asked[t] /\ OnDisk' = OnDisk /\ versions' = versions
    BY <2>1 DEF CInv, Jobs, fileVars, OnDisk
  <2>5. JobOK(t)'
    BY <1>2, <1>3, <2>2, <2>3, <2>4 DEF JobOK, Mtime, Until
  <2>. QED  BY <1>1, <2>1, <2>2, <2>5, WorkKeeps, EntriesKept DEF CInv
<1>. QED  BY <1>4, <1>5

LEMMA StoreReadKeeps ==
  ASSUME CInv, NEW t \in Threads, StoreRead(t)
  PROVE  CInv' /\ Tell(t)
<1>. DEFINE e == [mtime |-> job[t].mtime, checked |-> asked[t].since, content |-> job[t].content]
            j == [e EXCEPT !.checked = 0]
<1>1. /\ UNCHANGED fileVars /\ job[t].pc = "store" /\ job[t] \in Work /\ JobOK(t)
      /\ Return(t, job[t].content)
      /\ \/ cache' = e /\ jsonCache' = jsonCache
         \/ jsonCache' = j /\ cache' = cache
  BY DEF StoreRead, Is, CInv, Jobs
<1>2. /\ asked[t] # Idle /\ job[t].content \in 1 .. OnDisk /\ Mtime(job[t].content) >= job[t].mtime
      /\ job[t].mtime # 0 /\ Until(job[t].content, asked[t].since) /\ asked[t].since \in 1 .. clock
  BY <1>1 DEF JobOK, CInv, Questions, QuestionOK
<1>3. Tell(t)
  BY <1>1, <1>2, ToldFromDisk
<1>4. EntryOK(e) /\ Fresh(e) /\ EntryOK(j)
  <2>1. clock \in Nat /\ 0 <= clock /\ asked[t].since \in 0 .. MaxTime /\ 0 \in 0 .. MaxTime
    BY <1>2, RegisterAssumption DEF CInv, History
  <2>2. e \in Stored /\ j \in Stored /\ e.mtime >= 0
    BY <1>1, <2>1 DEF Stored, Work
  <2>3. AsGoodAt(job[t].content, asked[t].since)
    BY <1>2, OnDiskIsAsGood DEF CInv
  <2>. QED  BY <1>2, <2>1, <2>2, <2>3 DEF EntryOK, Fresh
<1>. HIDE DEF e, j
<1>5. CASE cache' = e /\ jsonCache' = jsonCache
  <2>1. EntryOK(cache)' /\ Fresh(cache)'
    BY <1>1, <1>4, <1>5 DEF EntryOK, Fresh, AsGoodAt, AsGoodAs, Until, Mtime, Since, OnDisk, fileVars
  <2>. QED  BY <1>1, <1>3, <1>5, <2>1, ReturnKeeps, EntriesKept DEF CInv
<1>6. CASE jsonCache' = j /\ cache' = cache
  <2>1. EntryOK(jsonCache)'
    BY <1>1, <1>4, <1>6 DEF EntryOK, Mtime, OnDisk, fileVars
  <2>. QED  BY <1>1, <1>3, <1>6, <2>1, ReturnKeeps, EntriesKept DEF CInv
<1>. QED  BY <1>1, <1>5, <1>6

-----------------------------------------------------------------------------
LEMMA CachesStart == CachesInit => CInv
<1>. SUFFICES ASSUME CachesInit
              PROVE  CInv
  OBVIOUS
<1>1. PICK s \in {"valid", "missing"} :
        versions = <<[state |-> s, mtime |-> IF s = "missing" THEN 0 ELSE 1, since |-> 1]>>
  BY DEF CachesInit, RegisterInit
<1>2. versions \in Seq(Version) /\ OnDisk = 1 /\ Since(1) = 1 /\ State(1) = s
      /\ Mtime(1) = IF s = "missing" THEN 0 ELSE 1
  BY <1>1 DEF Version, States, OnDisk, Since, State, Mtime
<1>3. \A k \in 1 .. OnDisk : k = 1
  BY <1>2
<1>4. clock = 1 /\ 1 \in 1 .. MaxTime /\ 1 \in 1 .. MaxVersions /\ 1 \in 1 .. 1 /\ 1 <= 1
  BY RegisterAssumption DEF CachesInit, RegisterInit
<1>5. History
  BY <1>2, <1>3, <1>4 DEF History
<1>6. Questions
  <2>1. Idle \in Question /\ Idle.op = "none"
    BY DEF Idle, Question
  <2>. QED  BY <2>1 DEF CachesInit, RegisterInit, Questions, QuestionOK
<1>7. Jobs
  <2>1. NoJob \in Work /\ NoJob.pc = "idle"
    BY RegisterAssumption DEF NoJob, Work
  <2>. QED  BY <2>1 DEF CachesInit, RegisterInit, Jobs, JobOK
<1>8. EntryOK(NoEntry) /\ Fresh(NoEntry)
  BY RegisterAssumption DEF EntryOK, Fresh, NoEntry, Stored
<1>. QED  BY <1>5, <1>6, <1>7, <1>8 DEF CInv, CachesInit

LEMMA CachesStep ==
  ASSUME CInv, [CachesNext]_cachesVars
  PROVE  CInv' /\ [RegisterNext]_registerVars
<1>1. ASSUME Elsewhere
      PROVE  CInv' /\ RegisterNext
  BY <1>1, ChangeKeeps, TickKeeps, SetAgeKeeps DEF Elsewhere, Change_, RegisterNext
<1>2. ASSUME NEW t \in Threads, NEW op \in {"file", "json"}, Call(t, op)
      PROVE  CInv' /\ RegisterNext
  BY <1>2, CallKeeps DEF RegisterNext
<1>3. ASSUME NEW t \in Threads,
             Lookup(t) \/ Stat(t) \/ StoreMissing(t) \/ Compare(t) \/ CompareJson(t)
               \/ ReadFile(t) \/ StoreRead(t)
      PROVE  CInv' /\ (RegisterNext \/ UNCHANGED registerVars)
  <2>1. CInv' /\ (Tell(t) \/ UNCHANGED registerVars)
    BY <1>3, LookupKeeps, StatKeeps, StoreMissingKeeps, CompareKeeps, CompareJsonKeeps, ReadFileKeeps,
       StoreReadKeeps
  <2>. QED  BY <2>1 DEF RegisterNext
<1>4. ASSUME UNCHANGED cachesVars
      PROVE  CInv' /\ UNCHANGED registerVars
  <2>1. UNCHANGED registerVars /\ UNCHANGED fileVars
    BY <1>4 DEF cachesVars, registerVars, fileVars
  <2>2. History' /\ Questions' /\ Jobs'
    BY <1>4 DEF CInv, History, Questions, QuestionOK, Jobs, JobOK, cachesVars, OnDisk, Since, Mtime, State, Until
  <2>. QED  BY <1>4, <2>1, <2>2, EntriesKept DEF CInv, cachesVars
<1>. QED  BY <1>1, <1>2, <1>3, <1>4 DEF CachesNext

LEMMA CachesInvariant == CachesSpec => []CInv
<1>. QED  BY CachesStart, CachesStep, PTL DEF CachesSpec

(* The caches and the threads that use them are always in a state of their  *)
(* type, and a thread without a question is idle (FileCache::get(),         *)
(* JsonCache::get()).                                                       *)
THEOREM CachesTypeCorrect == CachesSpec => []CachesTypeOK
<1>1. CInv => CachesTypeOK
  BY DEF CInv, EntryOK, Stored, Jobs, JobOK, Work, Is, CachesTypeOK
<1>. QED  BY <1>1, CachesInvariant, PTL

(* However many threads stat, read and store while others write the file:   *)
(* an entry of another content than the file's second has another           *)
(* modification time, so the next check replaces it.                        *)
THEOREM OutdatedEntriesAreNoticedAlways == CachesSpec => []OutdatedEntriesAreNoticed
<1>1. ASSUME CInv, NEW e, EntryOK(e), e # NoEntry, e.mtime = versions[OnDisk].mtime
      PROVE  AsGoodAs(e.content, OnDisk)
  <2>1. /\ e.content \in 1 .. OnDisk /\ OnDisk \in 1 .. OnDisk /\ OnDisk \in Nat /\ e.content <= OnDisk
        /\ e.mtime = Mtime(OnDisk)
    BY <1>1, RegisterAssumption DEF CInv, History, EntryOK, Mtime
  <2>2. \A k \in 1 .. OnDisk : Mtime(k) \in Nat /\ Since(k) \in Nat /\ (Mtime(k) # 0 => Mtime(k) = Since(k))
    BY <1>1, RegisterAssumption DEF CInv, History
  <2>3. Since(e.content) <= Since(OnDisk)
    BY <1>1, <2>1 DEF CInv, History
  <2>4. Mtime(e.content) = Mtime(OnDisk)
    <3>1. CASE e.mtime = 0
      BY <1>1, <2>1, <3>1 DEF EntryOK
    <3>2. CASE e.mtime # 0
      <4>1. Mtime(e.content) >= Mtime(OnDisk) /\ Mtime(OnDisk) # 0
        BY <1>1, <2>1, <3>2 DEF EntryOK
      <4>. QED  BY <2>1, <2>2, <2>3, <4>1
    <3>. QED  BY <3>1, <3>2
  <2>. QED  BY <2>4 DEF AsGoodAs, Mtime
<1>2. CInv => OutdatedEntriesAreNoticed
  BY <1>1 DEF CInv, OutdatedEntriesAreNoticed
<1>. QED  BY <1>2, CachesInvariant, PTL

(* The two caches implement the register: every answer is of a version that *)
(* was on disk less than the maximum check age before the question, for     *)
(* JSON not before the second of the question, or one as good as that.      *)
THEOREM BoundedStalenessAlways == CachesSpec => BoundedStaleness
<1>1. CachesInit => Register!RegisterInit
  BY DEF CachesInit, RegisterInit, Idle, Register!RegisterInit, Register!Idle
<1>2. RegisterNext => Register!RegisterNext
  <2>1. ASSUME NEW s \in States, Change(s)
        PROVE  Register!RegisterNext
    BY <2>1 DEF Change, States, Register!RegisterNext, Register!Change_, Register!Change, Register!States
  <2>2. ASSUME NEW a \in Ages, SetAge(a)
        PROVE  Register!RegisterNext
    BY <2>2 DEF SetAge, Larger, Register!RegisterNext, Register!SetAge, Register!Larger
  <2>3. ASSUME NEW t \in Threads, Tell(t)
        PROVE  Register!RegisterNext
    <3>1. Register!Tell(t)
      BY <2>3 DEF Tell, InWindow, AsGoodAs, Idle, Register!Tell, Register!InWindow, Register!AsGoodAs,
                  Register!Idle
    <3>. QED  BY <3>1 DEF Register!RegisterNext
  <2>4. ASSUME NEW t \in Threads, NEW op \in {"file", "json"}, Ask(t, op)
        PROVE  Register!RegisterNext
    BY <2>4 DEF Ask, Idle, Register!RegisterNext, Register!Ask, Register!Idle
  <2>5. ASSUME Tick
        PROVE  Register!RegisterNext
    BY <2>5 DEF Tick, Register!RegisterNext, Register!Tick
  <2>. QED  BY <2>1, <2>2, <2>3, <2>4, <2>5 DEF RegisterNext, Change_
<1>3. CInv /\ [CachesNext]_cachesVars => [Register!RegisterNext]_Register!registerVars
  BY <1>2, CachesStep DEF registerVars, Register!registerVars
<1>4. CachesSpec => Register!RegisterSpec
  BY <1>1, <1>3, CachesInvariant, PTL DEF CachesSpec, Register!RegisterSpec
<1>. QED  BY <1>4 DEF BoundedStaleness

-----------------------------------------------------------------------------
(* SmartMetCache.                                                           *)
USE SmartMetCacheAssumption DEF dataVars, clientVars, writerVars, Go, Notify

(* What is typed.                                                           *)
Types ==
  /\ memory \subseteq Key /\ file \subseteq Key /\ owed \subseteq Key /\ pending \in Seq(Key)
  /\ at \in [Client -> {"idle", "file", "queue"}] /\ item \in [Client -> SUBSET Key]
  /\ writer = "write" => back \in Key

(* An entry that is on the way to its file is not in the hands of a client  *)
(* that looks for it.                                                       *)
Evicted == {k \in Key : \E c \in Client : at[c] = "queue" /\ k \in item[c]}
OnTheWay == Evicted \cup ToSet(pending) \cup (IF writer = "write" THEN {back} ELSE {})
IInv == Types /\ owed \subseteq memory \cup file \cup OnTheWay

(* A queue holds what it held and what is put at its end.                   *)
LEMMA ToSetConcat ==
  ASSUME NEW s \in Seq(Key), NEW t \in Seq(Key)
  PROVE  s \o t \in Seq(Key) /\ ToSet(s) \cup ToSet(t) \subseteq ToSet(s \o t)
<1>. DEFINE u == s \o t
<1>1. /\ u \in Seq(Key) /\ Len(u) = Len(s) + Len(t) /\ Len(s) \in Nat /\ Len(t) \in Nat
      /\ \A i \in 1 .. Len(s) : u[i] = s[i]
      /\ \A i \in 1 .. Len(t) : u[Len(s) + i] = t[i]
  OBVIOUS
<1>. HIDE DEF u
<1>2. DOMAIN s = 1 .. Len(s) /\ DOMAIN t = 1 .. Len(t) /\ DOMAIN u = 1 .. Len(u)
  BY <1>1
<1>3. /\ \A i \in DOMAIN s : i \in DOMAIN u /\ u[i] = s[i]
      /\ \A i \in DOMAIN t : Len(s) + i \in DOMAIN u /\ u[Len(s) + i] = t[i]
  BY <1>1, <1>2, SMTT(60)
<1>4. ToSet(s) \cup ToSet(t) \subseteq ToSet(u)
  <2>1. ASSUME NEW x \in ToSet(s) PROVE x \in ToSet(u)
    BY <1>3 DEF ToSet
  <2>2. ASSUME NEW x \in ToSet(t) PROVE x \in ToSet(u)
    BY <1>3 DEF ToSet
  <2>. QED  BY <2>1, <2>2
<1>. QED  BY <1>1, <1>4 DEF u

(* An order of some keys is a sequence that has them all.                   *)
LEMMA OrdersAreWhole ==
  ASSUME NEW S \in SUBSET Key, NEW s \in Orders(S)
  PROVE  s \in Seq(Key) /\ S \subseteq ToSet(s)
<1>1. Cardinality(S) \in Nat
  BY FS_Subset, FS_CardinalityType
<1>2. s \in [1 .. Cardinality(S) -> S] /\ S \subseteq Range(s)
  BY DEF Orders
<1>3. s \in Seq(Key)
  BY <1>1, <1>2
<1>. QED  BY <1>2, <1>3 DEF Range, ToSet

LEMMA ToSetTail ==
  ASSUME NEW s \in Seq(Key), s # <<>>
  PROVE  /\ ToSet(s) = ToSet(Tail(s)) \cup {Head(s)}
         /\ Head(s) \in Key /\ Tail(s) \in Seq(Key)
<1>1. \A i \in 1 .. Len(s) : i = 1 \/ (i - 1 \in 1 .. Len(Tail(s)) /\ s[i] = Tail(s)[i - 1])
  OBVIOUS
<1>2. \A i \in 1 .. Len(Tail(s)) : i + 1 \in 1 .. Len(s) /\ Tail(s)[i] = s[i + 1]
  OBVIOUS
<1>3. Head(s) = s[1] /\ Head(s) \in Key /\ Tail(s) \in Seq(Key) /\ 1 \in 1 .. Len(s)
  OBVIOUS
<1>4. DOMAIN s = 1 .. Len(s) /\ DOMAIN Tail(s) = 1 .. Len(Tail(s))
  BY <1>3
<1>. DEFINE t == Tail(s)
           h == Head(s)
<1>5. /\ \A i \in DOMAIN s : s[i] = h \/ \E j \in DOMAIN t : s[i] = t[j]
      /\ \A j \in DOMAIN t : \E i \in DOMAIN s : t[j] = s[i]
      /\ \E i \in DOMAIN s : h = s[i]
  BY <1>1, <1>2, <1>3, <1>4
<1>. HIDE DEF t, h
<1>6. ToSet(s) = ToSet(t) \cup {h}
  <2>1. ASSUME NEW x \in ToSet(s)
        PROVE  x \in ToSet(t) \cup {h}
    BY <1>5 DEF ToSet
  <2>2. ASSUME NEW x \in ToSet(t) \cup {h}
        PROVE  x \in ToSet(s)
    BY <1>5 DEF ToSet
  <2>. QED  BY <2>1, <2>2
<1>. QED  BY <1>3, <1>6 DEF t, h

(* What the memory cache evicts goes to the client that caused it.          *)
LEMMA RememberKeeps ==
  ASSUME Types, NEW c \in Client, at[c] # "queue", NEW k \in Key, Remember(c, k)
  PROVE  /\ memory' \subseteq Key /\ item' \in [Client -> SUBSET Key]
         /\ at' \in [Client -> {"idle", "file", "queue"}]
         /\ memory \subseteq memory' \cup Evicted'
         /\ Size[k] <= MemorySize => k \in memory'
         /\ Evicted \subseteq Evicted'
<1>1. CASE Size[k] > MemorySize /\ UNCHANGED memory /\ Go(c, "idle", {})
  <2>1. Size[k] \in Nat
    OBVIOUS
  <2>. QED  BY <1>1, <2>1 DEF Types, Evicted
<1>2. ASSUME NEW e \in Evictions(memory, k, MemorySize), memory' = (memory \ e) \cup {k},
             Go(c, IF e = {} THEN "idle" ELSE "queue", e)
      PROVE  /\ memory' \subseteq Key /\ item' \in [Client -> SUBSET Key]
             /\ at' \in [Client -> {"idle", "file", "queue"}]
             /\ memory \subseteq memory' \cup Evicted'
             /\ k \in memory'
             /\ Evicted \subseteq Evicted'
  <2>1. e \subseteq memory /\ e \subseteq Key
    BY DEF Evictions, Types
  <2>2. \A d \in Client : at[d] = "queue" => at'[d] = "queue" /\ item'[d] = item[d]
    BY <1>2 DEF Types
  <2>3. item'[c] = e /\ (e # {} => at'[c] = "queue")
    BY <1>2 DEF Types
  <2>4. e \subseteq Evicted' /\ Evicted \subseteq Evicted'
    BY <2>1, <2>2, <2>3 DEF Evicted
  <2>. QED  BY <1>2, <2>1, <2>4 DEF Types
<1>. QED  BY <1>1, <1>2 DEF Remember

LEMMA Kept ==
  ASSUME IInv, [Next]_vars
  PROVE  IInv'
<1>. USE DEF IInv
<1>1. ASSUME NEW c \in Client, NEW k \in Key, Insert(c, k)
      PROVE  IInv'
  BY <1>1, RememberKeeps DEF Insert, Types, OnTheWay
<1>2. ASSUME NEW c \in Client, NEW k \in Key, FindMemory(c, k)
      PROVE  IInv'
  <2>1. Evicted \subseteq Evicted'
    BY <1>2 DEF FindMemory, Types, Evicted
  <2>. QED  BY <1>2, <2>1 DEF FindMemory, Types, OnTheWay
<1>3. ASSUME NEW c \in Client, FindFile(c)
      PROVE  IInv'
  <2>1. PICK k \in item[c] : \/ k \in file /\ Remember(c, k)
                             \/ k \notin file /\ Go(c, "idle", {}) /\ UNCHANGED memory
    BY <1>3 DEF FindFile
  <2>2. k \in Key
    BY DEF Types
  <2>3. CASE Remember(c, k)
    BY <1>3, <2>2, <2>3, RememberKeeps DEF FindFile, Types, OnTheWay
  <2>4. CASE Go(c, "idle", {}) /\ UNCHANGED memory
    <3>1. Evicted \subseteq Evicted'
      BY <1>3, <2>4 DEF FindFile, Types, Evicted
    <3>. QED  BY <1>3, <2>4, <3>1 DEF FindFile, Types, OnTheWay
  <2>. QED  BY <2>1, <2>3, <2>4
<1>4. ASSUME NEW c \in Client, QueueFileWrites(c)
      PROVE  IInv'
  <2>1. PICK s \in Orders(item[c]) : pending' = pending \o s
    BY <1>4 DEF QueueFileWrites
  <2>2. s \in Seq(Key) /\ item[c] \subseteq ToSet(s)
    BY OrdersAreWhole DEF Types
  <2>3. pending' \in Seq(Key) /\ ToSet(pending) \cup item[c] \subseteq ToSet(pending')
    BY <2>1, <2>2, ToSetConcat DEF Types
  <2>4. Evicted \subseteq Evicted' \cup item[c]
    BY <1>4 DEF QueueFileWrites, Types, Evicted
  <2>5. Types'
    BY <1>4, <2>3 DEF QueueFileWrites, Types
  <2>6. writer = "write" => writer' = "write" /\ back' = back
    BY <1>4 DEF QueueFileWrites
  <2>7. OnTheWay \subseteq OnTheWay'
    BY <2>3, <2>4, <2>6 DEF OnTheWay
  <2>. QED  BY <1>4, <2>5, <2>7 DEF QueueFileWrites
<1>5. CASE Take
  <2>1. CASE pending # <<>> /\ writer' = "write" /\ back' = Head(pending) /\ pending' = Tail(pending)
    <3>1. ToSet(pending) = ToSet(pending') \cup {back'} /\ back' \in Key /\ pending' \in Seq(Key)
      BY <2>1, ToSetTail DEF Types
    <3>2. Evicted' = Evicted /\ item' = item /\ at' = at /\ writer # "write"
      BY <1>5 DEF Take, Evicted
    <3>3. OnTheWay \subseteq OnTheWay'
      BY <2>1, <3>1, <3>2 DEF OnTheWay
    <3>. QED  BY <1>5, <2>1, <3>1, <3>2, <3>3 DEF Take, Types
  <2>2. CASE UNCHANGED <<pending, back>>
    BY <1>5, <2>2 DEF Take, Types, OnTheWay, Evicted
  <2>. QED  BY <1>5, <2>1, <2>2 DEF Take
<1>6. CASE Write \/ WriteFails
  <2>1. Evicted' = Evicted /\ item' = item /\ at' = at /\ pending' = pending /\ writer = "write" /\ back \in Key
    BY <1>6 DEF Write, WriteFails, Evicted, Types
  <2>2. OnTheWay \subseteq OnTheWay' \cup {back}
    BY <2>1 DEF OnTheWay
  <2>3. /\ file' \subseteq Key /\ owed' \subseteq owed /\ memory' = memory /\ writer' # "write"
        /\ owed' \cap (file \cup {back}) \subseteq file'
    BY <1>6, <2>1 DEF Write, WriteFails, Types
  <2>. QED  BY <2>1, <2>2, <2>3 DEF Types
<1>7. CASE Shutdown \/ Test \/ Wait \/ WakeSpuriously \/ UNCHANGED vars
  BY <1>7 DEF Shutdown, Test, Wait, WakeSpuriously, vars, Types, OnTheWay, Evicted
<1>. QED
  BY <1>1, <1>2, <1>3, <1>4, <1>5, <1>6, <1>7 DEF Next, ClientStep, WriterStep

(* No entry that the memory cache has taken is lost between its evictions   *)
(* and its file, unless the file cache refuses or drops it.                 *)
THEOREM NothingLostAlways == Spec => []NothingLost
<1>1. Init => IInv
  BY DEF Init, IInv, Types
<1>2. IInv /\ [Next]_vars => IInv'
  BY Kept
<1>3. IInv => NothingLost
  BY DEF IInv, OnTheWay, Evicted, NothingLost, Held
<1>. QED  BY <1>1, <1>2, <1>3, PTL DEF Spec

=============================================================================
