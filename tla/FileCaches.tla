----------------------------- MODULE FileCaches -----------------------------
(***************************************************************************)
(* FileCache (src/spine/FileCache.cpp) and JsonCache (JsonCache.cpp) for   *)
(* one file that others write and remove, used by several threads.  The    *)
(* map of a cache is only touched under its mutex; the stat and the read   *)
(* of the file are outside it, and everything can happen between them.     *)
(* A version of the file stands for its content.                           *)
(***************************************************************************)
EXTENDS FileRegister

VARIABLES cache,      \* FileCache::itsCache for the file
          jsonCache,  \* JsonCache::itsCache for the file
          job         \* per thread: where it is, the mtime and the version it has
cachesVars == <<versions, clock, age, asked, answer, cache, jsonCache, job>>
fileVars == <<versions, clock, age>>

NoEntry == [mtime |-> -1, checked |-> 0, content |-> 0]
NoJob   == [pc |-> "idle", mtime |-> 0, content |-> 0]

CachesInit ==
  /\ RegisterInit
  /\ cache = NoEntry
  /\ jsonCache = NoEntry
  /\ job = [t \in Threads |-> NoJob]

OnDisk == Len(versions)
State(k) == versions[k].state
Is(t, pc) == job[t].pc = pc
Goto(t, pc) == job' = [job EXCEPT ![t].pc = pc]

\* The call is over: the answer is the content of version k, or what having
\* that version leads to (an exception for a missing file or invalid JSON).
Return(t, k) ==
  /\ answer' = [answer EXCEPT ![t] = k]
  /\ asked' = [asked EXCEPT ![t] = Idle]
  /\ job' = [job EXCEPT ![t] = NoJob]

\* get() and last_modified() of FileCache, which differ in what they tell of
\* the entry, take the time before they look; "json" is JsonCache::get().
Call(t, op) ==
  /\ Ask(t, op)
  /\ Goto(t, IF op = "json" THEN "stat" ELSE "lookup")
  /\ UNCHANGED <<cache, jsonCache>>

\* The fast path, under the read lock.
Lookup(t) ==
  /\ Is(t, "lookup")
  /\ IF cache # NoEntry /\ asked[t].since - cache.checked < age
     THEN Return(t, cache.content)
     ELSE Goto(t, "stat") /\ UNCHANGED <<asked, answer>>
  /\ UNCHANGED <<fileVars, cache, jsonCache>>

\* last_write_time(): 0 for a missing file; JsonCache lets it throw.
Stat(t) ==
  /\ Is(t, "stat")
  /\ IF asked[t].op = "json" /\ State(OnDisk) = "missing"
     THEN Return(t, OnDisk)
     ELSE /\ job' = [job EXCEPT ![t] = [pc |-> "compare", mtime |-> versions[OnDisk].mtime,
                                        content |-> OnDisk]]
          /\ UNCHANGED <<asked, answer>>
  /\ UNCHANGED <<fileVars, cache, jsonCache>>

\* A missing file is stored as such.
StoreMissing(t) ==
  /\ Is(t, "compare") /\ asked[t].op # "json" /\ job[t].mtime = 0
  /\ cache' = [mtime |-> 0, checked |-> asked[t].since, content |-> job[t].content]
  /\ Return(t, job[t].content)
  /\ UNCHANGED <<fileVars, jsonCache>>

\* Fault for the mutants: the check is dated when it is stored.
CompareDatedLate(t) ==
  /\ Is(t, "compare") /\ asked[t].op # "json" /\ job[t].mtime # 0
  /\ IF cache.mtime = job[t].mtime
     THEN /\ cache' = [cache EXCEPT !.checked = clock]
          /\ Return(t, cache.content)
     ELSE /\ Goto(t, "read")
          /\ UNCHANGED <<cache, asked, answer>>
  /\ UNCHANGED <<fileVars, jsonCache>>

\* An unchanged file: the time of the check is renewed.
Compare(t) ==
  /\ Is(t, "compare") /\ asked[t].op # "json" /\ job[t].mtime # 0
  /\ IF cache.mtime = job[t].mtime
     THEN /\ cache' = [cache EXCEPT !.checked = asked[t].since]
          /\ Return(t, cache.content)
     ELSE /\ Goto(t, "read")
          /\ UNCHANGED <<cache, asked, answer>>
  /\ UNCHANGED <<fileVars, jsonCache>>

CompareJson(t) ==
  /\ Is(t, "compare") /\ asked[t].op = "json"
  /\ IF jsonCache.mtime = job[t].mtime
     THEN Return(t, jsonCache.content)
     ELSE Goto(t, "read") /\ UNCHANGED <<asked, answer>>
  /\ UNCHANGED <<fileVars, cache, jsonCache>>

\* Without a lock: the file may be gone, or another, by now.
ReadFile(t) ==
  /\ Is(t, "read")
  /\ IF State(OnDisk) = "missing" \/ (asked[t].op = "json" /\ State(OnDisk) = "invalid")
     THEN Return(t, OnDisk)
     ELSE /\ job' = [job EXCEPT ![t].pc = "store", ![t].content = OnDisk]
          /\ UNCHANGED <<asked, answer>>
  /\ UNCHANGED <<fileVars, cache, jsonCache>>

\* Fault for the mutants: the modification time is taken after the read.
StoreStatLast(t) ==
  /\ Is(t, "store")
  /\ LET entry == [mtime |-> versions[OnDisk].mtime, checked |-> asked[t].since,
                   content |-> job[t].content]
     IN IF asked[t].op = "json"
        THEN jsonCache' = [entry EXCEPT !.checked = 0] /\ UNCHANGED cache
        ELSE cache' = entry /\ UNCHANGED jsonCache
  /\ Return(t, job[t].content)
  /\ UNCHANGED fileVars

\* Under the write lock, over whatever another thread has stored meanwhile.
StoreRead(t) ==
  /\ Is(t, "store")
  /\ LET entry == [mtime |-> job[t].mtime, checked |-> asked[t].since, content |-> job[t].content]
     IN IF asked[t].op = "json"
        THEN jsonCache' = [entry EXCEPT !.checked = 0] /\ UNCHANGED cache
        ELSE cache' = entry /\ UNCHANGED jsonCache
  /\ Return(t, job[t].content)
  /\ UNCHANGED fileVars

\* The file changes, time passes, the age is set.
Elsewhere ==
  /\ Change_ \/ Tick \/ \E a \in Ages : SetAge(a)
  /\ UNCHANGED <<cache, jsonCache, job>>

CachesNext ==
  \/ Elsewhere
  \/ \E t \in Threads :
       \/ \E op \in {"file", "json"} : Call(t, op)
       \/ Lookup(t) \/ Stat(t) \/ StoreMissing(t) \/ Compare(t) \/ CompareJson(t)
       \/ ReadFile(t) \/ StoreRead(t)

CachesSpec == CachesInit /\ [][CachesNext]_cachesVars

---------------------------------------------------------------------------
CachesTypeOK ==
  LET entries == [mtime : -1 .. MaxTime, checked : 0 .. MaxTime, content : 0 .. MaxVersions]
  IN /\ cache \in entries /\ jsonCache \in entries
     /\ job \in [Threads -> [pc : {"idle", "lookup", "stat", "compare", "read", "store"},
                             mtime : 0 .. MaxTime, content : 0 .. MaxVersions]]
     /\ \A t \in Threads : Is(t, "idle") <=> asked[t] = Idle

\* An entry whose content is not of the second of the file on disk has another
\* modification time than the file, so that the next check replaces it,
\* whatever was written between a stat, a read and a store of any thread.
OutdatedEntriesAreNoticed ==
  \A entry \in {cache, jsonCache} :
    entry # NoEntry /\ ~AsGoodAs(entry.content, OnDisk) => entry.mtime # versions[OnDisk].mtime

Register == INSTANCE FileRegister

\* Every answer of the two caches is one that the register allows: not older
\* than the maximum check age, or for JSON than the question, up to versions
\* written within one second.
BoundedStaleness == Register!RegisterSpec
=============================================================================
