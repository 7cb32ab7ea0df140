---------------------------- MODULE SmartMetCache ----------------------------
(***************************************************************************)
(* The two-level cache (spine/SmartMetCache.cpp): what the memory cache    *)
(* evicts is queued and written to the file cache by a thread of its own;  *)
(* what is found in a file is promoted to memory.                          *)
(*                                                                         *)
(* A key is a hash of the data, so it stands for its data, whose size in   *)
(* bytes never changes.  The memory and the file cache are macgyver's and  *)
(* hold so many bytes; which entries they evict for another is left open.  *)
(* itsMutex is held for one step only.                                     *)
(***************************************************************************)
EXTENDS Naturals, SequencesExt

CONSTANTS
  Key,         \* hashes
  Client,      \* threads that call find() and insert()
  Size,        \* of the data of each key, in bytes
  MemorySize,  \* bytes the memory cache holds
  FileSize,    \* bytes the file cache holds
  MaxPending,  \* bound: entries in the queue
  MayFail,     \* whether a write of a file may throw or be refused
  Spurious,    \* whether a wait may end without a notification
  None

ASSUME SmartMetCacheAssumption ==
  /\ IsFiniteSet(Key) /\ None \notin Key
  /\ Size \in [Key -> Nat] /\ MemorySize \in Nat \ {0} /\ FileSize \in Nat \ {0} /\ MaxPending \in Nat
  /\ MayFail \in BOOLEAN /\ Spurious \in BOOLEAN

VARIABLES
  memory,    \* keys in itsMemoryCache
  file,      \* keys in itsFileCache
  pending,   \* itsPendingWrites, the back first
  owed,      \* keys the memory cache has taken and the file cache has not refused or dropped since
  request,   \* itsShutdownRequested
  at, item,  \* per client: its place, the keys in its hands
  writer,    \* the file thread: its place
  back       \* the key in its hands

dataVars   == <<memory, file, owed>>
clientVars == <<at, item>>
writerVars == <<writer, back>>
vars == <<dataVars, pending, request, clientVars, writerVars>>

TypeOK ==
  /\ memory \subseteq Key /\ file \subseteq Key
  /\ pending \in Seq(Key) /\ owed \subseteq Key
  /\ request \in BOOLEAN
  /\ at \in [Client -> {"idle", "file", "queue"}] /\ item \in [Client -> SUBSET Key]
  /\ writer \in {"test", "lock", "wait", "woken", "write", "ended", "crashed"}
  /\ back \in Key \cup {None}

Init ==
  /\ memory = {} /\ file = {} /\ owed = {}
  /\ pending = <<>> /\ request = FALSE
  /\ at = [c \in Client |-> "idle"] /\ item = [c \in Client |-> {}]
  /\ writer = "test" /\ back = None

-----------------------------------------------------------------------------
Go(c, place, keys) == at' = [at EXCEPT ![c] = place] /\ item' = [item EXCEPT ![c] = keys]

(* What a cache of so many bytes may evict for an entry: one after another, *)
(* until the rest fits.  An entry that is larger than the cache never does. *)
Fit(keys, bytes) == FoldFunctionOnSet(+, 0, Size, keys) <= bytes
Evictions(held, k, bytes) ==
  {e \in SUBSET (held \ {k}) :
     /\ Fit((held \ e) \cup {k}, bytes)
     /\ e = {} \/ \E last \in e : ~Fit((held \ e) \cup {k, last}, bytes)}

(* The memory cache takes an entry; all that it evicts is queued next.  An  *)
(* entry larger than the cache is refused without a word.                   *)
Remember(c, k) ==
  \/ /\ Size[k] > MemorySize
     /\ UNCHANGED memory /\ Go(c, "idle", {})
  \/ \E e \in Evictions(memory, k, MemorySize) :
       memory' = (memory \ e) \cup {k} /\ Go(c, IF e = {} THEN "idle" ELSE "queue", e)

Insert(c, k) ==
  /\ at[c] = "idle"
  /\ Remember(c, k)
  /\ owed' = IF Size[k] <= MemorySize THEN owed \cup {k} ELSE owed
  /\ UNCHANGED <<file, pending, request, writerVars>>

(* find: a key that is not in memory is looked for in the files.            *)
FindMemory(c, k) ==
  /\ at[c] = "idle" /\ k \notin memory
  /\ Go(c, "file", {k})
  /\ UNCHANGED <<dataVars, pending, request, writerVars>>

FaultFindFile(c) ==  \* fault: what the promotion evicts is not queued
  /\ at[c] = "file"
  /\ \E k \in item[c] :
       \/ k \in file /\ \E e \in Evictions(memory, k, MemorySize) : memory' = (memory \ e) \cup {k}
       \/ k \notin file /\ UNCHANGED memory
  /\ Go(c, "idle", {})
  /\ UNCHANGED <<file, owed, pending, request, writerVars>>

FindFile(c) ==
  /\ at[c] = "file"
  /\ \E k \in item[c] :
       \/ k \in file /\ Remember(c, k)
       \/ k \notin file /\ Go(c, "idle", {}) /\ UNCHANGED memory
  /\ UNCHANGED <<file, owed, pending, request, writerVars>>

Notify == writer' = IF writer = "wait" THEN "woken" ELSE writer

(* All the evicted entries are queued, in the order of the evictions.       *)
Orders(S) == {s \in [1 .. Cardinality(S) -> S] : S \subseteq Range(s)}

FaultQueueFileWrites(c) ==  \* fault: nobody is notified
  /\ at[c] = "queue" /\ Len(pending) + Cardinality(item[c]) <= MaxPending
  /\ \E s \in Orders(item[c]) : pending' = pending \o s
  /\ Go(c, "idle", {})
  /\ UNCHANGED <<dataVars, request, writerVars>>

QueueFileWrites(c) ==
  /\ at[c] = "queue" /\ Len(pending) + Cardinality(item[c]) <= MaxPending
  /\ \E s \in Orders(item[c]) : pending' = pending \o s
  /\ Notify
  /\ Go(c, "idle", {})
  /\ UNCHANGED <<dataVars, request, back>>

(* shutdown() and the first half of the destructor.                         *)
Shutdown ==
  /\ ~request
  /\ request' = TRUE
  /\ Notify
  /\ UNCHANGED <<dataVars, pending, clientVars, back>>

-----------------------------------------------------------------------------
(* operateFileCache.  The flag is tested before the mutex is taken.         *)
Test ==
  /\ writer = "test"
  /\ writer' = IF request THEN "ended" ELSE "lock"
  /\ UNCHANGED <<dataVars, pending, request, clientVars, back>>

Wait ==
  /\ writer = "lock" /\ pending = <<>>
  /\ writer' = "wait"
  /\ UNCHANGED <<dataVars, pending, request, clientVars, back>>

WakeSpuriously ==
  /\ Spurious /\ writer = "wait"
  /\ writer' = "woken"
  /\ UNCHANGED <<dataVars, pending, request, clientVars, back>>

(* After the wait only the flag is looked at: with an empty queue, back()   *)
(* is undefined.                                                            *)
Take ==
  /\ writer = "woken" \/ (writer = "lock" /\ pending # <<>>)
  /\ IF request THEN writer' = "ended" /\ UNCHANGED <<pending, back>>
     ELSE IF pending = <<>> THEN writer' = "crashed" /\ UNCHANGED <<pending, back>>
     ELSE writer' = "write" /\ back' = Head(pending) /\ pending' = Tail(pending)
  /\ UNCHANGED <<dataVars, request, clientVars>>

(* The file cache makes room and takes the entry, or returns false: the     *)
(* entry is gone, perhaps others with it, and the show goes on.             *)
Write ==
  /\ writer = "write"
  /\ \/ \E e \in Evictions(file, back, FileSize) : file' = (file \ e) \cup {back} /\ owed' = owed \ e
     \/ /\ MayFail \/ Size[back] > FileSize
        /\ \E e \in Evictions(file, back, FileSize) \cup {{}} :
             file' = file \ e /\ owed' = owed \ (e \cup {back})
  /\ writer' = "test" /\ back' = None
  /\ UNCHANGED <<memory, pending, request, clientVars>>

(* An exception ends the thread.                                            *)
WriteFails ==
  /\ MayFail /\ writer = "write"
  /\ owed' = owed \ {back}
  /\ writer' = "ended" /\ back' = None
  /\ UNCHANGED <<memory, file, pending, request, clientVars>>

-----------------------------------------------------------------------------
ClientStep(c) == FindFile(c) \/ QueueFileWrites(c)
WriterStep == Test \/ Wait \/ Take \/ Write

Next ==
  \/ \E c \in Client : ClientStep(c) \/ \E k \in Key : Insert(c, k) \/ FindMemory(c, k)
  \/ Shutdown \/ WriterStep \/ WakeSpuriously \/ WriteFails

Spec == Init /\ [][Next]_vars
FairSpec == Spec /\ WF_vars(WriterStep) /\ \A c \in Client : WF_vars(ClientStep(c))

-----------------------------------------------------------------------------
Held == memory \cup file \cup (UNION {item[c] : c \in Client}) \cup ToSet(pending) \cup {back}

(* An entry that the memory cache has taken stays somewhere between its     *)
(* eviction from memory and its file, until the file cache refuses or drops *)
(* it: however many entries one insertion evicts, whoever promotes others.  *)
NothingLost == owed \subseteq Held

(* The thread comes back for what is queued, unless a shutdown comes first  *)
(* or a failed write or a spurious wake-up has ended it.                    *)
PendingWritten == pending # <<>> ~> (writer \in {"write", "ended", "crashed"} \/ request)

=============================================================================
