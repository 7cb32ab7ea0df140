----------------------------- MODULE HandlerLog -----------------------------
(***************************************************************************)
(* The request log of one HandlerView: requests append to it, the cleaner  *)
(* thread writes it to the access log and purges it, LogRange readers walk *)
(* it, setLogging() turns it off and on, and the destructor flushes it     *)
(* (spine/HandlerView.cpp, LogRange.cpp, AccessLogger.cpp and the logging  *)
(* part of ContentHandlerMap.cpp).                                         *)
(*                                                                         *)
(* Requests are numbered in the order in which they are accepted, which is *)
(* the order of the list itsRequestLog; so a list of them is the set of    *)
(* its numbers.  End times are read under the list's lock, so older        *)
(* numbers have older times (the clock is assumed not to be set back).     *)
(***************************************************************************)
EXTENDS Naturals

CONSTANTS
  MaxEntries,  \* bound: requests accepted in a behaviour
  Reader       \* admin requests that hold a LogRange

ASSUME HandlerLogAssumption == MaxEntries \in Nat \ {0}

Entry == 1 .. MaxEntries
End == 0   \* list.end(): as a marker, nothing has been flushed

VARIABLES
  accepted,  \* number of requests accepted so far
  inTime,    \* how many of them before the destructor's flushLog() took its batch
  old,       \* requests up to this number are past the maximum age
  down,      \* Reactor::isShuttingDown()
  log,       \* itsRequestLog
  marker,    \* itsLastFlushedRequest
  isLogging, \* the view's own status
  running,   \* AccessLogger: itsIsRunning
  file,      \* the access log on disk
  enabled,   \* ContentHandlerMap: itsLoggingEnabled
  cleaner,   \* the cleaner thread exists
  cpc, cbuf, climit,  \* cleaner: place, to_flush, firstValidTime
  spc, sbuf,          \* thread in setLogging(): place, to_flush
  dpc, dbuf,          \* destructor: place, to_flush
  holding, at,        \* readers with a LogRange, and their positions
  crashed             \* a dangling iterator has been followed

logVars == <<log, marker, isLogging>>
diskVars == <<running, file>>
cleanVars == <<cleaner, cpc, cbuf, climit>>
setVars == <<enabled, spc, sbuf>>
destroyVars == <<dpc, dbuf>>
readVars == <<holding, at>>
vars == <<accepted, inTime, old, down, logVars, diskVars, cleanVars, setVars, destroyVars, readVars, crashed>>

TypeOK ==
  /\ accepted \in 0 .. MaxEntries /\ inTime \in 0 .. accepted /\ old \in 0 .. accepted
  /\ log \subseteq 1 .. accepted /\ marker \in 0 .. accepted
  /\ file \subseteq 1 .. accepted
  /\ isLogging \in BOOLEAN /\ running \in BOOLEAN /\ enabled \in BOOLEAN
  /\ cleaner \in BOOLEAN /\ crashed \in BOOLEAN /\ down \in BOOLEAN
  /\ cpc \in {"sleep", "snapshot", "write", "purge"}
  /\ cbuf \subseteq 1 .. accepted /\ climit \in 0 .. old
  /\ spc \in {"idle", "join", "switch", "write", "stop"}
  /\ sbuf \subseteq 1 .. accepted
  /\ dpc \in {"live", "write", "gone"} /\ dbuf \subseteq 1 .. accepted
  /\ holding \subseteq Reader /\ at \in [Reader -> 0 .. accepted]

Init ==
  /\ accepted = 0 /\ inTime = 0 /\ old = 0 /\ down = FALSE
  /\ log = {} /\ marker = End /\ file = {}
  /\ enabled \in BOOLEAN
  /\ isLogging = enabled /\ running = enabled /\ cleaner = enabled
  /\ cpc = "sleep" /\ cbuf = {} /\ climit = 0
  /\ spc = "idle" /\ sbuf = {}
  /\ dpc = "live" /\ dbuf = {}
  /\ holding = {} /\ at = [r \in Reader |-> End]
  /\ crashed = FALSE

-----------------------------------------------------------------------------
Valid(position) == position = End \/ position \in log

(* firstUnflushed() to end().  It follows the marker's iterator, so its     *)
(* callers crash when that dangles.                                         *)
Unflushed == {e \in log : e > marker}

Last(list) == CHOOSE e \in list : \A f \in list : f <= e
First(list) == CHOOSE e \in list : \A f \in list : e <= f

Crash == crashed' = TRUE /\ UNCHANGED <<accepted, inTime, old, down, logVars, diskVars, cleanVars, setVars, destroyVars, readVars>>

(* appendLoggedRequest: dropped unless the view is logging.  A request that *)
(* is still in handle(), or a stream that completes, calls it even while    *)
(* the destructor writes its last batch: that entry goes with the list.     *)
AppendLoggedRequest ==
  /\ dpc # "gone" /\ isLogging
  /\ accepted < MaxEntries
  /\ accepted' = accepted + 1
  /\ inTime' = IF dpc = "live" THEN accepted + 1 ELSE inTime
  /\ log' = log \cup {accepted + 1}
  /\ UNCHANGED <<old, down, marker, isLogging, diskVars, cleanVars, setVars, destroyVars, readVars, crashed>>

(* The same call when the view is gone: its lock is freed memory.           *)
AppendTooLate ==
  /\ dpc = "gone" /\ accepted < MaxEntries
  /\ Crash

(* The clock moves on: some more requests are past the maximum age.         *)
Age ==
  /\ old < accepted
  /\ old' = old + 1
  /\ UNCHANGED <<accepted, inTime, down, logVars, diskVars, cleanVars, setVars, destroyVars, readVars, crashed>>

(* The server begins to shut down.                                          *)
Shutdown ==
  /\ ~down
  /\ down' = TRUE
  /\ UNCHANGED <<accepted, inTime, old, logVars, diskVars, cleanVars, setVars, destroyVars, readVars, crashed>>

-----------------------------------------------------------------------------
(* The cleaner wakes up, unless interrupted in its sleep or the server is   *)
(* shutting down, and computes the age limit for this round.                *)

CleanLogBegin ==
  /\ cleaner /\ cpc = "sleep" /\ ~down /\ spc # "join" /\ dpc = "live"
  /\ climit' = old
  /\ cpc' = "snapshot"
  /\ UNCHANGED <<accepted, inTime, old, down, logVars, diskVars, cleaner, cbuf, setVars, destroyVars, readVars, crashed>>

(* A shutdown is noticed before this view's turn.                           *)
CleanLogSkip ==
  /\ cpc = "snapshot" /\ down
  /\ cpc' = "sleep"
  /\ UNCHANGED <<accepted, inTime, old, down, logVars, diskVars, cleaner, cbuf, climit, setVars, destroyVars, readVars, crashed>>

(* Phase A: copy what is not flushed yet and move the marker to the end.    *)
CleanLogSnapshot ==
  /\ cpc = "snapshot"
  /\ IF ~Valid(marker) THEN Crash
     ELSE /\ cbuf' = Unflushed
          /\ marker' = IF Unflushed = {} THEN marker ELSE Last(log)
          /\ cpc' = "write"
          /\ UNCHANGED <<accepted, inTime, old, down, log, isLogging, diskVars, cleaner, climit, setVars, destroyVars, readVars, crashed>>

(* AccessLogger::log: a stopped logger drops what it is given.              *)
Written(buffer) == IF running THEN file \cup buffer ELSE file

(* Phase B: write the copy with no lock held.                               *)
CleanLogWrite ==
  /\ cpc = "write"
  /\ file' = Written(cbuf)
  /\ cbuf' = {}
  /\ cpc' = "purge"
  /\ UNCHANGED <<accepted, inTime, old, down, logVars, running, cleaner, climit, setVars, destroyVars, readVars, crashed>>

(* Phase C: unless there are readers, drop the old prefix; when that is     *)
(* the whole list the marker goes back to end().                            *)
Survivors == {e \in log : e > climit}

FaultCleanLogPurgeReaders ==  \* fault: readers are not looked at
  /\ cpc = "purge"
  /\ log' = Survivors
  /\ marker' = IF Survivors # log /\ Survivors = {} THEN End ELSE marker
  /\ cpc' = "sleep"
  /\ UNCHANGED <<accepted, inTime, old, down, isLogging, diskVars, cleaner, cbuf, climit, setVars, destroyVars, readVars, crashed>>

FaultCleanLogPurgeLate ==  \* fault: the age limit is taken after the snapshot
  /\ cpc = "purge"
  /\ IF holding # {} THEN UNCHANGED <<log, marker>>
     ELSE log' = {e \in log : e > old} /\ marker' = IF log' = {} THEN End ELSE marker
  /\ cpc' = "sleep"
  /\ UNCHANGED <<accepted, inTime, old, down, isLogging, diskVars, cleaner, cbuf, climit, setVars, destroyVars, readVars, crashed>>

CleanLogPurge ==
  /\ cpc = "purge"
  /\ IF holding # {} THEN UNCHANGED <<log, marker>>
     ELSE /\ log' = Survivors
          /\ marker' = IF Survivors # log /\ Survivors = {} THEN End ELSE marker
  /\ cpc' = "sleep"
  /\ UNCHANGED <<accepted, inTime, old, down, isLogging, diskVars, cleaner, cbuf, climit, setVars, destroyVars, readVars, crashed>>

-----------------------------------------------------------------------------
(* ContentHandlerMap::setLogging, under its own mutex: flip the status,     *)
(* join the cleaner (it ends only in its sleep), start a new one when       *)
(* turning on, then switch the view.                                        *)
SetLogging(on) ==
  /\ spc = "idle" /\ dpc = "live" /\ enabled # on
  /\ enabled' = on
  /\ spc' = "join"
  /\ UNCHANGED <<accepted, inTime, old, down, logVars, diskVars, cleanVars, sbuf, destroyVars, readVars, crashed>>

JoinCleaner ==
  /\ spc = "join" /\ cpc = "sleep"
  /\ cleaner' = enabled
  /\ spc' = "switch"
  /\ UNCHANGED <<accepted, inTime, old, down, logVars, diskVars, cpc, cbuf, climit, enabled, sbuf, destroyVars, readVars, crashed>>

(* HandlerView::setLogging, the locked part: off takes the whole list, on   *)
(* reopens the access log.  ContentHandlerMap's loop no longer meets a view *)
(* that has been removed.                                                   *)
FaultSwitchOff ==  \* fault: the list is cleared, not flushed
  /\ spc = "switch" /\ ~enabled /\ dpc = "live"
  /\ IF ~Valid(marker) THEN Crash
     ELSE /\ isLogging' = FALSE
          /\ log' = {} /\ marker' = End
          /\ spc' = "write"
          /\ UNCHANGED <<accepted, inTime, old, down, diskVars, cleanVars, enabled, sbuf, destroyVars, readVars, crashed>>

SwitchOff ==
  /\ spc = "switch" /\ ~enabled /\ dpc = "live"
  /\ IF ~Valid(marker) THEN Crash
     ELSE /\ isLogging' = FALSE
          /\ sbuf' = Unflushed
          /\ log' = {} /\ marker' = End
          /\ spc' = "write"
          /\ UNCHANGED <<accepted, inTime, old, down, diskVars, cleanVars, enabled, destroyVars, readVars, crashed>>

SwitchOn ==
  /\ spc = "switch" /\ enabled /\ dpc = "live"
  /\ isLogging' = TRUE
  /\ marker' = End
  /\ running' = TRUE
  /\ spc' = "idle"
  /\ UNCHANGED <<accepted, inTime, old, down, log, file, cleanVars, enabled, sbuf, destroyVars, readVars, crashed>>

SwitchRemoved ==
  /\ spc = "switch" /\ dpc # "live"
  /\ spc' = "idle"
  /\ UNCHANGED <<accepted, inTime, old, down, logVars, diskVars, cleanVars, enabled, sbuf, destroyVars, readVars, crashed>>

(* HandlerView::setLogging, unlocked: the final flush, then the stop; both  *)
(* follow a pointer into freed memory when the view has gone meanwhile.     *)
SwitchWrite ==
  /\ spc = "write"
  /\ IF dpc = "gone" THEN Crash
     ELSE /\ file' = Written(sbuf)
          /\ sbuf' = {}
          /\ spc' = "stop"
          /\ UNCHANGED <<accepted, inTime, old, down, logVars, running, cleanVars, enabled, destroyVars, readVars, crashed>>

SwitchStop ==
  /\ spc = "stop"
  /\ IF dpc = "gone" THEN Crash
     ELSE /\ running' = FALSE
          /\ spc' = "idle"
          /\ UNCHANGED <<accepted, inTime, old, down, logVars, file, cleanVars, enabled, sbuf, destroyVars, readVars, crashed>>

-----------------------------------------------------------------------------
(* The destructor: flushLog(), then the members go.  removeContentHandlers  *)
(* has the content lock, so the cleaner is not in a round; nothing keeps    *)
(* out readers, requests, streams or a thread in setLogging().              *)
Destroy ==
  /\ dpc = "live" /\ cpc = "sleep"
  /\ IF ~Valid(marker) THEN Crash
     ELSE /\ dbuf' = Unflushed
          /\ marker' = IF Unflushed = {} THEN marker ELSE Last(log)
          /\ dpc' = "write"
          /\ UNCHANGED <<accepted, inTime, old, down, log, isLogging, diskVars, cleanVars, setVars, readVars, crashed>>

DestroyWrite ==
  /\ dpc = "write"
  /\ file' = Written(dbuf)
  /\ dbuf' = {} /\ log' = {} /\ marker' = End
  /\ dpc' = "gone"
  /\ UNCHANGED <<accepted, inTime, old, down, isLogging, running, cleanVars, setVars, readVars, crashed>>

-----------------------------------------------------------------------------
(* A LogRange: taken under the lock, walked without it, released; the last  *)
(* two use the view they came from.                                         *)
GetLoggedRequests(r) ==
  /\ dpc = "live" /\ enabled /\ r \notin holding
  /\ holding' = holding \cup {r}
  /\ at' = [at EXCEPT ![r] = IF log = {} THEN End ELSE First(log)]
  /\ UNCHANGED <<accepted, inTime, old, down, logVars, diskVars, cleanVars, setVars, destroyVars, crashed>>

ReadNext(r) ==
  /\ r \in holding /\ at[r] # End
  /\ IF ~Valid(at[r]) THEN Crash
     ELSE LET rest == {e \in log : e > at[r]}
          IN /\ at' = [at EXCEPT ![r] = IF rest = {} THEN End ELSE First(rest)]
             /\ UNCHANGED <<accepted, inTime, old, down, logVars, diskVars, cleanVars, setVars, destroyVars, holding, crashed>>

ReleaseLogRange(r) ==
  /\ r \in holding
  /\ IF dpc = "gone" THEN Crash
     ELSE /\ holding' = holding \ {r}
          /\ at' = [at EXCEPT ![r] = End]
          /\ UNCHANGED <<accepted, inTime, old, down, logVars, diskVars, cleanVars, setVars, destroyVars, crashed>>

-----------------------------------------------------------------------------
Cleaning == CleanLogBegin \/ CleanLogSkip \/ CleanLogSnapshot \/ CleanLogWrite \/ CleanLogPurge
Switching == JoinCleaner \/ SwitchOff \/ SwitchOn \/ SwitchRemoved \/ SwitchWrite \/ SwitchStop

Next ==
  /\ ~crashed
  /\ \/ AppendLoggedRequest \/ AppendTooLate \/ Age \/ Shutdown
     \/ Cleaning
     \/ \E on \in BOOLEAN : SetLogging(on)
     \/ Switching
     \/ Destroy \/ DestroyWrite
     \/ \E r \in Reader : GetLoggedRequests(r) \/ ReadNext(r) \/ ReleaseLogRange(r)

Spec == Init /\ [][Next]_vars

(* The cleaner wakes every five seconds and finishes its rounds, the thread *)
(* in setLogging() goes on, and a shutdown removes the views in the end.    *)
(* Readers, requests and operators owe nothing.                             *)
FairSpec ==
  /\ Spec
  /\ WF_vars(~crashed /\ Cleaning) /\ WF_vars(~crashed /\ Switching)
  /\ WF_vars(~crashed /\ down /\ Destroy) /\ WF_vars(~crashed /\ DestroyWrite)

-----------------------------------------------------------------------------
Buffered == cbuf \cup sbuf \cup dbuf

(* What is not flushed yet and must be: all of it, until the destructor has *)
(* taken its batch.                                                         *)
Due == {e \in Unflushed : e <= inTime}

(* The access log is complete and in order: what is on disk, then what one  *)
(* thread is about to write, then what is not flushed yet, are exactly the  *)
(* requests accepted before the destructor's last batch, each once.  So     *)
(* purges, turning logging off and on and the destructor lose, double or    *)
(* reorder none of them, and what is accepted while the destructor writes   *)
(* (which the code does lose) does not get between them.                    *)
CompleteInOrder ==
  /\ file \cup Buffered \cup Due = 1 .. inTime
  /\ \A e \in file, f \in Buffered \cup Unflushed : e < f
  /\ \A e \in Buffered, f \in Unflushed : e < f
  /\ \A x, y \in {cbuf, sbuf, dbuf} : x # y => x = {} \/ y = {}

(* A LogRange is safe from the purge: as long as the view is there and      *)
(* stays on, no position a reader holds disappears from the list.           *)
PurgeSparesReaders ==
  [][\A r \in holding : isLogging' /\ dpc' # "gone" /\ at[r] \in log => at[r] \in log']_vars

(* Every request accepted before the destructor's last batch reaches the    *)
(* disk (unless the process dies): by the cleaner, when logging is turned   *)
(* off, or in the destructor when a shutdown has stopped the cleaner.       *)
EntryWritten == \A e \in Entry : inTime >= e ~> (e \in file \/ crashed)

-----------------------------------------------------------------------------
(* What a comment in the code says and the code does not ensure.            *)

(* "Otherwise the most recent entry survives and the iterator remains valid"*)
MarkerValid == Valid(marker)

=============================================================================
