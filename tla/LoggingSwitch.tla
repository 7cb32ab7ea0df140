---------------------------- MODULE LoggingSwitch ----------------------------
(***************************************************************************)
(* Logging across all handler views and the two locks of the registry      *)
(* (spine/ContentHandlerMap.cpp): registration takes the content lock and  *)
(* then the logging lock; setLogging() takes the logging lock and joins    *)
(* the cleaner thread, which takes the content lock.                       *)
(*                                                                         *)
(* The content lock is a boost::shared_mutex: a writer that waits keeps    *)
(* new readers out.  Waiting for it cannot be interrupted.  What a view    *)
(* does with its status is module HandlerLog.                              *)
(***************************************************************************)

CONSTANTS
  View,       \* URIs
  Registrar,  \* the URIs that are registered later, each by a thread of its own
  Remover,    \* threads that remove content handlers
  Installer,  \* threads that set a no-match handler with an access log
  Setter,     \* threads that call setLogging
  Requester,  \* threads that look a request's view up
  Nobody      \* who holds a free lock

Writer == Registrar \cup Remover \cup Installer
SwitchThread == Writer \cup Setter \cup Requester
Cleaner == Nobody  \* the cleaner thread as a reader of the content lock

ASSUME LoggingSwitchAssumption ==
  /\ Registrar \subseteq View /\ Nobody \notin SwitchThread
  /\ Writer \cap (Setter \cup Requester) = {} /\ Setter \cap Requester = {}
  /\ Registrar \cap (Remover \cup Installer) = {} /\ Remover \cap Installer = {}

VARIABLES
  halting,  \* Reactor::isShuttingDown()
  present,  \* the URIs in itsHandlers
  logging,  \* per view: HandlerView::isLogging
  noMatchLog,  \* isLogging of the no-match handler, if there is one
  enabled,  \* itsLoggingEnabled
  cleaner,  \* the cleaner thread
  stopped,  \* it has been interrupted
  at,       \* per thread: its place
  goal,     \* per setter: the status asked for
  todo,     \* the views setLogging still has to set
  readers, writer,  \* who holds itsContentMutex
  owner     \* of itsLoggingMutex

viewVars    == <<present, logging, noMatchLog>>
cleanerVars == <<cleaner, stopped>>
setVars     == <<enabled, goal, todo>>
contentVars == <<readers, writer>>
switchVars == <<halting, viewVars, cleanerVars, setVars, at, contentVars, owner>>

SwitchTypeOK ==
  /\ halting \in BOOLEAN /\ enabled \in BOOLEAN /\ stopped \in BOOLEAN
  /\ present \subseteq View /\ logging \in [View -> BOOLEAN] /\ noMatchLog \in {"none", "on", "off"}
  /\ cleaner \in {"none", "sleep", "want", "clean", "ended"}
  /\ at \in [SwitchThread -> {"idle", "wantContent", "content", "both", "wantLogging", "test", "join", "walk", "read", "done"}]
  /\ goal \in [Setter -> BOOLEAN] /\ todo \subseteq View
  /\ readers \subseteq Requester \cup {Cleaner}
  /\ writer \in Writer \cup {Nobody} /\ owner \in Registrar \cup Setter \cup {Nobody}
  /\ writer # Nobody => readers = {}

SwitchInit ==
  /\ halting = FALSE
  /\ present = View \ Registrar /\ logging = [v \in View |-> FALSE] /\ noMatchLog = "none"
  /\ enabled = FALSE /\ cleaner = "none" /\ stopped = FALSE
  /\ at = [t \in SwitchThread |-> "idle"]
  /\ goal = [s \in Setter |-> FALSE] /\ todo = {}
  /\ readers = {} /\ writer = Nobody /\ owner = Nobody

Go(t, from, to) == at[t] = from /\ at' = [at EXCEPT ![t] = to]

Halt ==
  /\ ~halting
  /\ halting' = TRUE
  /\ UNCHANGED <<viewVars, cleanerVars, setVars, at, contentVars, owner>>

-----------------------------------------------------------------------------
(* The content lock.                                                        *)
WantContent(t) ==
  /\ Go(t, "idle", "wantContent")
  /\ UNCHANGED <<halting, viewVars, cleanerVars, setVars, contentVars, owner>>

TakeContent(t) ==
  /\ readers = {} /\ writer = Nobody
  /\ Go(t, "wantContent", "content")
  /\ writer' = t
  /\ UNCHANGED <<halting, viewVars, cleanerVars, setVars, readers, owner>>

FreeContent == writer' = Nobody /\ UNCHANGED readers

TakeShared(r) ==
  /\ writer = Nobody /\ \A t \in Writer : at[t] # "wantContent"
  /\ readers' = readers \cup {r}
  /\ UNCHANGED writer

FreeShared(r) == readers' = readers \ {r} /\ UNCHANGED writer

-----------------------------------------------------------------------------
(* addContentHandlerImpl.                                                   *)
FaultTakeLogging(t) ==  \* fault: the logging lock is not taken
  /\ Go(t, "content", "both")
  /\ UNCHANGED <<halting, viewVars, cleanerVars, setVars, contentVars, owner>>

TakeLogging(t) ==
  /\ owner = Nobody
  /\ Go(t, "content", "both")
  /\ owner' = t
  /\ UNCHANGED <<halting, viewVars, cleanerVars, setVars, contentVars>>

Register(t) ==
  /\ Go(t, "both", "done")
  /\ IF halting THEN UNCHANGED <<present, logging>>
     ELSE present' = present \cup {t} /\ logging' = [logging EXCEPT ![t] = enabled]
  /\ FreeContent /\ owner' = Nobody
  /\ UNCHANGED <<halting, noMatchLog, cleanerVars, setVars>>

(* removeContentHandlers: the URIs of some plugin.                          *)
Remove(t) ==
  /\ Go(t, "content", "done")
  /\ \E gone \in SUBSET present : present' = present \ gone
  /\ FreeContent
  /\ UNCHANGED <<halting, logging, noMatchLog, cleanerVars, setVars, owner>>

(* setNoMatchHandler: a view with an access log starts with its log on.     *)
InstallNoMatch(t) ==
  /\ Go(t, "content", "done")
  /\ noMatchLog' = "on"
  /\ FreeContent
  /\ UNCHANGED <<halting, present, logging, cleanerVars, setVars, owner>>

(* getHandlerView.                                                          *)
LookUp(t) ==
  /\ Go(t, "idle", "read")
  /\ TakeShared(t)
  /\ UNCHANGED <<halting, viewVars, cleanerVars, setVars, owner>>

LookedUp(t) ==
  /\ Go(t, "read", "idle")
  /\ FreeShared(t)
  /\ UNCHANGED <<halting, viewVars, cleanerVars, setVars, owner>>

-----------------------------------------------------------------------------
(* cleanLog: an interruption is met in the sleep only.                      *)
CleanerWakes ==
  /\ cleaner = "sleep"
  /\ cleaner' = IF stopped THEN "ended" ELSE "want"
  /\ UNCHANGED <<halting, viewVars, stopped, setVars, at, contentVars, owner>>

CleanerLocks ==
  /\ cleaner = "want"
  /\ TakeShared(Cleaner)
  /\ cleaner' = "clean"
  /\ UNCHANGED <<halting, viewVars, stopped, setVars, at, owner>>

CleanerCleans ==
  /\ cleaner = "clean"
  /\ FreeShared(Cleaner)
  /\ cleaner' = IF halting THEN "ended" ELSE "sleep"
  /\ UNCHANGED <<halting, viewVars, stopped, setVars, at, owner>>

-----------------------------------------------------------------------------
(* setLogging.                                                              *)
SetLogging(s) ==
  /\ Go(s, "idle", "wantLogging")
  /\ \E on \in BOOLEAN : goal' = [goal EXCEPT ![s] = on]
  /\ UNCHANGED <<halting, viewVars, cleanerVars, enabled, todo, contentVars, owner>>

LockLogging(s) ==
  /\ owner = Nobody
  /\ Go(s, "wantLogging", "test")
  /\ owner' = s
  /\ UNCHANGED <<halting, viewVars, cleanerVars, setVars, contentVars>>

FaultNoChange(s) ==  \* fault: the early return keeps the lock
  /\ enabled = goal[s]
  /\ Go(s, "test", "idle")
  /\ UNCHANGED <<halting, viewVars, cleanerVars, setVars, contentVars, owner>>

NoChange(s) ==
  /\ enabled = goal[s]
  /\ Go(s, "test", "idle")
  /\ owner' = Nobody
  /\ UNCHANGED <<halting, viewVars, cleanerVars, setVars, contentVars>>

Interrupt(s) ==
  /\ enabled # goal[s]
  /\ Go(s, "test", "join")
  /\ enabled' = goal[s]
  /\ stopped' = TRUE
  /\ UNCHANGED <<halting, viewVars, cleaner, goal, todo, contentVars, owner>>

FaultJoin(s) ==  \* fault: a cleaner is launched the first time only
  /\ cleaner \in {"none", "ended"}
  /\ Go(s, "join", "walk")
  /\ cleaner' = IF enabled /\ cleaner = "none" THEN "sleep" ELSE cleaner
  /\ stopped' = FALSE
  /\ todo' = present
  /\ UNCHANGED <<halting, viewVars, enabled, goal, contentVars, owner>>

Join(s) ==
  /\ cleaner \in {"none", "ended"}
  /\ Go(s, "join", "walk")
  /\ cleaner' = IF enabled THEN "sleep" ELSE cleaner
  /\ stopped' = FALSE
  /\ todo' = present
  /\ UNCHANGED <<halting, viewVars, enabled, goal, contentVars, owner>>

SetView(s) ==
  /\ at[s] = "walk"
  /\ \E v \in todo : logging' = [logging EXCEPT ![v] = enabled] /\ todo' = todo \ {v}
  /\ UNCHANGED <<halting, present, noMatchLog, cleanerVars, enabled, goal, at, contentVars, owner>>

SetNoMatch(s) ==
  /\ todo = {}
  /\ Go(s, "walk", "idle")
  /\ noMatchLog' = IF noMatchLog = "none" THEN "none" ELSE IF enabled THEN "on" ELSE "off"
  /\ owner' = Nobody
  /\ UNCHANGED <<halting, present, logging, cleanerVars, setVars, contentVars>>

-----------------------------------------------------------------------------
Held(t) ==
  \/ t \in Writer /\ TakeContent(t)
  \/ t \in Registrar /\ (TakeLogging(t) \/ Register(t))
  \/ t \in Remover /\ Remove(t)
  \/ t \in Installer /\ InstallNoMatch(t)
  \/ t \in Requester /\ LookedUp(t)
  \/ t \in Setter /\ (LockLogging(t) \/ NoChange(t) \/ Interrupt(t) \/ Join(t) \/ SetView(t) \/ SetNoMatch(t))

Clean == CleanerWakes \/ CleanerLocks \/ CleanerCleans

SwitchNext ==
  \/ Halt \/ Clean
  \/ \E t \in Writer : WantContent(t)
  \/ \E t \in Requester : LookUp(t)
  \/ \E t \in Setter : SetLogging(t)
  \/ \E t \in SwitchThread : Held(t)

SwitchSpec == SwitchInit /\ [][SwitchNext]_switchVars

(* Threads run on; a lock that is free again and again is acquired.         *)
SwitchFairSpec == SwitchSpec /\ SF_switchVars(Clean) /\ \A t \in SwitchThread : SF_switchVars(Held(t))

-----------------------------------------------------------------------------
(* Whoever finds the logging lock free finds every view logging as          *)
(* itsLoggingEnabled says, whatever was registered and removed meanwhile.   *)
LoggingAgrees == owner = Nobody => \A v \in present : logging[v] = enabled

(* And while logging is on a cleaner runs, which nobody has interrupted;    *)
(* while it is off none does.                                               *)
CleanerAgrees ==
  owner \notin Setter =>
    IF enabled THEN (cleaner \in {"sleep", "want", "clean"} /\ ~stopped) \/ (cleaner = "ended" /\ halting)
    ELSE cleaner \in {"none", "ended"}

(* The one way to wait for ever: the cleaner waits for a registration to    *)
(* free the content lock, which waits for the logging lock, which a change  *)
(* of the status holds while it joins the cleaner.                          *)
Circle ==
  /\ cleaner = "want"
  /\ writer \in Registrar /\ at[writer] = "content"
  /\ owner \in Setter /\ at[owner] = "join"

(* Otherwise everybody gets the locks asked for: a registration, a removal  *)
(* or a no-match handler goes through, and so does a change of the status.  *)
LocksGrantedUnlessCircle ==
  /\ \A t \in Writer : at[t] = "wantContent" ~> (at[t] = "done" \/ Circle)
  /\ \A s \in Setter : at[s] = "wantLogging" ~> (at[s] = "idle" \/ Circle)

=============================================================================
