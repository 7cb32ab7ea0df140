-------------------------- MODULE ContentHandlerMap --------------------------
(***************************************************************************)
(* The registry of a server (spine/ContentHandlerMap.cpp): which plugin    *)
(* serves which URI, and which admin requests exist.  Plugins and engines  *)
(* register and are removed while requests are routed and admin requests   *)
(* executed.                                                               *)
(*                                                                         *)
(* An action is one critical section of itsContentMutex.  Two operations   *)
(* have a part outside: adding an admin request tests the shutdown flag    *)
(* before it takes the lock, and executing one runs its handlers after it  *)
(* has released it.  A path is the sequence of its segments.               *)
(***************************************************************************)
EXTENDS Naturals, Sequences, FiniteSets

CONSTANTS
  Uri,      \* paths, those registered and those requested
  What,     \* names of admin requests
  Target,   \* plugins, engines and NoTarget, which stands for the built-in handlers
  Engine,   \* the engines among them: they have no URIs
  NoTarget,
  Thread,   \* threads that add or execute admin requests
  None,     \* no handler, no job
  CanAuthenticate  \* itsAdminAuthenticationCallback is set

Kind == {"bool", "single"}  \* single: string, table and custom handlers
Access == {"public", "private", "auth"}
Handler == [kind : Kind, access : Access]
Registration == [what : What, target : Target, kind : Kind, access : Access]

ASSUME ContentHandlerMapAssumption ==
  /\ IsFiniteSet(Uri) /\ IsFiniteSet(What)
  /\ \A u \in Uri : Len(u) \in Nat
  /\ NoTarget \in Target \ Engine /\ Engine \subseteq Target
  /\ None \notin Target /\ None \notin Handler
  /\ CanAuthenticate \in BOOLEAN

VARIABLES
  view,      \* itsHandlers: the owner of each path's handler
  prefixes,  \* itsUriPrefixes
  noMatch,   \* itsCatchNoMatchHandler is set
  admin,     \* itsAdminRequestHandlers: the handlers of each request
  entries,   \* its keys: an entry may be empty
  unique,    \* itsUniqueAdminRequests
  noMatchAdmin, \* itsNoMatchAdminRequestHandler is set
  down,      \* Reactor::isShuttingDown()
  adding,    \* per thread: a registration past its shutdown test
  running,   \* per thread: an admin request past the lock
  removed    \* history: targets removed since the shutdown began

uriVars == <<view, prefixes, noMatch>>
adminVars == <<admin, entries, unique, noMatchAdmin>>
threadVars == <<adding, running>>
vars == <<uriVars, adminVars, down, threadVars, removed>>

Run == [info : BOOLEAN, auth : BOOLEAN, todo : SUBSET Registration]

Defined(w) == {o \in Target : admin[w][o] # None}

TypeOK ==
  /\ view \in [Uri -> (Target \ Engine) \cup {None}]
  /\ prefixes \subseteq Uri
  /\ noMatch \in BOOLEAN /\ noMatchAdmin \in BOOLEAN /\ down \in BOOLEAN
  /\ admin \in [What -> [Target -> Handler \cup {None}]]
  /\ entries \subseteq What
  /\ unique \subseteq entries /\ \A w \in What \ entries : Defined(w) = {}
  /\ adding \in [Thread -> Registration \cup {None}]
  /\ running \in [Thread -> Run \cup {None}]
  /\ removed \subseteq Target

Init ==
  /\ view = [u \in Uri |-> None] /\ prefixes = {} /\ noMatch = FALSE
  /\ admin = [w \in What |-> [o \in Target |-> None]]
  /\ entries = {} /\ unique = {} /\ noMatchAdmin = FALSE
  /\ down = FALSE
  /\ adding = [t \in Thread |-> None] /\ running = [t \in Thread |-> None]
  /\ removed = {}

-----------------------------------------------------------------------------
(* addContentHandlerImpl.  The prefix is entered before it turns out that   *)
(* the path has an owner already.                                           *)
FaultAddContentHandler(o, u, wide) ==  \* fault: no shutdown test
  /\ prefixes' = IF wide THEN prefixes \cup {u} ELSE prefixes
  /\ view' = IF view[u] = None THEN [view EXCEPT ![u] = o] ELSE view
  /\ UNCHANGED <<noMatch, adminVars, down, threadVars, removed>>

AddContentHandler(o, u, wide) ==
  /\ ~down
  /\ prefixes' = IF wide THEN prefixes \cup {u} ELSE prefixes
  /\ view' = IF view[u] = None THEN [view EXCEPT ![u] = o] ELSE view
  /\ UNCHANGED <<noMatch, adminVars, down, threadVars, removed>>

SetNoMatchHandler(set) ==
  /\ noMatch' = set
  /\ UNCHANGED <<view, prefixes, adminVars, down, threadVars, removed>>

(* getHandlerView: the prefixes that a path is within are tried in          *)
(* lexicographic order, in which a path comes before what extends it.       *)
Within(p, u) == Len(p) <= Len(u) /\ SubSeq(u, 1, Len(p)) = p
Remapped(u) == {p \in prefixes : Within(p, u)}
Resource(u) ==
  IF Remapped(u) = {} THEN u
  ELSE CHOOSE p \in Remapped(u) : \A q \in Remapped(u) : Len(p) <= Len(q)
GetHandlerView(u) == view[Resource(u)]  \* None: the no-match handler, if set

-----------------------------------------------------------------------------
(* addAdminRequestHandlerImpl, before the lock.                             *)
BeginAdd(t, r) ==
  /\ adding[t] = None /\ running[t] = None
  /\ ~down
  /\ adding' = [adding EXCEPT ![t] = r]
  /\ UNCHANGED <<uriVars, adminVars, down, running, removed>>

(* Under the lock: what cannot be authenticated is ignored; a handler that  *)
(* is to be unique needs a new entry, and a target has one handler at most. *)
Ignored(r) == r.access = "auth" /\ ~CanAuthenticate

Refused(r) ==
  \/ r.what \notin entries /\ r.what \in unique
  \/ r.what \in entries /\ r.kind = "single"
  \/ admin[r.what][r.target] # None

AddAdminRequestHandler(t) ==
  /\ adding[t] # None
  /\ LET r == adding[t]
     IN IF Ignored(r) THEN UNCHANGED adminVars
        ELSE /\ entries' = entries \cup {r.what}
             /\ IF Refused(r) THEN UNCHANGED <<admin, unique>>
                ELSE /\ admin' = [admin EXCEPT ![r.what][r.target] = [kind |-> r.kind, access |-> r.access]]
                     /\ unique' = IF r.kind = "single" THEN unique \cup {r.what} ELSE unique
             /\ UNCHANGED noMatchAdmin
  /\ adding' = [adding EXCEPT ![t] = None]
  /\ UNCHANGED <<uriVars, down, running, removed>>

(* removeAdminRequestHandler leaves the entry, even when it becomes empty.  *)
FaultRemoveAdminRequestHandler(o, w) ==  \* fault: the flag stays
  /\ admin[w][o] # None
  /\ admin' = [admin EXCEPT ![w][o] = None]
  /\ UNCHANGED <<uriVars, entries, unique, noMatchAdmin, down, threadVars, removed>>

RemoveAdminRequestHandler(o, w) ==
  /\ admin[w][o] # None
  /\ admin' = [admin EXCEPT ![w][o] = None]
  /\ unique' = unique \ {w}
  /\ UNCHANGED <<uriVars, entries, noMatchAdmin, down, threadVars, removed>>

AddNoMatchAdminRequestHandler ==
  /\ noMatchAdmin' = TRUE
  /\ UNCHANGED <<uriVars, admin, entries, unique, down, threadVars, removed>>

-----------------------------------------------------------------------------
(* removeContentHandlers: everything a target has registered.               *)
Uris(o) == {u \in Uri : view[u] = o}
Requests(o) == {w \in What : admin[w][o] # None}

Emptied(o) == {w \in Requests(o) : Defined(w) = {o}}

(* The count it returns: admin handlers count when their entry goes.        *)
FaultRemoveContentHandlers(o) ==  \* fault: the prefixes stay
  /\ view' = [u \in Uri |-> IF view[u] = o THEN None ELSE view[u]]
  /\ admin' = [w \in What |-> [admin[w] EXCEPT ![o] = None]]
  /\ unique' = unique \ Requests(o)
  /\ entries' = entries \ Emptied(o)
  /\ noMatchAdmin' = (noMatchAdmin /\ o # NoTarget)
  /\ removed' = IF down THEN removed \cup {o} ELSE removed
  /\ UNCHANGED <<prefixes, noMatch, down, threadVars>>

RemoveContentHandlers(o) ==
  /\ view' = [u \in Uri |-> IF view[u] = o THEN None ELSE view[u]]
  /\ prefixes' = prefixes \ Uris(o)
  /\ admin' = [w \in What |-> [admin[w] EXCEPT ![o] = None]]
  /\ unique' = unique \ Requests(o)
  /\ entries' = entries \ Emptied(o)
  /\ noMatchAdmin' = (noMatchAdmin /\ o # NoTarget)
  /\ removed' = IF down THEN removed \cup {o} ELSE removed
  /\ UNCHANGED <<noMatch, down, threadVars>>

Shutdown ==
  /\ ~down
  /\ down' = TRUE
  /\ UNCHANGED <<uriVars, adminVars, threadVars, removed>>

-----------------------------------------------------------------------------
(* executeAdminRequest.  Under the lock: an info request needs a public     *)
(* handler, one handler that requires authentication is enough to require   *)
(* it, and handlers of both kinds, or two that are to be unique, are an     *)
(* error.  The handlers are copied, and run after the lock is released; an  *)
(* info request skips those that are not public.                            *)
Registered(w) ==
  {[what |-> w, target |-> o, kind |-> admin[w][o].kind, access |-> admin[w][o].access] : o \in Defined(w)}

RequiresAuth(w) == \E r \in Registered(w) : r.access = "auth"

Singles(w) == {r \in Registered(w) : r.kind = "single"}
Consistent(w) == Singles(w) = {} \/ Cardinality(Registered(w)) = 1

ExecuteAdminRequest(t, w, info, auth) ==
  /\ adding[t] = None /\ running[t] = None
  /\ w \in entries
  /\ info => \E r \in Registered(w) : r.access = "public"
  /\ RequiresAuth(w) => auth
  /\ Consistent(w)
  /\ running' = [running EXCEPT ![t] =
       [info |-> info, auth |-> auth, todo |-> {r \in Registered(w) : info => r.access = "public"}]]
  /\ UNCHANGED <<uriVars, adminVars, down, adding, removed>>

RunHandler(t) ==
  /\ running[t] # None
  /\ running[t].todo # {}
  /\ \E r \in running[t].todo : running' = [running EXCEPT ![t].todo = @ \ {r}]
  /\ UNCHANGED <<uriVars, adminVars, down, adding, removed>>

Respond(t) ==
  /\ running[t] # None
  /\ running[t].todo = {}
  /\ running' = [running EXCEPT ![t] = None]
  /\ UNCHANGED <<uriVars, adminVars, down, adding, removed>>

-----------------------------------------------------------------------------
Next ==
  \/ \E o \in Target \ Engine, u \in Uri, wide \in BOOLEAN : AddContentHandler(o, u, wide)
  \/ \E set \in BOOLEAN : SetNoMatchHandler(set)
  \/ \E t \in Thread, r \in Registration : BeginAdd(t, r)
  \/ \E t \in Thread : AddAdminRequestHandler(t) \/ RunHandler(t) \/ Respond(t)
  \/ \E o \in Target, w \in What : RemoveAdminRequestHandler(o, w)
  \/ AddNoMatchAdminRequestHandler
  \/ \E o \in Target : RemoveContentHandlers(o)
  \/ Shutdown
  \/ \E t \in Thread, w \in What, info, auth \in BOOLEAN : ExecuteAdminRequest(t, w, info, auth)

Spec == Init /\ [][Next]_vars

-----------------------------------------------------------------------------
(* getHandlerView's "Should never happen": every prefix has its handler,    *)
(* so a request below a prefix never finds nothing at its end.              *)
PrefixBacked == \A p \in prefixes : view[p] # None
RemappedServed == \A u \in Uri : Remapped(u) # {} => GetHandlerView(u) # None

(* A handler that is to be unique never meets a second one of its sort, and *)
(* the flag of a request says so: it is up only while there is one.         *)
SingleIsUnique ==
  /\ \A w \in What : \A r, s \in Singles(w) : r = s
  /\ \A w \in unique : Singles(w) # {}

(* Whatever is registered or removed while an admin request runs: a handler *)
(* that requires authentication runs only for an authenticated request, and *)
(* an info request runs public handlers only.                               *)
RunsAsRegistered ==
  \A t \in Thread : running[t] # None =>
    \A r \in running[t].todo :
      (r.access = "auth" => running[t].auth) /\ (running[t].info => r.access = "public")

(* A target removed during the shutdown has no URI ever after: its plugin   *)
(* may be unloaded.                                                         *)
UrisStayRemoved == \A o \in removed : Uris(o) = {}

=============================================================================
