--------------------------- MODULE RegistryProofs ---------------------------
(***************************************************************************)
(* Proofs about the registry of a server: ContentHandlerMap, for any       *)
(* paths, targets, request names and threads, and LoggingSwitch, for any   *)
(* views, threads and changes of the status.                               *)
(***************************************************************************)
EXTENDS ContentHandlerMap, LoggingSwitch, TLAPS, WellFoundedInduction

USE DEF uriVars, adminVars, threadVars

(* The registrations of a request, read off the table.                      *)
LEMMA RegisteredIn ==
  ASSUME TypeOK, NEW w \in What
  PROVE  /\ Registered(w) \subseteq Registration
         /\ \A r \in Registered(w) : r.what = w /\ r.target \in Defined(w) /\ admin[w][r.target].kind = r.kind
         /\ \A o \in Defined(w) : \E r \in Registered(w) : r.target = o /\ r.kind = admin[w][o].kind
<1>1. \A o \in Defined(w) : admin[w][o] \in Handler
  BY ContentHandlerMapAssumption DEF TypeOK, Defined
<1>. DEFINE reg(o) == [what |-> w, target |-> o, kind |-> admin[w][o].kind, access |-> admin[w][o].access]
<1>2. \A o \in Defined(w) : reg(o) \in Registration /\ reg(o).what = w /\ reg(o).target = o /\ reg(o).kind = admin[w][o].kind
  BY <1>1 DEF Registration, Handler, Defined
<1>3. Registered(w) = {reg(o) : o \in Defined(w)}
  BY DEF Registered
<1>. HIDE DEF reg
<1>. QED  BY <1>2, <1>3

-----------------------------------------------------------------------------
(* Type correctness.                                                        *)
LEMMA TypeInit == Init => TypeOK
<1>1. Init => noMatch \in BOOLEAN /\ noMatchAdmin \in BOOLEAN /\ down \in BOOLEAN
  BY DEF Init
<1>. QED  BY <1>1, ContentHandlerMapAssumption DEF Init, TypeOK, Defined

LEMMA TypeStep ==
  ASSUME TypeOK, [Next]_vars
  PROVE  TypeOK'
<1>. USE DEF TypeOK, Defined
<1>0. noMatch' \in BOOLEAN /\ noMatchAdmin' \in BOOLEAN /\ down' \in BOOLEAN
  BY ZenonT(60) DEF Next, vars, AddContentHandler, SetNoMatchHandler, BeginAdd, AddAdminRequestHandler, RunHandler, Respond,
    RemoveAdminRequestHandler, AddNoMatchAdminRequestHandler, RemoveContentHandlers, Shutdown, ExecuteAdminRequest
<1>. USE <1>0
<1>1. ASSUME NEW o \in Target \ Engine, NEW u \in Uri, NEW wide \in BOOLEAN, AddContentHandler(o, u, wide)
      PROVE  TypeOK'
  BY <1>1 DEF AddContentHandler
<1>2. ASSUME NEW set \in BOOLEAN, SetNoMatchHandler(set)
      PROVE  TypeOK'
  BY <1>2 DEF SetNoMatchHandler
<1>3. ASSUME NEW t \in Thread, NEW r \in Registration, BeginAdd(t, r)
      PROVE  TypeOK'
  BY <1>3 DEF BeginAdd
<1>4. ASSUME NEW t \in Thread, AddAdminRequestHandler(t)
      PROVE  TypeOK'
  <2>. DEFINE r == adding[t]
  <2>1. r \in Registration /\ adding' \in [Thread -> Registration \cup {None}]
    BY <1>4 DEF AddAdminRequestHandler
  <2>2. r.what \in What /\ r.target \in Target /\ [kind |-> r.kind, access |-> r.access] \in Handler
    BY <2>1 DEF Registration, Handler
  <2>3. CASE Ignored(r)
    BY <1>4, <2>1, <2>3 DEF AddAdminRequestHandler
  <2>4. CASE ~Ignored(r) /\ Refused(r)
    BY <1>4, <2>1, <2>2, <2>4 DEF AddAdminRequestHandler
  <2>5. CASE ~Ignored(r) /\ ~Refused(r)
    <3>1. /\ entries' = entries \cup {r.what}
          /\ admin' = [admin EXCEPT ![r.what][r.target] = [kind |-> r.kind, access |-> r.access]]
          /\ unique' \subseteq unique \cup {r.what}
          /\ UNCHANGED <<view, prefixes, noMatch, noMatchAdmin, down, running, removed>>
      BY <1>4, <2>5 DEF AddAdminRequestHandler
    <3>. HIDE DEF r
    <3>2. admin' \in [What -> [Target -> Handler \cup {None}]]
      BY <2>2, <3>1
    <3>3. \A w \in What \ entries' : admin'[w] = admin[w]
      BY <2>2, <3>1
    <3>. QED  BY <2>1, <2>2, <3>1, <3>2, <3>3
  <2>. QED  BY <2>3, <2>4, <2>5
<1>5. ASSUME NEW t \in Thread, RunHandler(t)
      PROVE  TypeOK'
  <2>1. running[t] \in Run
    BY <1>5 DEF RunHandler
  <2>2. PICK r \in running[t].todo : running' = [running EXCEPT ![t].todo = @ \ {r}]
    BY <1>5 DEF RunHandler
  <2>3. [running[t] EXCEPT !.todo = @ \ {r}] \in Run
    BY <2>1 DEF Run
  <2>4. running' \in [Thread -> Run \cup {None}]
    BY <2>2, <2>3
  <2>. QED  BY <1>5, <2>4 DEF RunHandler
<1>6. ASSUME NEW t \in Thread, Respond(t)
      PROVE  TypeOK'
  BY <1>6 DEF Respond
<1>7. ASSUME NEW o \in Target, NEW w \in What, RemoveAdminRequestHandler(o, w)
      PROVE  TypeOK'
  BY <1>7 DEF RemoveAdminRequestHandler
<1>8. CASE AddNoMatchAdminRequestHandler
  BY <1>8 DEF AddNoMatchAdminRequestHandler
<1>9. ASSUME NEW o \in Target, RemoveContentHandlers(o)
      PROVE  TypeOK'
  <2>1. /\ view' \in [Uri -> (Target \ Engine) \cup {None}] /\ prefixes' \subseteq Uri
        /\ admin' \in [What -> [Target -> Handler \cup {None}]]
        /\ removed' \subseteq Target /\ entries' \subseteq What
    BY <1>9 DEF RemoveContentHandlers
  <2>2. \A w \in What : Defined(w)' = Defined(w) \ {o}
    BY <1>9 DEF RemoveContentHandlers
  <2>3. \A w \in What \ entries' : Defined(w)' = {}
    <3>. SUFFICES ASSUME NEW w \in What, w \notin entries' PROVE Defined(w)' = {}
      OBVIOUS
    <3>1. CASE w \notin entries
      BY <2>2, <3>1
    <3>2. CASE w \in entries
      <4>1. Defined(w) = {o}
        BY <1>9, <3>2 DEF RemoveContentHandlers, Emptied
      <4>. QED  BY <2>2, <4>1
    <3>. QED  BY <3>1, <3>2
  <2>4. unique' \subseteq entries'
    BY <1>9 DEF RemoveContentHandlers, Emptied
  <2>. QED  BY <1>9, <2>1, <2>3, <2>4 DEF RemoveContentHandlers
<1>10. CASE Shutdown
  BY <1>10 DEF Shutdown
<1>11. ASSUME NEW t \in Thread, NEW w \in What, NEW info \in BOOLEAN, NEW auth \in BOOLEAN,
              ExecuteAdminRequest(t, w, info, auth)
       PROVE  TypeOK'
  <2>. DEFINE chosen == {r \in Registered(w) : info => r.access = "public"}
  <2>1. chosen \subseteq Registration
    BY RegisteredIn
  <2>2. running' = [running EXCEPT ![t] = [info |-> info, auth |-> auth, todo |-> chosen]]
    BY <1>11 DEF ExecuteAdminRequest
  <2>. HIDE DEF chosen
  <2>3. running' \in [Thread -> Run \cup {None}]
    BY <2>1, <2>2 DEF Run
  <2>. QED  BY <1>11, <2>3 DEF ExecuteAdminRequest
<1>12. CASE UNCHANGED vars
  BY <1>12 DEF vars
<1>. QED
  BY <1>1, <1>2, <1>3, <1>4, <1>5, <1>6, <1>7, <1>8, <1>9, <1>10, <1>11, <1>12 DEF Next

(* Type correctness of every behaviour: the tables agree on their keys.     *)
THEOREM TypeCorrect == Spec => []TypeOK
<1>1. TypeOK /\ [Next]_vars => TypeOK'
  BY TypeStep
<1>. QED  BY TypeInit, <1>1, PTL DEF Spec

-----------------------------------------------------------------------------
(* Prefixes.  Only adding and removing content handlers touch the URIs.     *)
LEMMA PrefixStep ==
  ASSUME TypeOK, PrefixBacked, [Next]_vars
  PROVE  PrefixBacked'
<1>1. ASSUME NEW o \in Target \ Engine, NEW u \in Uri, NEW wide \in BOOLEAN, AddContentHandler(o, u, wide)
      PROVE  PrefixBacked'
  BY <1>1, ContentHandlerMapAssumption DEF AddContentHandler, PrefixBacked, TypeOK
<1>2. ASSUME NEW o \in Target, RemoveContentHandlers(o)
      PROVE  PrefixBacked'
  BY <1>2 DEF RemoveContentHandlers, Uris, PrefixBacked, TypeOK
<1>3. CASE UNCHANGED <<view, prefixes>>
  BY <1>3 DEF PrefixBacked
<1>. QED
  BY <1>1, <1>2, <1>3 DEF Next, vars, SetNoMatchHandler, BeginAdd, AddAdminRequestHandler, RunHandler, Respond,
    RemoveAdminRequestHandler, AddNoMatchAdminRequestHandler, Shutdown, ExecuteAdminRequest

(* getHandlerView never meets a prefix without its handler.                 *)
THEOREM PrefixBackedAlways == Spec => []PrefixBacked
<1>1. Init => PrefixBacked
  BY DEF Init, PrefixBacked
<1>2. TypeOK /\ PrefixBacked /\ [Next]_vars => PrefixBacked'
  BY PrefixStep
<1>. QED  BY <1>1, <1>2, TypeCorrect, PTL DEF Spec

(* Some number of a set of numbers is the least, so some of the prefixes of *)
(* a path is the shortest, and getHandlerView has one to choose.            *)
LEMMA LeastNumber ==
  ASSUME NEW S \in SUBSET Nat, S # {}
  PROVE  \E n \in S : \A m \in S : n <= m
<1>. DEFINE R == {p \in Nat \X Nat : p[1] < p[2]}
<1>1. IsWellFoundedOn(R, Nat)
  BY NatLessThanWellFounded DEF OpToRel
<1>. HIDE DEF R
<1>2. PICK n \in S : \A m \in S : <<m, n>> \notin R
  BY <1>1, WFMin
<1>3. \A m \in S : ~(m < n)
  BY <1>2 DEF R
<1>. QED  BY <1>3

LEMMA ResourceIsRegistered ==
  ASSUME TypeOK, NEW u \in Uri, Remapped(u) # {}
  PROVE  Resource(u) \in prefixes
<1>. DEFINE S == {Len(p) : p \in Remapped(u)}
<1>1. Remapped(u) \subseteq prefixes /\ prefixes \subseteq Uri
  BY DEF Remapped, TypeOK
<1>2. S \in SUBSET Nat /\ S # {}
  BY <1>1, ContentHandlerMapAssumption
<1>3. PICK n \in S : \A m \in S : n <= m
  BY <1>2, LeastNumber
<1>4. \E p \in Remapped(u) : \A q \in Remapped(u) : Len(p) <= Len(q)
  BY <1>3
<1>. QED  BY <1>1, <1>4 DEF Resource

(* A path that a prefix covers is served: whatever is registered and        *)
(* removed, the prefix that is chosen has its handler.                      *)
THEOREM RemappedServedAlways == Spec => []RemappedServed
<1>1. TypeOK /\ PrefixBacked => RemappedServed
  BY ResourceIsRegistered DEF PrefixBacked, RemappedServed, GetHandlerView
<1>. QED  BY <1>1, TypeCorrect, PrefixBackedAlways, PTL

(* A removed target's paths can only come back by a registration, which     *)
(* the shutdown flag refuses; the flag is never lowered.                    *)
RemovedWhileDown == removed # {} => down

LEMMA RemovedStep ==
  ASSUME TypeOK, RemovedWhileDown, UrisStayRemoved, [Next]_vars
  PROVE  RemovedWhileDown' /\ UrisStayRemoved'
<1>. USE DEF RemovedWhileDown, UrisStayRemoved, Uris
<1>1. ASSUME NEW o \in Target \ Engine, NEW u \in Uri, NEW wide \in BOOLEAN, AddContentHandler(o, u, wide)
      PROVE  RemovedWhileDown' /\ UrisStayRemoved'
  BY <1>1 DEF AddContentHandler
<1>2. ASSUME NEW o \in Target, RemoveContentHandlers(o)
      PROVE  RemovedWhileDown' /\ UrisStayRemoved'
  <2>1. /\ (removed' = removed \cup {o} /\ down) \/ removed' = removed
        /\ down' = down
        /\ \A u \in Uri : view'[u] = IF view[u] = o THEN None ELSE view[u]
    BY <1>2 DEF RemoveContentHandlers
  <2>2. None \notin removed /\ None # o
    BY ContentHandlerMapAssumption DEF TypeOK
  <2>. QED  BY <2>1, <2>2
<1>3. CASE Shutdown
  BY <1>3 DEF Shutdown
<1>4. CASE UNCHANGED <<view, down, removed>>
  BY <1>4
<1>. QED
  BY <1>1, <1>2, <1>3, <1>4 DEF Next, vars, SetNoMatchHandler, BeginAdd, AddAdminRequestHandler, RunHandler, Respond,
    RemoveAdminRequestHandler, AddNoMatchAdminRequestHandler, ExecuteAdminRequest

(* A target removed during the shutdown has no URI ever after.              *)
THEOREM UrisStayRemovedAlways == Spec => []UrisStayRemoved
<1>1. Init => RemovedWhileDown /\ UrisStayRemoved
  BY DEF Init, RemovedWhileDown, UrisStayRemoved
<1>2. TypeOK /\ RemovedWhileDown /\ UrisStayRemoved /\ [Next]_vars => RemovedWhileDown' /\ UrisStayRemoved'
  BY RemovedStep
<1>. QED  BY <1>1, <1>2, TypeCorrect, PTL DEF Spec

-----------------------------------------------------------------------------
(* Unique requests, in terms of the table.                                  *)
SingleTargets(w) == {o \in Defined(w) : admin[w][o].kind = "single"}
UniqueInTable ==
  /\ \A w \in What : \A o, p \in SingleTargets(w) : o = p
  /\ \A w \in unique : SingleTargets(w) # {}

LEMMA UniqueInTableIsEnough ==
  ASSUME TypeOK, UniqueInTable
  PROVE  SingleIsUnique
<1>1. ASSUME NEW w \in What, NEW r \in Singles(w), NEW s \in Singles(w) PROVE r = s
  <2>1. r.target \in SingleTargets(w) /\ s.target \in SingleTargets(w)
    BY RegisteredIn DEF Singles, SingleTargets
  <2>2. r.target = s.target
    BY <2>1 DEF UniqueInTable
  <2>. QED  BY <2>2 DEF Singles, Registered
<1>2. ASSUME NEW w \in unique PROVE Singles(w) # {}
  <2>1. w \in What
    BY DEF TypeOK
  <2>2. PICK o \in Defined(w) : admin[w][o].kind = "single"
    BY SMTT(60) DEF UniqueInTable, SingleTargets
  <2>. QED  BY <2>1, <2>2, RegisteredIn DEF Singles
<1>. QED  BY <1>1, <1>2 DEF SingleIsUnique

LEMMA UniqueStep ==
  ASSUME TypeOK, UniqueInTable, [Next]_vars
  PROVE  UniqueInTable'
<1>. USE DEF UniqueInTable, SingleTargets, Defined
<1>1. ASSUME NEW t \in Thread, AddAdminRequestHandler(t)
      PROVE  UniqueInTable'
  <2>0. PICK r \in Registration : r = adding[t]
    BY <1>1 DEF AddAdminRequestHandler, TypeOK
  <2>1. r.what \in What /\ r.target \in Target /\ [kind |-> r.kind, access |-> r.access] \in Handler
    BY DEF Registration, Handler
  <2>2. CASE Ignored(r) \/ Refused(r)
    BY <1>1, <2>0, <2>2, SMTT(60) DEF AddAdminRequestHandler
  <2>3. CASE ~Ignored(r) /\ ~Refused(r)
    <3>1. /\ admin' = [admin EXCEPT ![r.what][r.target] = [kind |-> r.kind, access |-> r.access]]
          /\ unique' = IF r.kind = "single" THEN unique \cup {r.what} ELSE unique
          /\ r.kind = "single" => Defined(r.what) = {}
          /\ admin[r.what][r.target] = None
      BY <1>1, <2>0, <2>1, <2>3 DEF AddAdminRequestHandler, Refused, TypeOK
    <3>2. admin \in [What -> [Target -> Handler \cup {None}]] /\ None \notin Handler
      BY ContentHandlerMapAssumption DEF TypeOK
    <3>. DEFINE h == [kind |-> r.kind, access |-> r.access]
    <3>3. h # None /\ h.kind = r.kind
      BY <2>1, <3>2
    <3>. HIDE DEF h
    <3>4. /\ admin'[r.what] = [admin[r.what] EXCEPT ![r.target] = h]
          /\ \A w \in What \ {r.what} : admin'[w] = admin[w]
      BY <2>1, <3>1, <3>2 DEF h
    <3>5. \A w \in What \ {r.what} : SingleTargets(w)' = SingleTargets(w)
      BY <3>4
    <3>6. SingleTargets(r.what)' = IF r.kind = "single" THEN {r.target} ELSE SingleTargets(r.what)
      <4>. DEFINE old == admin[r.what]
                  new == admin'[r.what]
      <4>0. old \in [Target -> Handler \cup {None}] /\ r.target \in Target
        BY <2>1, <3>2
      <4>. HIDE DEF old, new
      <4>1. \A o \in Target : new[o] = IF o = r.target THEN h ELSE old[o]
        <5>1. new = [old EXCEPT ![r.target] = h]
          BY <3>4 DEF old, new
        <5>. QED  BY <4>0, <5>1
      <4>2. old[r.target] = None /\ (r.kind = "single" => \A o \in Target : old[o] = None)
        BY <3>1 DEF old
      <4>3. {o \in Target : new[o] # None /\ new[o].kind = "single"} =
              IF r.kind = "single" THEN {r.target} ELSE {o \in Target : old[o] # None /\ old[o].kind = "single"}
        BY <3>3, <4>0, <4>1, <4>2
      <4>. QED  BY <4>3 DEF old, new
    <3>. QED  BY <2>1, <3>1, <3>5, <3>6 DEF TypeOK
  <2>. QED  BY <2>2, <2>3
<1>2. ASSUME NEW o \in Target, NEW w \in What, RemoveAdminRequestHandler(o, w)
      PROVE  UniqueInTable'
  BY <1>2 DEF RemoveAdminRequestHandler, TypeOK
<1>3. ASSUME NEW o \in Target, RemoveContentHandlers(o)
      PROVE  UniqueInTable'
  <2>1. \A w \in What : SingleTargets(w)' = SingleTargets(w) \ {o}
    BY <1>3 DEF RemoveContentHandlers, TypeOK
  <2>2. \A w \in unique' : w \in unique /\ o \notin SingleTargets(w)
    BY <1>3 DEF RemoveContentHandlers, Requests, TypeOK
  <2>. QED  BY <2>1, <2>2 DEF TypeOK
<1>4. CASE UNCHANGED <<admin, unique>>
  BY <1>4
<1>. QED
  BY <1>1, <1>2, <1>3, <1>4 DEF Next, vars, AddContentHandler, SetNoMatchHandler, BeginAdd, RunHandler, Respond,
    AddNoMatchAdminRequestHandler, Shutdown, ExecuteAdminRequest

(* A request has one string, table or custom handler at most, and is marked *)
(* unique only while it has one.                                            *)
THEOREM SingleIsUniqueAlways == Spec => []SingleIsUnique
<1>1. Init => UniqueInTable
  BY DEF Init, UniqueInTable, SingleTargets, Defined
<1>2. TypeOK /\ UniqueInTable /\ [Next]_vars => UniqueInTable'
  BY UniqueStep
<1>3. TypeOK /\ UniqueInTable => SingleIsUnique
  BY UniqueInTableIsEnough, SMTT(60)
<1>. QED  BY <1>1, <1>2, <1>3, TypeCorrect, PTL DEF Spec

-----------------------------------------------------------------------------
(* Execution.  The copy is made in the critical section that has checked    *)
(* what it copies.                                                          *)
LEMMA RunsStep ==
  ASSUME TypeOK, RunsAsRegistered, [Next]_vars
  PROVE  RunsAsRegistered'
<1>. USE DEF RunsAsRegistered, TypeOK
<1>1. ASSUME NEW t \in Thread, NEW w \in What, NEW info \in BOOLEAN, NEW auth \in BOOLEAN,
             ExecuteAdminRequest(t, w, info, auth)
      PROVE  RunsAsRegistered'
  <2>. DEFINE chosen == {r \in Registered(w) : info => r.access = "public"}
  <2>1. /\ running' = [running EXCEPT ![t] = [info |-> info, auth |-> auth, todo |-> chosen]]
        /\ \A r \in chosen : (r.access = "auth" => auth) /\ (info => r.access = "public")
    BY <1>1 DEF ExecuteAdminRequest, RequiresAuth
  <2>. HIDE DEF chosen
  <2>. QED  BY <2>1
<1>2. ASSUME NEW t \in Thread, RunHandler(t)
      PROVE  RunsAsRegistered'
  <2>1. PICK r \in running[t].todo : running' = [running EXCEPT ![t].todo = @ \ {r}]
    BY <1>2 DEF RunHandler
  <2>2. running[t] \in Run
    BY <1>2 DEF RunHandler
  <2>. DEFINE rest == [running[t] EXCEPT !.todo = @ \ {r}]
  <2>3. rest.todo \subseteq running[t].todo /\ rest.info = running[t].info /\ rest.auth = running[t].auth
    BY <2>2 DEF Run
  <2>4. running' = [running EXCEPT ![t] = rest]
    BY <2>1
  <2>. HIDE DEF rest
  <2>5. \A q \in rest.todo : (q.access = "auth" => rest.auth) /\ (rest.info => q.access = "public")
    BY <1>2, <2>3 DEF RunHandler
  <2>. QED  BY <2>4, <2>5
<1>3. ASSUME NEW t \in Thread, Respond(t)
      PROVE  RunsAsRegistered'
  BY <1>3 DEF Respond
<1>4. CASE UNCHANGED running
  BY <1>4
<1>. QED
  BY <1>1, <1>2, <1>3, <1>4, ZenonT(60) DEF Next, vars, AddContentHandler, SetNoMatchHandler, BeginAdd, AddAdminRequestHandler,
    RemoveAdminRequestHandler, AddNoMatchAdminRequestHandler, RemoveContentHandlers, Shutdown

(* An admin request runs only what it was checked for (executeAdminRequest).*)
THEOREM RunsAsRegisteredAlways == Spec => []RunsAsRegistered
<1>1. Init => RunsAsRegistered
  BY DEF Init, RunsAsRegistered
<1>2. TypeOK /\ RunsAsRegistered /\ [Next]_vars => RunsAsRegistered'
  BY RunsStep
<1>. QED  BY <1>1, <1>2, TypeCorrect, PTL DEF Spec

-----------------------------------------------------------------------------
(* The type of the switch, and who holds the content lock.                  *)
USE LoggingSwitchAssumption DEF SwitchThread, Writer, viewVars, cleanerVars, setVars, contentVars, Go

LEMMA SwitchTypeStep ==
  ASSUME SwitchTypeOK, [SwitchNext]_switchVars
  PROVE  SwitchTypeOK'
<1>. USE DEF SwitchTypeOK
<1>1. ASSUME NEW t \in Writer, WantContent(t) \/ TakeContent(t)
      PROVE  SwitchTypeOK'
  BY <1>1 DEF WantContent, TakeContent
<1>2. ASSUME NEW t \in Registrar, TakeLogging(t) \/ Register(t)
      PROVE  SwitchTypeOK'
  BY <1>2 DEF TakeLogging, Register, FreeContent
<1>3. ASSUME NEW t \in Writer, Remove(t) \/ InstallNoMatch(t)
      PROVE  SwitchTypeOK'
  BY <1>3 DEF Remove, InstallNoMatch, FreeContent
<1>4. ASSUME NEW t \in Requester, LookUp(t) \/ LookedUp(t)
      PROVE  SwitchTypeOK'
  BY <1>4 DEF LookUp, LookedUp, TakeShared, FreeShared
<1>5. ASSUME NEW s \in Setter, SetLogging(s) \/ LockLogging(s) \/ NoChange(s) \/ Interrupt(s)
      PROVE  SwitchTypeOK'
  BY <1>5, ZenonT(60) DEF SetLogging, LockLogging, NoChange, Interrupt
<1>6. ASSUME NEW s \in Setter, Join(s) \/ SetView(s) \/ SetNoMatch(s)
      PROVE  SwitchTypeOK'
  BY <1>6, ZenonT(60) DEF Join, SetView, SetNoMatch
<1>7. CASE Halt \/ Clean \/ UNCHANGED switchVars
  BY <1>7, ZenonT(60) DEF Halt, Clean, CleanerWakes, CleanerLocks, CleanerCleans, TakeShared, FreeShared, Cleaner, switchVars
<1>. QED
  BY <1>1, <1>2, <1>3, <1>4, <1>5, <1>6, <1>7 DEF SwitchNext, Held

(* Every variable of the switch has its type, and a writer of the content   *)
(* lock (addContentHandlerImpl, removeContentHandlers, setNoMatchHandler)   *)
(* is alone with it.                                                        *)
THEOREM SwitchTypeCorrect == SwitchSpec => []SwitchTypeOK
<1>1. SwitchInit => SwitchTypeOK
  BY DEF SwitchInit, SwitchTypeOK
<1>. QED  BY <1>1, SwitchTypeStep, PTL DEF SwitchSpec

-----------------------------------------------------------------------------
(* Who is where, and who holds the logging lock.                            *)
Switching == {"test", "join", "walk"}
Holds ==
  /\ at \in [SwitchThread -> {"idle", "wantContent", "content", "both", "wantLogging"} \cup Switching \cup {"read", "done"}]
  /\ present \subseteq View /\ logging = [v \in View |-> logging[v]]
  /\ owner \in Registrar \cup Setter \cup {Nobody}
  /\ \A t \in SwitchThread : at[t] = "both" => owner = t
  /\ \A t \in SwitchThread : at[t] \in Switching => owner = t
  /\ \A t \in SwitchThread : owner = t => at[t] \in {"both"} \cup Switching

LEMMA HoldsStep ==
  ASSUME Holds, [SwitchNext]_switchVars
  PROVE  Holds'
<1>. USE DEF Holds, Switching
<1>1. ASSUME NEW t \in Writer, WantContent(t) \/ TakeContent(t)
      PROVE  Holds'
  BY <1>1 DEF WantContent, TakeContent
<1>2. ASSUME NEW t \in Registrar, TakeLogging(t) \/ Register(t)
      PROVE  Holds'
  BY <1>2 DEF TakeLogging, Register
<1>3. ASSUME NEW t \in Writer, Remove(t) \/ InstallNoMatch(t)
      PROVE  Holds'
  BY <1>3 DEF Remove, InstallNoMatch
<1>4. ASSUME NEW t \in Requester, LookUp(t) \/ LookedUp(t)
      PROVE  Holds'
  BY <1>4 DEF LookUp, LookedUp
<1>5. ASSUME NEW s \in Setter, SetLogging(s) \/ LockLogging(s) \/ NoChange(s)
      PROVE  Holds'
  BY <1>5 DEF SetLogging, LockLogging, NoChange
<1>6. ASSUME NEW s \in Setter, Interrupt(s) \/ Join(s) \/ SetNoMatch(s)
      PROVE  Holds'
  BY <1>6 DEF Interrupt, Join, SetNoMatch
<1>7. ASSUME NEW s \in Setter, SetView(s)
      PROVE  Holds'
  BY <1>7 DEF SetView
<1>8. CASE Halt \/ Clean \/ UNCHANGED switchVars
  BY <1>8 DEF Halt, Clean, CleanerWakes, CleanerLocks, CleanerCleans, switchVars
<1>. QED
  BY <1>1, <1>2, <1>3, <1>4, <1>5, <1>6, <1>7, <1>8 DEF SwitchNext, Held

LEMMA HoldsInit == SwitchInit => Holds
BY DEF SwitchInit, Holds, Switching

-----------------------------------------------------------------------------
(* The views: those that setLogging has still to set may differ.            *)
Differ == {v \in present : logging[v] # enabled}
Views ==
  /\ Differ # {} => \E s \in Setter : at[s] \in {"join", "walk"}
  /\ \A s \in Setter : at[s] = "walk" => Differ \subseteq todo

LEMMA ViewsStep ==
  ASSUME Holds, Views, [SwitchNext]_switchVars
  PROVE  Views'
<1>. USE DEF Holds, Switching, Views, Differ
<1>1. ASSUME NEW t \in Writer, WantContent(t) \/ TakeContent(t) \/ Remove(t) \/ InstallNoMatch(t)
      PROVE  Views'
  <2>1. /\ present' \subseteq present /\ UNCHANGED <<logging, enabled, todo>>
        /\ \A s \in Setter : at'[s] = at[s]
    BY <1>1 DEF WantContent, TakeContent, Remove, InstallNoMatch
  <2>. QED  BY <2>1
<1>2. ASSUME NEW t \in Registrar, TakeLogging(t)
      PROVE  Views'
  BY <1>2 DEF TakeLogging
<1>3. ASSUME NEW t \in Registrar, Register(t)
      PROVE  Views'
  <2>1. \A s \in Setter : at[s] \notin {"join", "walk"} /\ at'[s] = at[s]
    BY <1>3 DEF Register
  <2>. QED  BY <1>3, <2>1 DEF Register
<1>4. ASSUME NEW t \in Requester, LookUp(t) \/ LookedUp(t)
      PROVE  Views'
  BY <1>4 DEF LookUp, LookedUp
<1>5. ASSUME NEW s \in Setter, SetLogging(s) \/ LockLogging(s) \/ NoChange(s)
      PROVE  Views'
  BY <1>5 DEF SetLogging, LockLogging, NoChange
<1>6. ASSUME NEW s \in Setter, Interrupt(s) \/ Join(s) \/ SetNoMatch(s)
      PROVE  Views'
  <2>1. \A r \in Setter \ {s} : at[r] \notin {"join", "walk"} /\ at'[r] = at[r]
    BY <1>6 DEF Interrupt, Join, SetNoMatch
  <2>. QED  BY <1>6, <2>1 DEF Interrupt, Join, SetNoMatch
<1>7. ASSUME NEW s \in Setter, SetView(s)
      PROVE  Views'
  BY <1>7 DEF SetView
<1>8. CASE Halt \/ Clean \/ UNCHANGED switchVars
  BY <1>8 DEF Halt, Clean, CleanerWakes, CleanerLocks, CleanerCleans, switchVars
<1>. QED
  BY <1>1, <1>2, <1>3, <1>4, <1>5, <1>6, <1>7, <1>8 DEF SwitchNext, Held

(* Whoever finds the logging lock free finds every view logging as the      *)
(* status says.                                                             *)
THEOREM LoggingAgreesAlways == SwitchSpec => []LoggingAgrees
<1>1. SwitchInit => Holds /\ Views
  BY HoldsInit, ZenonT(60) DEF SwitchInit, Views, Differ
<1>2. Holds /\ Views /\ [SwitchNext]_switchVars => Holds' /\ Views'
  BY HoldsStep, ViewsStep
<1>3. Holds /\ Views => LoggingAgrees
  BY DEF Holds, Switching, Views, Differ, LoggingAgrees
<1>. QED  BY <1>1, <1>2, <1>3, PTL DEF SwitchSpec

-----------------------------------------------------------------------------
(* The cleaner: between the interruption and the end of the join it may     *)
(* run against the status.                                                  *)
Joining == \E s \in Setter : at[s] = "join"
CleanerInv ==
  ~Joining =>
    IF enabled THEN (cleaner \in {"sleep", "want", "clean"} /\ ~stopped) \/ (cleaner = "ended" /\ halting)
    ELSE cleaner \in {"none", "ended"}

LEMMA CleanerStep ==
  ASSUME Holds, CleanerInv, [SwitchNext]_switchVars
  PROVE  CleanerInv'
<1>. USE DEF Holds, Switching, CleanerInv, Joining
<1>1. ASSUME NEW t \in SwitchThread, \/ WantContent(t) \/ TakeContent(t) \/ Remove(t) \/ InstallNoMatch(t)
                               \/ TakeLogging(t) \/ Register(t) \/ LookUp(t) \/ LookedUp(t)
      PROVE  CleanerInv'
  BY <1>1 DEF WantContent, TakeContent, Remove, InstallNoMatch, TakeLogging, Register, LookUp, LookedUp
<1>2. ASSUME NEW s \in Setter, SetLogging(s) \/ LockLogging(s) \/ NoChange(s) \/ SetNoMatch(s)
      PROVE  CleanerInv'
  BY <1>2 DEF SetLogging, LockLogging, NoChange, SetNoMatch
<1>3. ASSUME NEW s \in Setter, Interrupt(s)
      PROVE  CleanerInv'
  BY <1>3 DEF Interrupt
<1>4. ASSUME NEW s \in Setter, Join(s)
      PROVE  CleanerInv'
  BY <1>4 DEF Join
<1>5. ASSUME NEW s \in Setter, SetView(s)
      PROVE  CleanerInv'
  BY <1>5 DEF SetView
<1>6. CASE Halt \/ Clean \/ UNCHANGED switchVars
  BY <1>6 DEF Halt, Clean, CleanerWakes, CleanerLocks, CleanerCleans, switchVars
<1>. QED
  BY <1>1, <1>2, <1>3, <1>4, <1>5, <1>6 DEF SwitchNext, Held

(* While logging is on one cleaner runs that nobody has interrupted, while  *)
(* it is off none does.                                                     *)
THEOREM CleanerAgreesAlways == SwitchSpec => []CleanerAgrees
<1>1. SwitchInit => Holds /\ CleanerInv
  BY HoldsInit DEF SwitchInit, CleanerInv
<1>2. Holds /\ CleanerInv /\ [SwitchNext]_switchVars => Holds' /\ CleanerInv'
  BY HoldsStep, CleanerStep
<1>3. Holds /\ CleanerInv => CleanerAgrees
  BY DEF Holds, Switching, CleanerInv, Joining, CleanerAgrees
<1>. QED  BY <1>1, <1>2, <1>3, PTL DEF SwitchSpec

=============================================================================
