------------------------------- MODULE Access -------------------------------
(***************************************************************************)
(* Who may make a request: HTTP::Authentication                            *)
(* (src/spine/HTTPAuthentication.cpp) and IPFilter (src/spine/IPFilter.cpp) *)
(* for addresses of four fields, which the code assumes.  A digest is told *)
(* by the name and the password it encodes; digests that differ in the     *)
(* case of letters only are one.                                           *)
(***************************************************************************)
EXTENDS Integers, Sequences, FiniteSets, SequencesExt, Functions

NoUsers == [name \in {} |-> [password |-> "", groups |-> {}]]

\* addUser() replaces what there was under the name.
AddUser(users, u) ==
  [name \in DOMAIN users \cup {u.name} |->
     IF name = u.name THEN [password |-> u.password, groups |-> u.groups] ELSE users[name]]

RemoveUser(users, u) == Restrict(users, DOMAIN users \ {u.name})

Called(users, call) ==
  IF call.op = "add" THEN AddUser(users, call)
  ELSE IF call.op = "remove" THEN RemoveUser(users, call)
  ELSE NoUsers  \* clearUsers()

\* The users after a history of calls.
Users(history) == FoldLeft(Called, NoUsers, history)

\* authenticateRequest(): "pass", or the response that is set instead.  The
\* credentials are the words of the header, a set of at most one sequence;
\* asked says whether the derived class requires them of the request, and
\* groups who may make it.
Authenticate(users, denyByDefault, credentials, asked, groups) ==
  LET words == CHOOSE w \in credentials : TRUE
      known == \E name \in DOMAIN users :
                 users[name].groups \cap groups # {} /\ words[2] = <<name, users[name].password>>
  IN CASE credentials = {} ->
            IF ~asked \/ (DOMAIN users = {} /\ ~denyByDefault) THEN "pass" ELSE "unauthorized"
       [] credentials # {} /\ (Len(words) < 2 \/ words[1] # "basic") -> "bad_request"
       [] OTHER -> IF known THEN "pass" ELSE "unauthorized"

---------------------------------------------------------------------------
(* A field of a filter is [is, lo, hi]: any, a single number, a range with *)
(* its limits as written, or something else ("other").  A number with      *)
(* leading zeros ("padded") is compared as a text.                         *)

Acceptable(format) == Len(format) = 4 /\ \A k \in 1 .. 4 : format[k].is # "other"

FieldMatches(field, n) ==
  CASE field.is = "any"    -> TRUE
    [] field.is = "single" -> n = field.lo
    [] field.is = "padded" -> FALSE
    [] field.is = "range"  -> IF field.lo > field.hi THEN field.hi <= n /\ n <= field.lo
                              ELSE field.lo <= n /\ n <= field.hi

AddressMatches(format, address) == \A k \in DOMAIN address : FieldMatches(format[k], address[k])

\* The constructor throws at a format it cannot read; otherwise match().
FilterMatches(formats, address) ==
  IF \E k \in DOMAIN formats : ~Acceptable(formats[k]) THEN "throw"
  ELSE IF \E k \in DOMAIN formats : AddressMatches(formats[k], address) THEN "pass"
  ELSE "refuse"

=============================================================================
