---------------------------- MODULE AuthSession -----------------------------
(***************************************************************************)
(* The sessions of one user on the server: a cookie's token has a row in   *)
(* auth_sessions and, in the process that knows it, an entry in the map of *)
(* authManager.  Signing in, any request with the cookie, signing out and  *)
(* changing the password are handlers that go from store to map and back   *)
(* without a lock over both; an administrator edits the user they all read.*)
(***************************************************************************)
EXTENDS Naturals

CONSTANTS Tokens,
          Handlers,     \* requests that may be under way together
          Roles,
          MaxRequests,  \* bound on the requests of one behaviour
          MaxFaults     \* bound on failing store operations and restarts

(* What the values of the constants satisfy. *)
ConstantsOK == MaxRequests \in Nat /\ MaxFaults \in Nat /\ "none" \notin Roles \cup Tokens

VARIABLES
  cache,    \* authManager.sessions: the role of a token's session, or "none"
  rows,     \* auth_sessions, likewise
  expired,  \* tokens past their ExpiresAt
  user,     \* the user's record
  handler,  \* what each request is doing
  drawn,    \* tokens that randomToken has returned
  given,    \* tokens that were sent in a cookie
  started, faults,
  revoked,  \* history: tokens revoked with success while nobody else presented them
  excused   \* history: see OnlineMatches

sessions == <<cache, rows, expired>>
vars == <<sessions, user, handler, drawn, given, started, faults, revoked, excused>>

Users == [there : BOOLEAN, enabled : BOOLEAN, role : Roles, online : BOOLEAN]
Sessions == Roles \cup {"none"}
Steps == {"idle", "persist", "remember", "load", "fill", "check", "persistRole", "rememberRole",
          "serve", "others", "readUser", "saveUser", "forget", "dropRow", "list", "dropRows"}
NoUser == [there |-> FALSE, enabled |-> FALSE, role |-> CHOOSE r \in Roles : TRUE, online |-> FALSE]
Idle == [op |-> "none", at |-> "idle", token |-> "none", session |-> "none", copy |-> NoUser,
         other |-> FALSE, left |-> {}, ends |-> {}, alone |-> TRUE, had |-> {}, blind |-> FALSE]

TypeOK ==
  /\ cache \in [Tokens -> Sessions] /\ rows \in [Tokens -> Sessions] /\ expired \subseteq Tokens
  /\ user \in Users /\ given \subseteq drawn /\ drawn \subseteq Tokens /\ revoked \subseteq given
  /\ started \in 0 .. MaxRequests /\ faults \in 0 .. MaxFaults /\ excused \in BOOLEAN
  /\ \A h \in Handlers :
       /\ handler[h].at \in Steps /\ handler[h].session \in Sessions /\ handler[h].copy \in Users
       /\ handler[h].left \subseteq Tokens /\ handler[h].ends \subseteq Tokens /\ handler[h].had \subseteq Roles

Init ==
  /\ cache = [t \in Tokens |-> "none"] /\ rows = cache /\ expired = {}
  /\ user \in {u \in Users : u.there /\ u.enabled /\ ~u.online}
  /\ handler = [h \in Handlers |-> Idle]
  /\ drawn = {} /\ given = {} /\ started = 0 /\ faults = 0 /\ revoked = {} /\ excused = FALSE

(***************************************************************************)
(* Steps of a handler                                                      *)
(***************************************************************************)

Me(h) == handler[h]
At(h, step) == Me(h).at = step
Becomes(h, next) == handler' = [handler EXCEPT ![h] = next]
Goto(h, step) == Becomes(h, [Me(h) EXCEPT !.at = step])
Return(h) == Becomes(h, Idle)

(* The token is deleted because it is not accepted, or the login failed.   *)
Refused(next) == [next EXCEPT !.op = "refused", !.at = "forget"]

(* A store operation fails, or it does not. *)
Fault == faults < MaxFaults /\ faults' = faults + 1
Well == UNCHANGED faults

Live(t) == rows[t] # "none" /\ t \notin expired
Without(gone) == [t \in Tokens |-> IF t \in gone THEN "none" ELSE rows[t]]
RoleNow(u) == IF u.there /\ u.enabled THEN {u.role} ELSE {}

(* The user's record is written; every request under way may act on it.    *)
SaveUser(h, u, next) ==
  /\ user' = u
  /\ handler' = [g \in Handlers |->
       LET after == IF g = h THEN next ELSE Me(g)
       IN  IF after = Idle THEN Idle ELSE [after EXCEPT !.had = @ \cup RoleNow(u)]]

(***************************************************************************)
(* Arrivals                                                                *)
(***************************************************************************)

Writes(op) == op \in {"login", "logout", "rollback", "edit"}
Busy == {g \in Handlers : Me(g) # Idle}
Overlaps(op) == \E g \in Busy : Writes(op) \/ Writes(Me(g).op)

(* A request arrives, and is noted by those that are ending its token.     *)
Arrive(h, first) ==
  /\ At(h, "idle") /\ started < MaxRequests /\ started' = started + 1
  /\ handler' = [g \in Handlers |->
       IF g = h THEN [first EXCEPT !.had = RoleNow(user),
                                   !.alone = \A b \in Busy : Me(b).token \notin first.ends]
       ELSE IF Me(g) = Idle THEN Idle
       ELSE [Me(g) EXCEPT !.alone = @ /\ first.token \notin Me(g).ends]]
  /\ excused' = (excused \/ Overlaps(first.op))
  /\ UNCHANGED <<sessions, user, given, faults, revoked>>

(* A login whose credentials were right goes on to create. *)
Login(h) ==
  \E t \in Tokens \ drawn :
    /\ user.there /\ user.enabled /\ drawn' = drawn \cup {t}
    /\ Arrive(h, [Idle EXCEPT !.op = "login", !.at = "persist", !.token = t, !.session = user.role])

(* The first look of session(): the entry of the map is taken if there is  *)
(* one, and its token deleted if it has expired.                           *)
Lookup(first) ==
  IF cache[first.token] = "none" THEN [first EXCEPT !.at = "load"]
  ELSE IF first.token \in expired THEN Refused(first)
  ELSE [first EXCEPT !.at = "check", !.session = cache[first.token]]

(* A request with a cookie: handleMe, as any other, handleLogout or        *)
(* handlePasswordChange.                                                   *)
Request(h) ==
  /\ \E t \in given, op \in {"me", "logout", "password"} :
       LET ends == CASE op = "me" -> {} [] op = "logout" -> {t} [] op = "password" -> given \ {t}
       IN  Arrive(h, Lookup([Idle EXCEPT !.op = op, !.token = t, !.ends = ends]))
  /\ UNCHANGED drawn

(* An administrator edits the user. *)
Edit(h) ==
  /\ Arrive(h, [Idle EXCEPT !.op = "edit", !.at = "readUser"])
  /\ UNCHANGED drawn

DeleteUser ==
  /\ user.there /\ started < MaxRequests /\ started' = started + 1
  /\ user' = [user EXCEPT !.there = FALSE]
  /\ excused' = (excused \/ Overlaps("edit"))
  /\ UNCHANGED <<sessions, handler, drawn, given, faults, revoked>>

(***************************************************************************)
(* create                                                                  *)
(***************************************************************************)

(* The expired rows are pruned and the new one is saved; nothing was given *)
(* out when either fails.                                                  *)
Persist(h) ==
  /\ At(h, "persist")
  /\ \/ Well /\ rows' = [Without(expired) EXCEPT ![Me(h).token] = Me(h).session] /\ Goto(h, "remember")
     \/ Fault /\ (\E gone \in SUBSET expired : rows' = Without(gone)) /\ Return(h)
  /\ UNCHANGED <<cache, expired, user, drawn, given, started, revoked, excused>>

Remember(h) ==
  /\ At(h, "remember") /\ cache' = [cache EXCEPT ![Me(h).token] = Me(h).session]
  /\ Goto(h, "readUser")
  /\ UNCHANGED <<rows, expired, user, drawn, given, started, faults, revoked, excused>>

(***************************************************************************)
(* authSession: session and refreshAuthSession                             *)
(***************************************************************************)

(* loadPersistedSession: an expired row is deleted, best effort.           *)
Load(h) ==
  LET t == Me(h).token IN
  /\ At(h, "load")
  /\ \/ Live(t) /\ Well /\ Becomes(h, [Me(h) EXCEPT !.at = "fill", !.session = rows[t]]) /\ UNCHANGED rows
     \/ ~Live(t) /\ Well /\ Return(h) /\ rows' = Without({t})
     \/ Fault /\ Return(h) /\ UNCHANGED rows
  /\ UNCHANGED <<cache, expired, user, drawn, given, started, revoked, excused>>

Fill(h) ==
  /\ At(h, "fill") /\ cache' = [cache EXCEPT ![Me(h).token] = Me(h).session]
  /\ Goto(h, "check")
  /\ UNCHANGED <<rows, expired, user, drawn, given, started, faults, revoked, excused>>

(* Mutant: a session that is known is served as it is. *)
CheckPresence(h) ==
  /\ At(h, "check") /\ Well
  /\ IF RoleNow(user) = {} THEN Becomes(h, Refused(Me(h))) ELSE Goto(h, "serve")
  /\ UNCHANGED <<sessions, user, drawn, given, started, revoked, excused>>

(* The user is read: one that is gone or disabled loses the token, a new   *)
(* role is taken over, and when the read fails the session stands.         *)
Check(h) ==
  /\ At(h, "check")
  /\ \/ /\ Well
        /\ CASE RoleNow(user) = {} -> Becomes(h, Refused(Me(h)))
             [] RoleNow(user) = {Me(h).session} -> Goto(h, "serve")
             [] OTHER -> Becomes(h, [Me(h) EXCEPT !.at = "persistRole", !.session = user.role])
     \/ Fault /\ Becomes(h, [Me(h) EXCEPT !.at = "serve", !.blind = TRUE])
  /\ UNCHANGED <<sessions, user, drawn, given, started, revoked, excused>>

(* refreshSession: the row is saved, whether or not it is still there, and *)
(* then the entry if it is; when the row cannot be saved the entry goes.   *)
PersistRole(h) ==
  LET t == Me(h).token IN
  /\ At(h, "persistRole")
  /\ \/ Well /\ rows' = [rows EXCEPT ![t] = Me(h).session] /\ Goto(h, "rememberRole") /\ UNCHANGED cache
     \/ Fault /\ cache' = [cache EXCEPT ![t] = "none"] /\ Return(h) /\ UNCHANGED rows
  /\ UNCHANGED <<expired, user, drawn, given, started, revoked, excused>>

RememberRole(h) ==
  /\ At(h, "rememberRole")
  /\ cache' = [cache EXCEPT ![Me(h).token] = IF @ = "none" THEN @ ELSE Me(h).session]
  /\ Goto(h, "serve")
  /\ UNCHANGED <<rows, expired, user, drawn, given, started, faults, revoked, excused>>

(* The request is let through: to its answer, or to what it ends. *)
Serve(h) ==
  /\ At(h, "serve")
  /\ CASE Me(h).op = "me" -> Return(h)
       [] Me(h).op = "logout" -> Goto(h, "others")
       [] Me(h).op = "password" -> Goto(h, "list")
  /\ UNCHANGED <<sessions, user, drawn, given, started, faults, revoked, excused>>

(***************************************************************************)
(* revokeAuthSession and delete                                            *)
(***************************************************************************)

(* hasOtherUserSession deletes the expired rows it comes by; when the rows *)
(* cannot be listed there is no other.  It does not look into the map.     *)
Others(h) ==
  LET other == \E t \in Tokens \ {Me(h).token} : Live(t)
      unseen == \E t \in given \ ({Me(h).token} \cup expired) : cache[t] # "none" /\ rows[t] = "none"
      next(found) == [Me(h) EXCEPT !.other = found, !.at = IF found THEN "forget" ELSE "readUser"]
  IN
  /\ At(h, "others")
  /\ \/ /\ Well /\ Becomes(h, next(other)) /\ excused' = (excused \/ (~other /\ unseen))
        /\ \E gone \in SUBSET expired : rows' = Without(gone)
     \/ Fault /\ Becomes(h, next(FALSE)) /\ UNCHANGED rows /\ excused' = TRUE
  /\ UNCHANGED <<cache, expired, user, drawn, given, started, revoked>>

(* RecordUserLogin, RecordUserLogout and UpdatePlatformItem read the whole *)
(* record ...                                                              *)
Unrecorded(h) == IF Me(h).op = "login" THEN Becomes(h, Refused(Me(h))) ELSE Return(h)
ReadUser(h) ==
  /\ At(h, "readUser")
  /\ \/ user.there /\ Well /\ Becomes(h, [Me(h) EXCEPT !.at = "saveUser", !.copy = user]) /\ UNCHANGED excused
     \/ ~user.there /\ Well /\ Unrecorded(h) /\ UNCHANGED excused
     \/ Fault /\ Unrecorded(h) /\ excused' = (excused \/ Me(h).op = "rollback")
  /\ UNCHANGED <<sessions, user, drawn, given, started, revoked>>

(* ... and replace it, also one that was changed or deleted meanwhile.     *)
WriteUser(h) ==
  LET copy == Me(h).copy IN
  /\ At(h, "saveUser")
  /\ \/ /\ Well /\ UNCHANGED excused
        /\ \/ /\ Me(h).op = "login" /\ SaveUser(h, [copy EXCEPT !.online = TRUE], Idle)
              /\ given' = given \cup {Me(h).token}
           \/ /\ Me(h).op = "logout" /\ UNCHANGED given
              /\ SaveUser(h, [copy EXCEPT !.online = FALSE], [Me(h) EXCEPT !.at = "forget"])
           \/ /\ Me(h).op = "rollback" /\ UNCHANGED given
              /\ SaveUser(h, [copy EXCEPT !.online = TRUE], Idle)
           \/ /\ Me(h).op = "edit" /\ UNCHANGED given
              /\ \E role \in Roles, enabled \in BOOLEAN :
                   SaveUser(h, [copy EXCEPT !.role = role, !.enabled = enabled], Idle)
     \/ /\ Fault /\ Unrecorded(h) /\ excused' = (excused \/ Me(h).op = "rollback")
        /\ UNCHANGED <<user, given>>
  /\ UNCHANGED <<sessions, drawn, started, revoked>>

(* delete: the entry of the map ... *)
Forget(h) ==
  /\ At(h, "forget") /\ cache' = [cache EXCEPT ![Me(h).token] = "none"]
  /\ Goto(h, "dropRow")
  /\ UNCHANGED <<rows, expired, user, drawn, given, started, faults, revoked, excused>>

(* Mutant: the user stays logged out when the session stays. *)
DropRowNoUndo(h) ==
  /\ At(h, "dropRow") /\ Return(h)
  /\ \/ Well /\ rows' = Without({Me(h).token})
     \/ Fault /\ UNCHANGED rows
  /\ UNCHANGED <<cache, expired, user, drawn, given, started, revoked, excused>>

(* ... and the row, with the grant of the access MFA, which is deleted     *)
(* before it: either may fail.  A logout then records the user as logged   *)
(* in again, if it had recorded the opposite.                              *)
DropRow(h) ==
  /\ At(h, "dropRow")
  /\ \/ /\ Well /\ rows' = Without({Me(h).token}) /\ Return(h) /\ UNCHANGED excused
        /\ revoked' = IF Me(h).op = "logout" /\ Me(h).alone THEN revoked \cup Me(h).ends ELSE revoked
     \/ /\ Fault /\ UNCHANGED revoked /\ rows' \in {rows, Without({Me(h).token})}
        /\ excused' = (excused \/ Me(h).op = "refused")
        /\ IF Me(h).op = "logout" /\ ~Me(h).other
             THEN Becomes(h, [Me(h) EXCEPT !.op = "rollback", !.at = "readUser"])
             ELSE Return(h)
  /\ UNCHANGED <<cache, expired, user, drawn, given, started>>

(***************************************************************************)
(* deleteUserSessionsExcept                                                *)
(***************************************************************************)

List(h) ==
  /\ At(h, "list")
  /\ \/ /\ Well
        /\ Becomes(h, [Me(h) EXCEPT !.at = "dropRows", !.left = {t \in Tokens \ {Me(h).token} : rows[t] # "none"}])
     \/ Fault /\ Return(h)
  /\ UNCHANGED <<sessions, user, drawn, given, started, revoked, excused>>

DropOther(h) ==
  /\ At(h, "dropRows")
  /\ \E t \in Me(h).left :
       \/ Well /\ rows' = Without({t}) /\ Becomes(h, [Me(h) EXCEPT !.left = @ \ {t}])
       \/ Fault /\ rows' \in {rows, Without({t})} /\ Return(h)
  /\ UNCHANGED <<cache, expired, user, drawn, given, started, revoked, excused>>

(* Mutant: only the rows are deleted. *)
ForgetOthersNot(h) ==
  /\ At(h, "dropRows") /\ Me(h).left = {} /\ Return(h)
  /\ revoked' = IF Me(h).alone THEN revoked \cup Me(h).ends ELSE revoked
  /\ UNCHANGED <<sessions, user, drawn, given, started, faults, excused>>

ForgetOthers(h) ==
  /\ At(h, "dropRows") /\ Me(h).left = {} /\ Return(h)
  /\ cache' = [t \in Tokens |-> IF t = Me(h).token THEN cache[t] ELSE "none"]
  /\ revoked' = IF Me(h).alone THEN revoked \cup Me(h).ends ELSE revoked
  /\ UNCHANGED <<rows, expired, user, drawn, given, started, faults, excused>>

(***************************************************************************)
(* The system                                                              *)
(***************************************************************************)

Expire ==
  /\ \E t \in given \ expired : expired' = expired \cup {t}
  /\ UNCHANGED <<cache, rows, user, handler, drawn, given, started, faults, revoked, excused>>

(* The map goes with the process, and so do the requests. *)
Restart ==
  /\ Fault /\ cache' = [t \in Tokens |-> "none"]
  /\ handler' = [h \in Handlers |-> Idle]
  /\ excused' = (excused \/ \E h \in Busy : Writes(Me(h).op) \/ Me(h).op = "refused")
  /\ UNCHANGED <<rows, expired, user, drawn, given, started, revoked>>

Next ==
  \/ \E h \in Handlers :
       \/ Login(h) \/ Request(h) \/ Edit(h) \/ Persist(h) \/ Remember(h)
       \/ Load(h) \/ Fill(h) \/ Check(h) \/ PersistRole(h) \/ RememberRole(h) \/ Serve(h)
       \/ Others(h) \/ ReadUser(h) \/ WriteUser(h) \/ Forget(h) \/ DropRow(h)
       \/ List(h) \/ DropOther(h) \/ ForgetOthers(h)
  \/ DeleteUser \/ Expire \/ Restart

Spec == Init /\ [][Next]_vars

(***************************************************************************)
(* Properties                                                              *)
(***************************************************************************)

(* A token that a logout or a password change has ended with success is    *)
(* neither in the map nor in the store, whatever requests present it       *)
(* afterwards and however often the process restarts, unless a request     *)
(* with that token overlapped: its load or its new role would bring it     *)
(* back (delete, deleteUserSessionsExcept, session, refreshSession).       *)
RevokedIsDead == \A t \in revoked : cache[t] = "none" /\ rows[t] = "none"

(* A request is let through with a role that the enabled user had while it *)
(* was under way, whatever map and row say; only when the user's record    *)
(* cannot be read is it served as the session has it (refreshAuthSession). *)
ServedAsUser ==
  \A h \in Handlers : At(h, "serve") => Me(h).session \in Me(h).had \/ Me(h).blind

(* When nothing is under way, a user who holds a live session is recorded  *)
(* as online, also after a logout that failed and was undone, and one      *)
(* whose sessions were all ended by logouts is not; unless two requests    *)
(* overlapped of which one writes the user's record, the other sessions    *)
(* could not be listed or one was left in the map alone, an undo failed    *)
(* too, or the process stopped within one of these (revokeAuthSession,     *)
(* recordUserLoginState).                                                  *)
OnlineMatches ==
  Busy = {} /\ user.there /\ ~excused =>
    /\ (\E t \in given : Live(t)) => user.online
    /\ given \subseteq revoked => ~user.online
=============================================================================
