------------------------------- MODULE SignIn -------------------------------
(***************************************************************************)
(* Signing in: the login page (AuthPage) with its password, set-up,        *)
(* two-factor and passkey flows, the application state they end in         *)
(* (app-provider) and the route gates that exchange login page and console.*)
(* Answers may be late: the page that asked may be gone, or another flow   *)
(* may have ended first.  The browser takes the session cookie from an     *)
(* answer in the moment the page reads it.  An answer may also be lost     *)
(* after the server has done what was asked, with or without its cookie,   *)
(* and the user may load the page again at any time.                       *)
(***************************************************************************)
EXTENDS Naturals, FiniteSets

CONSTANTS Accounts,
          Captcha,      \* the server asks for a captcha
          Reauth,       \* the page was opened with reauth=1
          MaxRequests   \* bound on the requests of one behaviour

(* What the values of the constants satisfy. *)
ConstantsOK ==
  /\ Captcha \in BOOLEAN /\ Reauth \in BOOLEAN /\ MaxRequests \in Nat \ {0} /\ "none" \notin Accounts

VARIABLES
  configured,  \* the server has an administrator
  mfa,         \* two-factor state of the accounts: "off", "setup" (forced) or "on"
  tokens,      \* two-factor challenges not consumed yet
  spent,       \* captchas consumed
  session,     \* the account of the browser's cookie
  known,       \* the page's copy of configured
  auth,        \* the user of the application state
  me,          \* the auth-me request under way, with what it was answered
  path,        \* "login" or "app"
  mount,       \* number of this login page
  username, challenge, captcha, codes, submitting, passkey,
  reqs, issued,
  enrolled,    \* history: accounts that were sent recovery codes
  seen,        \* history: accounts whose codes were confirmed as saved
  overlap,     \* history: two sign-ins were under way at a time
  unloaded,    \* history: a captcha could not be loaded
  unshown,     \* history: accounts whose codes were lost, or left by loading the page again
  strayed      \* history: the account of the last cookie that came with a lost answer

server == <<configured, mfa, tokens, spent>>
app == <<session, known, auth, me>>
formVars == <<username, challenge, captcha, codes, submitting, passkey>>
losses == <<unshown, strayed>>
history == <<enrolled, seen, overlap, unloaded, losses>>
vars == <<server, app, path, mount, formVars, reqs, issued, history>>

NoChallenge == [account |-> "none", token |-> 0, setup |-> FALSE]
NoMe == [phase |-> "none", user |-> "none"]
Kinds == {"login", "setup", "mfa", "passkey", "captcha"}
SignIns == {"login", "setup", "mfa", "passkey"}

TypeOK ==
  /\ configured \in BOOLEAN /\ known \in BOOLEAN
  /\ mfa \in [Accounts -> {"off", "setup", "on"}]
  /\ tokens \subseteq 1 .. MaxRequests /\ spent \subseteq 0 .. MaxRequests
  /\ {session, auth, codes} \subseteq Accounts \cup {"none"} /\ username \in Accounts
  /\ me \in [phase : {"none", "asked", "served"}, user : Accounts \cup {"none"}]
  /\ path \in {"login", "app"} /\ captcha \in 0 .. MaxRequests
  /\ challenge \in [account : Accounts \cup {"none"}, token : 0 .. MaxRequests, setup : BOOLEAN]
  /\ \A r \in reqs : r.kind \in Kinds /\ r.account \in Accounts \cup {"none"}

Asked(n) == [n |-> n, kind |-> "captcha", account |-> "none", captcha |-> 0, token |-> 0, setup |-> FALSE,
             phase |-> "sent", mount |-> mount, answer |-> "none"]

(* The page is open at /login; the effect loads a captcha. *)
Init ==
  /\ configured \in BOOLEAN /\ known = configured
  /\ mfa \in [Accounts -> {"off", "setup", "on"}]
  /\ tokens = {} /\ spent = {} /\ me = NoMe /\ path = "login" /\ mount = 0
  /\ session \in (IF Reauth /\ configured THEN Accounts ELSE {"none"}) /\ auth = session
  /\ username \in Accounts /\ challenge = NoChallenge /\ captcha = 0 /\ codes = "none"
  /\ submitting = FALSE /\ passkey = FALSE
  /\ issued = (IF Captcha /\ configured THEN 1 ELSE 0)
  /\ reqs = {Asked(n) : n \in 1 .. issued}
  /\ enrolled = {} /\ seen = {} /\ overlap = FALSE /\ unloaded = FALSE
  /\ unshown = {} /\ strayed = "none"

To(r, phase) == (reqs \ {r}) \cup {[r EXCEPT !.phase = phase]}
Mounted(r) == path = "login" /\ r.mount = mount
Pending == {r \in reqs : r.kind \in SignIns}

(***************************************************************************)
(* Gates                                                                   *)
(***************************************************************************)

(* LoginGate: with a user, and not asked to sign in again, the page goes   *)
(* to the console.                                                         *)
GateFor(user) == IF user # "none" /\ ~Reauth THEN "app" ELSE path

(* The form's state lives in AuthPage and goes with it; ConsoleGate sends  *)
(* a page without a user back to another login page.                       *)
Leave ==
  /\ path' = IF auth' = "none" THEN "login" ELSE "app"
  /\ mount' = mount + 1
  /\ challenge' = NoChallenge /\ captcha' = 0 /\ codes' = "none"
  /\ submitting' = FALSE /\ passkey' = FALSE
  /\ UNCHANGED username

(***************************************************************************)
(* The form                                                                *)
(***************************************************************************)

Form == path = "login" /\ codes = "none"

(* The effect: a captcha is loaded when the user name or the challenge     *)
(* changes, none where no password is asked for.                           *)
Effect(withChallenge) ==
  IF Captcha /\ known /\ ~withChallenge
    THEN /\ issued < MaxRequests /\ issued' = issued + 1
         /\ reqs' = reqs \cup {Asked(issued + 1)} /\ UNCHANGED captcha
    ELSE /\ captcha' = 0 /\ UNCHANGED <<reqs, issued>>

TypeUsername(a) ==
  /\ Form /\ challenge = NoChallenge /\ username' = a /\ a # username
  /\ Effect(FALSE)
  /\ UNCHANGED <<server, app, path, mount, challenge, codes, submitting, passkey, history>>

Send(kind, account, token) ==
  /\ issued < MaxRequests /\ issued' = issued + 1
  /\ reqs' = reqs \cup {[Asked(issued + 1) EXCEPT !.kind = kind, !.account = account, !.token = token,
                                                  !.captcha = captcha, !.setup = challenge.setup]}
  /\ overlap' = (overlap \/ Pending # {})
  /\ UNCHANGED <<server, app, path, mount, username, challenge, captcha, codes, enrolled, seen, unloaded, losses>>

(* onSubmit: three forms behind one button. *)
Submit ==
  /\ Form /\ ~submitting /\ submitting' = TRUE
  /\ CASE challenge # NoChallenge -> Send("mfa", challenge.account, challenge.token)
       [] challenge = NoChallenge /\ ~known -> Send("setup", username, 0)
       [] OTHER -> Send("login", username, 0)
  /\ UNCHANGED passkey

(* startPasskeyLogin: options, the browser's authenticator, verification.  *)
StartPasskeyLogin ==
  /\ Form /\ known /\ challenge = NoChallenge /\ ~passkey /\ ~submitting
  /\ passkey' = TRUE /\ Send("passkey", username, 0)
  /\ UNCHANGED submitting

BackToPassword ==
  /\ Form /\ challenge # NoChallenge /\ challenge' = NoChallenge
  /\ Effect(FALSE)
  /\ UNCHANGED <<server, app, path, mount, username, codes, submitting, passkey, history>>

RefreshCaptcha ==
  /\ Form /\ Captcha /\ known /\ challenge = NoChallenge /\ ~submitting
  /\ issued < MaxRequests /\ issued' = issued + 1 /\ reqs' = reqs \cup {Asked(issued + 1)}
  /\ UNCHANGED <<server, app, path, mount, formVars, history>>

(***************************************************************************)
(* The server                                                              *)
(***************************************************************************)

Respond(r, answer, token) ==
  reqs' = (reqs \ {r}) \cup {[r EXCEPT !.phase = "served", !.answer = answer, !.token = token]}

ServeCaptcha(r) ==
  /\ r.kind = "captcha" /\ r.phase = "sent" /\ Respond(r, "captcha", 0)
  /\ UNCHANGED <<server, app, path, mount, formVars, issued, history>>

(* handleLogin and the passkey verification: a session, or a challenge.    *)
(* The captcha is consumed before anything else is checked.                *)
ServeLogin(r) ==
  /\ r.kind \in {"login", "passkey"} /\ r.phase = "sent" /\ configured
  /\ spent' = IF r.kind = "login" /\ Captcha THEN spent \cup {r.captcha} ELSE spent
  /\ r.kind = "login" /\ Captcha => r.captcha \notin spent \cup {0}
  /\ IF mfa[r.account] = "off"
       THEN Respond(r, "user", 0) /\ UNCHANGED tokens
       ELSE /\ reqs' = (reqs \ {r}) \cup {[r EXCEPT !.phase = "served", !.answer = "challenge",
                                                   !.token = r.n, !.setup = mfa[r.account] = "setup"]}
            /\ tokens' = tokens \cup {r.n}
  /\ UNCHANGED <<configured, mfa, app, path, mount, formVars, issued, history>>

(* handleSetup. *)
ServeSetup(r) ==
  /\ r.kind = "setup" /\ r.phase = "sent" /\ ~configured
  /\ configured' = TRUE /\ Respond(r, "user", 0)
  /\ UNCHANGED <<mfa, tokens, spent, app, path, mount, formVars, issued, history>>

EnrolledMfa(account) == [mfa EXCEPT ![account] = "on"]

(* handleMFACompleteLogin with a right code; an account that had to enrol  *)
(* is sent its recovery codes.                                             *)
ServeMfa(r) ==
  /\ r.kind = "mfa" /\ r.phase = "sent" /\ r.token \in tokens
  /\ tokens' = tokens \ {r.token}
  /\ mfa' = EnrolledMfa(r.account)
  /\ Respond(r, IF r.setup THEN "codes" ELSE "user", r.token)
  /\ enrolled' = IF r.setup THEN enrolled \cup {r.account} ELSE enrolled
  /\ UNCHANGED <<configured, spent, app, path, mount, formVars, issued, seen, overlap, unloaded, losses>>

(* A refusal consumes captcha and challenge as well; a request that never  *)
(* arrives consumes neither.                                               *)
Refuse(r) ==
  /\ r.phase = "sent" /\ Respond(r, "failed", r.token)
  /\ \/ UNCHANGED <<spent, tokens>>
     \/ /\ spent' = IF r.kind = "login" /\ Captcha THEN spent \cup {r.captcha} ELSE spent
        /\ tokens' = IF r.kind = "mfa" THEN tokens \ {r.token} ELSE tokens
  /\ UNCHANGED <<configured, mfa, app, path, mount, formVars, issued, history>>

(* The server has acted and its answer is lost: the connection breaks      *)
(* before it, or after the headers, from which the browser takes the       *)
(* cookie.  To the flow this is a failure like any other.  So it is when   *)
(* the server fails after enrolling the account and cannot restore it.     *)
LoseAnswer(r) ==
  /\ r.kind \in SignIns /\ r.answer \in {"user", "challenge", "codes"} /\ r.phase = "served"
  /\ Respond(r, "failed", r.token)
  /\ \/ UNCHANGED <<session, strayed>>
     \/ r.answer # "challenge" /\ session' = r.account /\ strayed' = r.account
  /\ unshown' = IF r.answer = "codes" THEN unshown \cup {r.account} ELSE unshown
  /\ UNCHANGED <<server, known, auth, me, path, mount, formVars, issued, enrolled, seen, overlap, unloaded>>

(* Another browser sets the system up first. *)
OtherSetup ==
  /\ ~configured /\ configured' = TRUE
  /\ UNCHANGED <<mfa, tokens, spent, app, path, mount, formVars, reqs, issued, history>>

(***************************************************************************)
(* Answers                                                                 *)
(***************************************************************************)

CaptchaLoaded(r) ==
  /\ r.answer = "captcha" /\ reqs' = reqs \ {r}
  /\ captcha' = IF Mounted(r) THEN r.n ELSE captcha
  /\ UNCHANGED <<server, app, path, mount, username, challenge, codes, submitting, passkey, issued, history>>

CaptchaFailed(r) ==
  /\ r.kind = "captcha" /\ r.answer = "failed" /\ reqs' = reqs \ {r} /\ unloaded' = TRUE
  /\ UNCHANGED <<server, app, path, mount, formVars, issued, enrolled, seen, overlap, losses>>

(* Mutant: the flags are only reset by leaving. *)
IdleNever(r) == UNCHANGED <<submitting, passkey>>

(* The flow's busy flag, which its finally clause resets. *)
Idle(r) ==
  /\ submitting' = (submitting /\ (r.kind = "passkey" \/ ~Mounted(r)))
  /\ passkey' = (passkey /\ (r.kind # "passkey" \/ ~Mounted(r)))

(* A challenge is shown instead of the password form, and no captcha. *)
Challenged(r) ==
  /\ r.answer = "challenge" /\ reqs' = reqs \ {r}
  /\ challenge' = IF Mounted(r) THEN [account |-> r.account, token |-> r.token, setup |-> r.setup] ELSE challenge
  /\ captcha' = IF Mounted(r) THEN 0 ELSE captcha
  /\ Idle(r)
  /\ UNCHANGED <<server, app, path, mount, username, codes, issued, history>>

(* Mutant: the user is set as soon as the codes are there. *)
UserWithCodesSet(account) == account

(* The user is only set once the codes are confirmed. *)
UserWithCodes(account) == auth

CodesShown(r) ==
  /\ r.answer = "codes" /\ reqs' = reqs \ {r} /\ session' = r.account
  /\ auth' = UserWithCodes(r.account)
  /\ IF GateFor(auth') # path
       THEN Leave
       ELSE /\ codes' = IF Mounted(r) THEN r.account ELSE codes
            /\ Idle(r) /\ UNCHANGED <<path, mount, username, challenge, captcha>>
  /\ UNCHANGED <<server, known, me, issued, history>>

(* Mutant: the name in the form is taken for the account. *)
SignedInAsTyped(r) == username

SignedInAs(r) == r.account

(* setAuthenticatedUser; app.refresh and finishSignIn follow. *)
SignedIn(r) ==
  /\ r.answer = "user" /\ r.phase = "served" /\ reqs' = To(r, "refresh")
  /\ session' = r.account /\ auth' = SignedInAs(r) /\ known' = TRUE
  /\ IF GateFor(auth') # path THEN Leave ELSE UNCHANGED <<path, mount, formVars>>
  /\ UNCHANGED <<server, me, issued, history>>

(* continueAfterRecoveryCodes. *)
ContinueAfterRecoveryCodes ==
  /\ path = "login" /\ codes # "none"
  /\ auth' = codes /\ known' = TRUE /\ seen' = seen \cup {codes}
  /\ Leave
  /\ UNCHANGED <<server, session, me, reqs, issued, enrolled, overlap, unloaded, losses>>

(* finishSignIn, also when the page that asked is gone. *)
FinishSignIn(r) ==
  /\ r.phase = "refresh" /\ known' = configured /\ UNCHANGED auth
  /\ IF path = "login" THEN Leave ELSE UNCHANGED <<path, mount, formVars>>
  /\ LET again == IF Captcha /\ path = "login" /\ path' = "login"
                  THEN {[Asked(issued + 1) EXCEPT !.mount = mount + 1]} ELSE {} IN
       /\ again # {} => issued < MaxRequests
       /\ reqs' = (reqs \ {r}) \cup again /\ issued' = issued + Cardinality(again)
  /\ UNCHANGED <<server, session, me, history>>

(* Mutant: no captcha is loaded after a failure. *)
AfterFailureNone(r) == {}

(* onSubmit loads another captcha after a failure, by what was on display. *)
AfterFailure(r) ==
  IF r.kind = "login" /\ Captcha /\ Mounted(r) THEN {Asked(issued + 1)} ELSE {}

Failed(r) ==
  /\ r.kind \in SignIns /\ r.answer = "failed"
  /\ AfterFailure(r) # {} => issued < MaxRequests
  /\ reqs' = (reqs \ {r}) \cup AfterFailure(r)
  /\ issued' = issued + Cardinality(AfterFailure(r))
  /\ Idle(r)
  /\ UNCHANGED <<server, app, path, mount, username, challenge, captcha, codes, history>>

(* The page is loaded again: form, codes and requests are gone, except     *)
(* for the cookie of an answer that is there; the user is the session's.   *)
(* No request is left that the login page's number must tell apart.        *)
Reload ==
  /\ issued < MaxRequests /\ issued' = issued + 1
  /\ session' \in {session} \cup {r.account : r \in {q \in reqs : q.phase = "served" /\ q.answer \in {"user", "codes"}}}
  /\ auth' = session' /\ me' = NoMe /\ known' = configured
  /\ path' = IF auth' = "none" \/ (Reauth /\ path = "login") THEN "login" ELSE "app"
  /\ challenge' = NoChallenge /\ captcha' = 0 /\ codes' = "none"
  /\ submitting' = FALSE /\ passkey' = FALSE
  /\ reqs' = IF Captcha /\ configured /\ path' = "login" THEN {Asked(issued + 1)} ELSE {}
  /\ unshown' = unshown \cup ({codes} \ {"none"}) \cup {r.account : r \in {q \in reqs : q.answer = "codes"}}
  /\ UNCHANGED <<server, username, mount, enrolled, seen, overlap, unloaded, strayed>>

(***************************************************************************)
(* The console                                                             *)
(***************************************************************************)

(* handleLogout; the cookie goes when the request succeeds.  In any case   *)
(* onSettled removes the user and auth-me is asked again.                  *)
Logout(ok) ==
  /\ path = "app" /\ auth # "none" /\ issued < MaxRequests /\ issued' = issued + 1
  /\ session' = IF ok THEN "none" ELSE session
  /\ auth' = "none" /\ me' = [phase |-> "asked", user |-> "none"]
  /\ UNCHANGED <<server, known, path, mount, formVars, reqs, history>>

(* handleMe. *)
ServeMe ==
  /\ me.phase = "asked" /\ me' = [phase |-> "served", user |-> session]
  /\ UNCHANGED <<server, session, known, auth, path, mount, formVars, reqs, issued, history>>

(* The answer to auth-me; without a user ConsoleGate goes to the login page. *)
MeLoaded ==
  /\ me.phase = "served" /\ me' = NoMe
  /\ auth' = IF me.user = "none" THEN auth ELSE me.user
  /\ path' = IF auth' = "none" THEN "login" ELSE path
  /\ IF path' = "login" /\ path = "app"
       THEN Effect(FALSE) /\ UNCHANGED <<username, challenge, codes, submitting, passkey>>
       ELSE UNCHANGED <<formVars, reqs, issued>>
  /\ UNCHANGED <<server, session, known, mount, history>>

Next ==
  \/ Submit \/ StartPasskeyLogin \/ BackToPassword \/ RefreshCaptcha \/ OtherSetup
  \/ ContinueAfterRecoveryCodes \/ ServeMe \/ MeLoaded \/ Reload
  \/ \E a \in Accounts : TypeUsername(a)
  \/ \E ok \in BOOLEAN : Logout(ok)
  \/ \E r \in reqs :
       \/ ServeCaptcha(r) \/ ServeLogin(r) \/ ServeSetup(r) \/ ServeMfa(r) \/ Refuse(r)
       \/ LoseAnswer(r)
       \/ CaptchaLoaded(r) \/ CaptchaFailed(r) \/ Challenged(r) \/ CodesShown(r)
       \/ SignedIn(r) \/ FinishSignIn(r) \/ Failed(r)

Spec == Init /\ [][Next]_vars

(***************************************************************************)
(* Properties                                                              *)
(***************************************************************************)

(* The user the application shows is the one of the session, unless two    *)
(* sign-ins overlapped or the session came with an answer that was lost:   *)
(* late answers, signing out and a change of the name in the form do not   *)
(* part them.                                                              *)
AuthIsSession ==
  auth # "none" /\ ~overlap /\ me.phase = "none" /\ codes = "none" => auth = session \/ session = strayed

(* An account that enrolled while it signed in is not in the console       *)
(* before its recovery codes were confirmed, unless two sign-ins           *)
(* overlapped, the answer with the codes was lost or the page was loaded   *)
(* again before they were confirmed: then they are never shown.            *)
CodesSeenInTurn == path = "app" /\ auth \in enrolled /\ ~overlap => auth \in seen \cup unshown

(* The captcha on display has not been consumed, once the requests of the  *)
(* form are over and none of its captchas failed to load.                  *)
CaptchaUsable ==
  Form /\ Captcha /\ known /\ challenge = NoChallenge /\ reqs = {} /\ ~unloaded /\ auth = "none" =>
    captcha # 0 /\ captcha \notin spent

(* The buttons are disabled exactly while their flow is under way, also    *)
(* when the user goes back from the challenge in the middle of it.         *)
BusyIsTrue ==
  /\ submitting <=> \E r \in Pending : Mounted(r) /\ r.kind # "passkey"
  /\ passkey <=> \E r \in Pending : Mounted(r) /\ r.kind = "passkey"

=============================================================================
