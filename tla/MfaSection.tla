----------------------------- MODULE MfaSection -----------------------------
(***************************************************************************)
(* Two-factor authentication on the settings page: set-up, enabling,       *)
(* disabling and new recovery codes.  Recovery codes leave the server once,*)
(* in the answer that creates them; the page is the only place they can be *)
(* read from.  All handlers share one busy flag and load the status again. *)
(***************************************************************************)
EXTENDS Naturals

CONSTANT MaxRequests    \* bound on the requests of one behaviour

(* What the values of the constants satisfy. *)
ConstantsOK == MaxRequests \in Nat

VARIABLES
  on, codes,     \* the server: enabled, and the number of the current codes
  status,        \* mfaStatus
  setup,         \* mfaSetup: the secret of an enrolment is on display
  code,          \* mfaCode is filled in
  shown,         \* mfaRecoveryCodes: the codes on display, 0 for none
  busy, reqs, issued,
  unseen,        \* history: codes that arrived and were never on display
  disturbed      \* history: a request failed or overlapped, or another tab acted

server == <<on, codes>>
page == <<status, setup, code, shown>>
history == <<unseen, disturbed>>
vars == <<server, page, busy, reqs, issued, history>>

Ops == {"mount", "setup", "enable", "disable", "regenerate"}

TypeOK ==
  /\ on \in BOOLEAN /\ codes \in Nat /\ status \in {"unknown", "on", "off"}
  /\ setup \in BOOLEAN /\ code \in BOOLEAN /\ busy \in BOOLEAN
  /\ shown \in 0 .. codes /\ issued \in 0 .. MaxRequests
  /\ reqs \subseteq [op : Ops, phase : {"sent", "done", "status", "served"},
                     new : 0 .. codes, on : BOOLEAN]

Init ==
  /\ on \in BOOLEAN /\ codes = (IF on THEN 1 ELSE 0)
  /\ status = "unknown" /\ setup = FALSE /\ code = FALSE /\ shown = 0
  /\ busy = FALSE /\ issued = 0
  /\ reqs = {[op |-> "mount", phase |-> "status", new |-> 0, on |-> FALSE]}
  /\ unseen = {} /\ disturbed = FALSE

To(r, phase) == (reqs \ {r}) \cup {[r EXCEPT !.phase = phase]}

(***************************************************************************)
(* The user                                                                *)
(***************************************************************************)

Send(op) ==
  /\ ~busy /\ issued < MaxRequests
  /\ busy' = TRUE /\ issued' = issued + 1
  /\ reqs' = reqs \cup {[op |-> op, phase |-> "sent", new |-> 0, on |-> FALSE]}
  /\ disturbed' = (disturbed \/ reqs # {})
  /\ UNCHANGED <<server, page, unseen>>

(* The panel shows the enrolment, or the buttons of an enabled account,    *)
(* or the set-up button.                                                   *)
StartMFASetup == ~setup /\ status # "on" /\ Send("setup")
EnableMFA == setup /\ code /\ Send("enable")
DisableMFA == ~setup /\ status = "on" /\ code /\ Send("disable")
RegenerateMFARecoveryCodes == ~setup /\ status = "on" /\ code /\ Send("regenerate")

TypeCode ==
  /\ ~code /\ (setup \/ status = "on") /\ code' = TRUE
  /\ UNCHANGED <<server, status, setup, shown, busy, reqs, issued, history>>

CancelSetup ==
  /\ setup /\ ~busy /\ setup' = FALSE
  /\ UNCHANGED <<server, status, code, shown, busy, reqs, issued, history>>

(***************************************************************************)
(* The server                                                              *)
(***************************************************************************)

(* mfa/setup, enable, disable and recovery-codes.  A code that is wrong is *)
(* a failure; so is disabling what is not enabled.                         *)
Serve(r) ==
  /\ r.phase = "sent" /\ (on \/ r.op \notin {"disable", "regenerate"})
  /\ on' = (CASE r.op = "enable" -> TRUE [] r.op = "disable" -> FALSE [] OTHER -> on)
  /\ codes' = (IF r.op \in {"enable", "regenerate"} THEN codes + 1 ELSE codes)
  /\ reqs' = (reqs \ {r}) \cup
       {[r EXCEPT !.phase = "done", !.new = IF r.op \in {"enable", "regenerate"} THEN codes' ELSE 0]}
  /\ UNCHANGED <<page, busy, issued, history>>

ServeStatus(r) ==
  /\ r.phase = "status"
  /\ reqs' = (reqs \ {r}) \cup {[r EXCEPT !.phase = "served", !.on = on]}
  /\ UNCHANGED <<server, page, busy, issued, history>>

(* The same user, in another tab, makes new codes or disables. *)
OtherTab ==
  /\ on /\ issued < MaxRequests /\ issued' = issued + 1
  /\ \/ codes' = codes + 1 /\ on' = on
     \/ on' = FALSE /\ UNCHANGED codes
  /\ disturbed' = TRUE
  /\ UNCHANGED <<page, busy, reqs, unseen>>

(***************************************************************************)
(* The handlers                                                            *)
(***************************************************************************)

SetupStarted(r) ==
  /\ r.op = "setup" /\ r.phase = "done"
  /\ setup' = TRUE /\ code' = FALSE /\ busy' = FALSE
  /\ reqs' = reqs \ {r}
  /\ UNCHANGED <<server, status, shown, issued, history>>

(* Mutant: disabling leaves the codes on display. *)
CodesAfterAnswerKept(r) == IF r.op = "regenerate" THEN r.new ELSE shown

(* The codes on display while the status is loaded: enabling shows the new *)
(* ones only after that.                                                   *)
CodesAfterAnswer(r) ==
  CASE r.op = "disable" -> 0 [] r.op = "regenerate" -> r.new [] OTHER -> shown

Answered(r) ==
  /\ r.op \in {"enable", "disable", "regenerate"} /\ r.phase = "done"
  /\ setup' = (setup /\ r.op = "regenerate") /\ code' = FALSE
  /\ shown' = CodesAfterAnswer(r)
  /\ unseen' = (unseen \cup {r.new}) \ {0, shown'}
  /\ reqs' = To(r, "status")
  /\ UNCHANGED <<server, status, busy, issued, disturbed>>

(* Mutant: the status that was known is kept. *)
NewStatusKept(r) == IF status = "unknown" THEN "off" ELSE status

NewStatus(r) == IF r.on THEN "on" ELSE "off"

CodesAtEnd(r) == IF r.op = "enable" THEN r.new ELSE shown

(* loadMFAStatus is done: the handler ends. *)
StatusLoaded(r) ==
  /\ r.phase = "served"
  /\ status' = NewStatus(r)
  /\ shown' = CodesAtEnd(r) /\ unseen' = unseen \ {shown'}
  /\ reqs' = reqs \ {r} /\ busy' = (busy /\ r.op = "mount")
  /\ UNCHANGED <<server, setup, code, issued, disturbed>>

(* A request fails, before or after the server has acted on it. *)
Fail(r) ==
  /\ reqs' = reqs \ {r} /\ busy' = (busy /\ r.op = "mount")
  /\ disturbed' = TRUE
  /\ UNCHANGED <<server, page, issued, unseen>>

Next ==
  \/ StartMFASetup \/ EnableMFA \/ DisableMFA \/ RegenerateMFARecoveryCodes
  \/ TypeCode \/ CancelSetup \/ OtherTab
  \/ \E r \in reqs : Serve(r) \/ ServeStatus(r) \/ SetupStarted(r) \/ Answered(r) \/ StatusLoaded(r) \/ Fail(r)

Spec == Init /\ [][Next]_vars

(***************************************************************************)
(* Properties                                                              *)
(***************************************************************************)

AtRest == ~\E r \in reqs : r.op # "mount"

(* Recovery codes that the page displays are the ones that work, once the  *)
(* page is at rest and nothing went wrong: not those of an account that    *)
(* was disabled meanwhile, nor the ones before the last.                   *)
ShownCodesWork == AtRest /\ ~disturbed /\ shown # 0 => on /\ shown = codes

(* The panel offers what the server's state calls for: enabling when off,  *)
(* disabling and new codes when on.                                        *)
StatusIsStored == AtRest /\ ~disturbed /\ status # "unknown" => (status = "on") = on

(* Codes that reached the page are displayed, at the latest when their     *)
(* handler has ended: nothing can show them again.                         *)
CodesWereShown == AtRest => unseen = {}
=============================================================================
