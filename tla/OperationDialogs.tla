-------------------------- MODULE OperationDialogs --------------------------
(***************************************************************************)
(* The dialogs a page opens for an operation on its collection             *)
(* (ResourceOperationDialog) and the command dialog of the access page.    *)
(* A page has one slot for a dialog; a request outlives the dialog that    *)
(* made it, and its continuation still runs when the dialog is gone or     *)
(* another one is in the slot.                                             *)
(*                                                                         *)
(* The dialogs share one discipline, with the differences that the records *)
(* below state, each read from one component:                              *)
(*   asks      the page a dialog belongs to                                *)
(*   blank     the form opens incomplete: the button waits for an edit     *)
(*   loads     it only reads, once when it mounts and on its button        *)
(*   resets    submitting removes the result on display                    *)
(*   edits     editing removes the result on display                       *)
(*   keeps     the answer is shown as the result                           *)
(*   closes    onClose is called after the refresh                         *)
(*   code      a refusal may ask for an MFA code, and is itself a result   *)
(***************************************************************************)
EXTENDS Naturals, Sequences, FiniteSets

CONSTANTS Kinds,          \* the operations the page offers
          MaxRequests     \* bound on the requests of one behaviour

Plain == [asks |-> "console", blank |-> FALSE, loads |-> FALSE, resets |-> FALSE,
          edits |-> FALSE, keeps |-> FALSE, closes |-> FALSE, code |-> FALSE]

(* AssetImportDialog and UserImportDialog open with a sample. *)
AssetImport == [Plain EXCEPT !.resets = TRUE, !.edits = TRUE, !.keeps = TRUE]
UserImport == [Plain EXCEPT !.resets = TRUE, !.edits = TRUE, !.keeps = TRUE]

(* BulkAuthorizeDialog has the targets and waits for the subjects. *)
BulkAuthorize == [Plain EXCEPT !.blank = TRUE, !.keeps = TRUE]

CertificateCreate == [Plain EXCEPT !.blank = TRUE, !.closes = TRUE]
CertificateUpload == [Plain EXCEPT !.blank = TRUE, !.closes = TRUE]
CertificateMTLS == [Plain EXCEPT !.closes = TRUE]

(* CertificateACMEDialog: the certificate issued last stays on display     *)
(* while another one is asked for.                                         *)
CertificateACME == [Plain EXCEPT !.blank = TRUE, !.keeps = TRUE]

CertificateLogs == [Plain EXCEPT !.loads = TRUE, !.keeps = TRUE]
TaskLogs == [Plain EXCEPT !.loads = TRUE, !.keeps = TRUE]

(* SSHExecDialog: a refused command is shown with the rule that refused it. *)
SSHExec == [Plain EXCEPT !.asks = "access", !.keeps = TRUE, !.code = TRUE]

(* ResourceOperationDialog: the component of each operation. *)
Dialogs ==
  [asset_import |-> AssetImport, user_import |-> UserImport, bulk_authorize |-> BulkAuthorize,
   certificate_create |-> CertificateCreate, certificate_upload |-> CertificateUpload,
   certificate_acme |-> CertificateACME, certificate_mtls |-> CertificateMTLS,
   certificate_logs |-> CertificateLogs, task_logs |-> TaskLogs, ssh_exec |-> SSHExec]

(* What the values of the constants satisfy. *)
ConstantsOK == Kinds \subseteq DOMAIN Dialogs /\ MaxRequests \in Nat

VARIABLES
  page,      \* "console" or "access"
  allowed,   \* canUsePath for the operations of the page
  slot,      \* the dialog in the slot, with its mount number
  filled,    \* its form is complete
  busy,      \* saving or running
  result,    \* the answer on display: the request it came with, 0 for none
  reqs,      \* requests whose continuation has not ended
  issued,    \* requests so far
  sent,      \* history: the mount of every request, by number
  acked,     \* history: the newest write the page was told of
  store,     \* number of writes to the server's data
  rows,      \* the writes the page's bootstrap data has seen
  fetch      \* the bootstrap request under way

dialogVars == <<slot, filled, busy, result>>
serverVars == <<store, rows, fetch, acked>>
counters == <<issued, sent>>
vars == <<page, allowed, dialogVars, reqs, counters, serverVars>>

None == [kind |-> "none", mount |-> 0]
NoFetch == [phase |-> "none", seen |-> 0]
Phases == {"sent", "ok", "refused", "failed", "code", "again", "refresh", "fetching", "close", "end"}

TypeOK ==
  /\ page \in {"console", "access"} /\ allowed \in BOOLEAN
  /\ slot \in {None} \cup [kind : Kinds, mount : 1 .. MaxRequests + 1]
  /\ filled \in BOOLEAN /\ busy \in BOOLEAN
  /\ result \in 0 .. issued
  /\ issued \in 0 .. MaxRequests /\ DOMAIN sent = 1 .. issued
  /\ reqs \subseteq [n : 1 .. issued, kind : Kinds, mount : 1 .. MaxRequests + 1,
                     phase : Phases, wrote : 0 .. store]
  /\ rows \in 0 .. store /\ acked \in 0 .. store
  /\ fetch \in [phase : {"none", "asked", "served"}, seen : 0 .. store]

Init ==
  /\ page \in {"console", "access"} /\ allowed \in BOOLEAN
  /\ slot = None /\ filled = FALSE /\ busy = FALSE /\ result = 0
  /\ reqs = {} /\ issued = 0 /\ sent = <<>>
  /\ store = 0 /\ rows = 0 /\ fetch = NoFetch /\ acked = 0

Kind(r) == Dialogs[r.kind]
Mounted(r) == slot.mount = r.mount
To(r, phase) == (reqs \ {r}) \cup {[r EXCEPT !.phase = phase]}

NewRequest(dialog) ==
  [n |-> issued + 1, kind |-> dialog.kind, mount |-> dialog.mount, phase |-> "sent", wrote |-> 0]

(***************************************************************************)
(* The dialog                                                              *)
(***************************************************************************)

(* onOperation: a header or row button opens a dialog in the empty slot.   *)
(* Its state starts afresh; a log dialog loads at once.                    *)
Open(kind) ==
  /\ slot = None /\ Dialogs[kind].asks = page /\ issued < MaxRequests
  /\ allowed
  /\ LET dialog == [kind |-> kind, mount |-> issued + 1] IN
       /\ slot' = dialog /\ filled' = ~Dialogs[kind].blank
       /\ busy' = FALSE /\ result' = 0
       /\ IF Dialogs[kind].loads
            THEN /\ reqs' = reqs \cup {NewRequest(dialog)} /\ issued' = issued + 1
                 /\ sent' = Append(sent, issued + 1)
            ELSE UNCHANGED <<reqs, issued, sent>>
  /\ UNCHANGED <<page, allowed, serverVars>>

(* Cancel, close or a click outside, also while a request is under way. *)
Dismiss ==
  /\ slot # None
  /\ slot' = None
  /\ UNCHANGED <<page, allowed, filled, busy, result, reqs, counters, serverVars>>

(* A field changes.  Nothing disables the fields during a request. *)
Edit ==
  /\ slot # None /\ ~Dialogs[slot.kind].loads
  /\ filled' = TRUE
  /\ result' = (IF Dialogs[slot.kind].edits THEN 0 ELSE result)
  /\ UNCHANGED <<page, allowed, slot, busy, reqs, issued, sent, serverVars>>

(* Mutant: the result of the last submission stays on display. *)
SubmitKeepingResult ==
  /\ slot # None /\ allowed /\ filled /\ issued < MaxRequests
  /\ ~busy
  /\ reqs' = reqs \cup {NewRequest(slot)} /\ issued' = issued + 1
  /\ sent' = Append(sent, slot.mount)
  /\ busy' = ~Dialogs[slot.kind].loads
  /\ UNCHANGED <<page, allowed, slot, filled, result, serverVars>>

(* submit, execute and load up to their first await.  The button of a log  *)
(* dialog is not disabled while it loads.                                  *)
Submit ==
  /\ slot # None /\ allowed /\ filled /\ issued < MaxRequests
  /\ ~busy
  /\ reqs' = reqs \cup {NewRequest(slot)} /\ issued' = issued + 1
  /\ sent' = Append(sent, slot.mount)
  /\ busy' = ~Dialogs[slot.kind].loads
  /\ result' = (IF Dialogs[slot.kind].resets THEN 0 ELSE result)
  /\ UNCHANGED <<page, allowed, slot, filled, serverVars>>

(* Mutant: the answer is put on display in whatever dialog is open. *)
ShownAnywhere(r) == IF Kind(r).keeps THEN r.n ELSE result

(* setSummary, setIssued, setResult and setLogs: React drops the update of *)
(* a component that is gone.                                               *)
Shown(r) == IF Kind(r).keeps /\ Mounted(r) THEN r.n ELSE result

Told(r) == IF ~Kind(r).loads /\ r.wrote > acked THEN r.wrote ELSE acked

(* The answer is there.  A log dialog shows it and is done; the others     *)
(* show it if they keep it, and refresh.                                   *)
Succeeded(r) ==
  /\ r.phase = "ok"
  /\ result' = Shown(r)
  /\ reqs' = To(r, IF Kind(r).loads THEN "end" ELSE "refresh")
  /\ acked' = Told(r)
  /\ UNCHANGED <<page, allowed, slot, filled, busy, counters, store, rows, fetch>>

(* 403: the command dialog shows the refusal as a result and refreshes;    *)
(* the others only report it.                                              *)
Refused(r) ==
  /\ r.phase = "refused"
  /\ result' = (IF Kind(r).code THEN Shown(r) ELSE result)
  /\ reqs' = To(r, IF Kind(r).code THEN "refresh" ELSE "end")
  /\ acked' = (IF Kind(r).code THEN Told(r) ELSE acked)
  /\ UNCHANGED <<page, allowed, slot, filled, busy, counters, store, rows, fetch>>

(* handleApiError: a toast. *)
Failed(r) ==
  /\ r.phase = "failed"
  /\ reqs' = To(r, "end")
  /\ UNCHANGED <<page, allowed, dialogVars, counters, serverVars>>

(* The user enters the MFA code: the command is sent again with it. *)
GiveCode(r) ==
  /\ r.phase = "code"
  /\ reqs' = To(r, "again")
  /\ UNCHANGED <<page, allowed, dialogVars, counters, serverVars>>

(* Mutant: the early return skips the finally block. *)
CancelCodeStuck(r) ==
  /\ r.phase = "code"
  /\ reqs' = reqs \ {r}
  /\ UNCHANGED <<page, allowed, dialogVars, counters, serverVars>>

(* The prompt is cancelled, or another one replaces it: execute returns. *)
CancelCode(r) ==
  /\ r.phase = "code"
  /\ reqs' = To(r, "end")
  /\ UNCHANGED <<page, allowed, dialogVars, counters, serverVars>>

(* onClose sets the page's operation to null, whatever dialog is open. *)
CloseSlot(r) ==
  /\ r.phase = "close"
  /\ slot' = None /\ reqs' = To(r, "end")
  /\ UNCHANGED <<page, allowed, filled, busy, result, counters, serverVars>>

(* Mutant: the flag belongs to the page and not to the dialog. *)
IdleAnyway(r) == FALSE

(* setSaving(false), or setRunning(false), of the component that asked. *)
Idle(r) == busy /\ ~Mounted(r)

End(r) ==
  /\ r.phase = "end"
  /\ busy' = Idle(r) /\ reqs' = reqs \ {r}
  /\ UNCHANGED <<page, allowed, slot, filled, result, counters, serverVars>>

(***************************************************************************)
(* The bootstrap query                                                     *)
(***************************************************************************)

Next1(r) == IF Kind(r).closes THEN "close" ELSE "end"

(* refresh invalidates the bootstrap query: the fetch under way is         *)
(* cancelled, and those that waited for it go on.                          *)
Resumed(rs) == {IF q.phase = "fetching" THEN [q EXCEPT !.phase = Next1(q)] ELSE q : q \in rs}

(* Mutant: a fetch under way is taken for the one that was asked for. *)
RefetchShared(r) ==
  /\ r.phase = "refresh"
  /\ fetch' = (IF fetch.phase = "none" THEN [phase |-> "asked", seen |-> 0] ELSE fetch)
  /\ reqs' = (reqs \ {r}) \cup {[r EXCEPT !.phase = "fetching"]}
  /\ UNCHANGED <<page, allowed, dialogVars, counters, store, rows, acked>>

Refetch(r) ==
  /\ r.phase = "refresh"
  /\ fetch' = [phase |-> "asked", seen |-> 0]
  /\ reqs' = Resumed(reqs \ {r}) \cup {[r EXCEPT !.phase = "fetching"]}
  /\ UNCHANGED <<page, allowed, dialogVars, counters, store, rows, acked>>

BootstrapServed ==
  /\ fetch.phase = "asked"
  /\ fetch' = [phase |-> "served", seen |-> store]
  /\ UNCHANGED <<page, allowed, dialogVars, reqs, counters, store, rows, acked>>

BootstrapArrives ==
  /\ fetch.phase = "served"
  /\ fetch' = NoFetch /\ rows' = fetch.seen
  /\ reqs' = Resumed(reqs)
  /\ UNCHANGED <<page, allowed, dialogVars, counters, store, acked>>

(***************************************************************************)
(* The server                                                              *)
(***************************************************************************)

(* The operation is carried out, or the logs are read. *)
Serve(r) ==
  /\ r.phase \in {"sent", "again"}
  /\ store' = (IF Kind(r).loads THEN store ELSE store + 1)
  /\ reqs' = (reqs \ {r}) \cup {[r EXCEPT !.phase = "ok", !.wrote = store']}
  /\ UNCHANGED <<page, allowed, dialogVars, counters, rows, fetch, acked>>

(* It is refused with 403, which for a command is recorded. *)
Refuse(r) ==
  /\ r.phase \in {"sent", "again"}
  /\ store' = (IF Kind(r).code THEN store + 1 ELSE store)
  /\ reqs' = (reqs \ {r}) \cup {[r EXCEPT !.phase = "refused", !.wrote = store']}
  /\ UNCHANGED <<page, allowed, dialogVars, counters, rows, fetch, acked>>

(* The request fails, or is carried out and its answer is lost. *)
Fail(r) ==
  /\ r.phase \in {"sent", "again"}
  /\ reqs' = To(r, "failed")
  /\ store' \in (IF Kind(r).loads THEN {store} ELSE {store, store + 1})
  /\ UNCHANGED <<page, allowed, dialogVars, counters, rows, fetch, acked>>

(* The first attempt at a command is answered with a demand for a code. *)
AskCode(r) ==
  /\ r.phase = "sent" /\ Kind(r).code
  /\ reqs' = To(r, "code")
  /\ UNCHANGED <<page, allowed, dialogVars, counters, serverVars>>

Answer(r) == Serve(r) \/ Refuse(r) \/ Fail(r)
Continue(r) == Succeeded(r) \/ Refused(r) \/ Failed(r) \/ CloseSlot(r) \/ End(r) \/ Refetch(r)

Next ==
  \/ Dismiss \/ Edit \/ Submit \/ BootstrapServed \/ BootstrapArrives
  \/ \E kind \in Kinds : Open(kind)
  \/ \E r \in reqs : Answer(r) \/ AskCode(r) \/ GiveCode(r) \/ CancelCode(r) \/ Continue(r)

(* The network answers every request, and the page's continuations run. *)
Fairness ==
  /\ WF_vars(\E r \in reqs : Answer(r)) /\ WF_vars(\E r \in reqs : Continue(r))
  /\ WF_vars(BootstrapServed) /\ WF_vars(BootstrapArrives)

Spec == Init /\ [][Next]_vars
FairSpec == Spec /\ Fairness

(***************************************************************************)
(* Properties                                                              *)
(***************************************************************************)

(* What a dialog shows was answered to itself: an answer that arrives      *)
(* after the dialog was closed is never shown in the one opened since.     *)
ResultIsOwn == slot # None /\ result # 0 => sent[result] = slot.mount

(* The summary of an import never belongs to an earlier attempt: when the  *)
(* dialog is idle it is that of the last one, and there is none when that  *)
(* one failed.                                                             *)
SummaryOfLastAttempt ==
  slot # None /\ Dialogs[slot.kind].resets /\ result # 0 =>
    \A n \in DOMAIN sent : sent[n] = slot.mount => n <= result

(* A dialog whose button is disabled while it saves has one request at a   *)
(* time, whatever requests of closed dialogs end meanwhile.                *)
OneRequestPerDialog ==
  \A q, r \in reqs : q.mount = r.mount /\ ~Kind(q).loads => q = r

(* When no request is under way the page's rows are as new as every        *)
(* operation it was told the success of, although overlapping refreshes    *)
(* cancel each other.                                                      *)
SettledRowsFresh == reqs = {} => rows >= acked
=============================================================================
