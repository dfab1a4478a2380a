----------------------------- MODULE Approvals -----------------------------
(***************************************************************************)
(* One SQL work order or command approval: the server's handlers that      *)
(* decide and execute it (command_approvals.go, resource_ops.go), and the  *)
(* console pages whose row buttons open the decision and execute dialogs   *)
(* (ResourceRowActions, SQLWorkOrderDecisionDialog, SQLExecuteDialog and   *)
(* their command_approvals twins).                                         *)
(*                                                                         *)
(* A handler reads the order, and acts on that copy: the store neither     *)
(* locks the order nor compares its status when the copy is written back.  *)
(***************************************************************************)
EXTENDS Naturals, FiniteSets

CONSTANTS Consoles,      \* pages that show the order, one per signed-in user
          MaxRequests    \* bound on the requests of one behaviour

(* What the values of the constants satisfy. *)
ConstantsOK == MaxRequests \in Nat

VARIABLES
  kind,        \* "sql" or "command"
  status,      \* the order's stored status
  decided,     \* which of approved_by and rejected_by its metadata holds
  report,      \* what its metadata says of a run
  version,     \* number of times the order was written
  ran,         \* number of times the statement or command ran
  row,         \* row[c]: status and version of the order in c's page data
  fetch,       \* fetch[c]: the bootstrap request of c
  dialog,      \* dialog[c]: the open operation of c, with its mount number
  busy,        \* busy[c]: saving or running of the open dialog
  reqs,        \* requests that have not returned to their handler
  issued,      \* requests made so far
  raced,       \* history: two handlers held the order together, or a write failed
  answered     \* history: decisions that were answered with success

orderVars == <<kind, status, decided, report, version, ran>>
pageVars == <<row, fetch, dialog, busy>>
history == <<raced, answered>>
vars == <<orderVars, pageVars, reqs, issued, history>>

Decisions == {"approve", "reject"}
Ends == {"executed", "failed", "denied"}
Reports == {"none", "done", "error"}
Statuses == {"pending", "approved", "rejected"} \cup Ends
Nobody == [op |-> "none", mount |-> 0]
NoFetch == [phase |-> "none", status |-> "pending", version |-> 0]

Order == [status |-> status, decided |-> decided, report |-> report]

Requests == [id : 1 .. MaxRequests, by : Consoles, mount : 0 .. MaxRequests,
             op : Decisions \cup {"execute"},
             phase : {"sent", "code", "held", "written", "ran", "ok", "error", "refresh", "fetching", "done"},
             copy : [status : Statuses, decided : {"none", "approved", "rejected"}, report : Reports],
             outcome : Ends, wrote : Nat]

TypeOK ==
  /\ kind \in {"sql", "command"} /\ status \in Statuses
  /\ decided \in {"none", "approved", "rejected"} /\ report \in Reports
  /\ version \in Nat /\ ran \in 0 .. MaxRequests
  /\ row \in [Consoles -> [status : Statuses, version : Nat]]
  /\ fetch \in [Consoles -> [phase : {"none", "asked", "served"}, status : Statuses, version : Nat]]
  /\ dialog \in [Consoles -> [op : Decisions \cup {"none", "execute"}, mount : Nat]]
  /\ busy \in [Consoles -> BOOLEAN]
  /\ reqs \subseteq Requests /\ issued \in 0 .. MaxRequests
  /\ raced \in BOOLEAN /\ answered \subseteq {"approved", "rejected"}

Init ==
  /\ kind \in {"sql", "command"} /\ status = "pending" /\ decided = "none" /\ report = "none"
  /\ version = 0 /\ ran = 0
  /\ row = [c \in Consoles |-> [status |-> "pending", version |-> 0]]
  /\ fetch = [c \in Consoles |-> NoFetch]
  /\ dialog = [c \in Consoles |-> Nobody]
  /\ busy = [c \in Consoles |-> FALSE]
  /\ reqs = {} /\ issued = 0
  /\ raced = FALSE /\ answered = {}

(***************************************************************************)
(* The console                                                             *)
(***************************************************************************)

(* The buttons of a row, from the status the page last read. *)
RowButtons(st) ==
  CASE st = "pending"  -> Decisions
    [] st = "approved" -> {"execute"}
    [] OTHER -> {}

(* onOperation: a new dialog is mounted.  A dialog covers the page, so     *)
(* another one is opened only when none is.                                *)
OpenDialog(c, op) ==
  /\ dialog[c] = Nobody /\ issued < MaxRequests
  /\ op \in RowButtons(row[c].status)
  /\ dialog' = [dialog EXCEPT ![c] = [op |-> op, mount |-> issued + 1]]
  /\ busy' = [busy EXCEPT ![c] = FALSE]
  /\ UNCHANGED <<orderVars, row, fetch, reqs, issued, history>>

(* Cancel, or a click outside: also while the request is under way. *)
DismissDialog(c) ==
  /\ dialog[c] # Nobody
  /\ dialog' = [dialog EXCEPT ![c] = Nobody]
  /\ UNCHANGED <<orderVars, row, fetch, busy, reqs, issued, history>>

NewRequest(c) ==
  [id |-> issued + 1, by |-> c, mount |-> dialog[c].mount, op |-> dialog[c].op,
   phase |-> "sent", copy |-> Order, outcome |-> "failed", wrote |-> 0]

(* submit and execute up to their first await. *)
Submit(c) ==
  /\ dialog[c] # Nobody /\ ~busy[c] /\ issued < MaxRequests
  /\ issued' = issued + 1 /\ reqs' = reqs \cup {NewRequest(c)}
  /\ busy' = [busy EXCEPT ![c] = TRUE]
  /\ UNCHANGED <<orderVars, row, fetch, dialog, history>>

Moved(r, changes) == (reqs \ {r}) \cup {changes}
To(r, phase) == Moved(r, [r EXCEPT !.phase = phase])

(* finally: setSaving(false), which a dialog that is gone ignores. *)
Idle(r) == [busy EXCEPT ![r.by] = @ /\ dialog[r.by].mount # r.mount]

(* The catch branch: a toast, and no refresh. *)
Failed(r) ==
  /\ r.phase = "error"
  /\ reqs' = reqs \ {r} /\ busy' = Idle(r)
  /\ UNCHANGED <<orderVars, row, fetch, dialog, issued, history>>

(* Mutant: the page is not refreshed. *)
SucceededUnrefreshed(r) ==
  /\ r.phase = "ok"
  /\ reqs' = To(r, "done")
  /\ UNCHANGED <<orderVars, pageVars, issued, history>>

(* The answer is there: refresh begins with two other queries. *)
Succeeded(r) ==
  /\ r.phase = "ok"
  /\ reqs' = To(r, "refresh")
  /\ answered' = IF r.op = "execute" THEN answered ELSE answered \cup {r.copy.decided}
  /\ UNCHANGED <<orderVars, pageVars, issued, raced>>

(* Handlers of c that wait for its bootstrap request go on. *)
Resumed(rs, c) == {IF q.by = c /\ q.phase = "fetching" THEN [q EXCEPT !.phase = "done"] ELSE q : q \in rs}

(* invalidateQueries(bootstrap): cancels the fetch under way, for which    *)
(* other handlers stop waiting, and starts another one.                    *)
Refetch(r) ==
  /\ r.phase = "refresh"
  /\ fetch' = [fetch EXCEPT ![r.by] = [NoFetch EXCEPT !.phase = "asked"]]
  /\ reqs' = Resumed(reqs \ {r}, r.by) \cup {[r EXCEPT !.phase = "fetching"]}
  /\ UNCHANGED <<orderVars, row, dialog, busy, issued, history>>

(* handleBootstrap reads the store. *)
BootstrapServed(c) ==
  /\ fetch[c].phase = "asked"
  /\ fetch' = [fetch EXCEPT ![c] = [phase |-> "served", status |-> status, version |-> version]]
  /\ UNCHANGED <<orderVars, row, dialog, busy, reqs, issued, history>>

(* The answer replaces the page data; those who waited for it go on. *)
BootstrapArrives(c) ==
  /\ fetch[c].phase = "served"
  /\ row' = [row EXCEPT ![c] = [status |-> fetch[c].status, version |-> fetch[c].version]]
  /\ fetch' = [fetch EXCEPT ![c] = NoFetch]
  /\ reqs' = Resumed(reqs, c)
  /\ UNCHANGED <<orderVars, dialog, busy, issued, history>>

(* After refresh: a decision dialog calls onClose(), which closes whatever *)
(* operation the page shows; an execute dialog stays and shows the result. *)
Finish(r) ==
  /\ r.phase = "done"
  /\ reqs' = reqs \ {r} /\ busy' = Idle(r)
  /\ dialog' = IF r.op = "execute" THEN dialog ELSE [dialog EXCEPT ![r.by] = Nobody]
  /\ UNCHANGED <<orderVars, row, fetch, issued, history>>

(* SQLWorkOrderDecisionSummary, CommandApprovalDecisionSummary. *)
DecisionSummary == IF decided = "none" THEN "pending" ELSE decided

(* SQLWorkOrderExecutionSummary, CommandApprovalExecutionSummary. *)
ExecutionSummary ==
  CASE report = "error" -> {"failed", "denied"}
    [] report = "done" -> {"executed"}
    [] OTHER -> Statuses \ Ends

(***************************************************************************)
(* The server's handlers                                                   *)
(***************************************************************************)

Holding(q) == q.phase \in {"held", "written", "ran"}

(* Mutant: the status is not checked before the statement runs. *)
MayProceedUnchecked(r) == r.op = "execute" \/ status = "pending"

(* The order is read and its status checked.  Later refusals (the asset is *)
(* gone, one's own request) leave the order alone too.                     *)
MayProceed(r) == status = (IF r.op = "execute" THEN "approved" ELSE "pending")

Read(r) ==
  /\ r.phase = "sent" /\ MayProceed(r)
  /\ reqs' = Moved(r, [r EXCEPT !.phase = "held", !.copy = Order])
  /\ raced' = (raced \/ \E q \in reqs : Holding(q))
  /\ UNCHANGED <<orderVars, pageVars, issued, answered>>

Refuse(r) ==
  /\ r.phase = "sent"
  /\ reqs' = To(r, "error")
  /\ UNCHANGED <<orderVars, pageVars, issued, history>>

(* requireAccessMFA: answered 403, and the console asks for the code. *)
AskCode(r) ==
  /\ r.phase = "sent" /\ r.op = "execute" /\ kind = "command" /\ MayProceed(r)
  /\ reqs' = To(r, "code")
  /\ UNCHANGED <<orderVars, pageVars, issued, history>>

(* The code is given, or the prompt is closed: the handler returns. *)
GiveCode(r) ==
  /\ r.phase = "code"
  /\ reqs' = To(r, "sent")
  /\ UNCHANGED <<orderVars, pageVars, issued, history>>

CancelCode(r) ==
  /\ r.phase = "code"
  /\ reqs' = reqs \ {r} /\ busy' = Idle(r)
  /\ UNCHANGED <<orderVars, row, fetch, dialog, issued, history>>

(* Mutant: the name of the operation is stored. *)
VerdictRaw(op) == op

Verdict(op) == IF op = "approve" THEN "approved" ELSE "rejected"

(* Mutant: the decision is added to what the order holds by now. *)
DecideMerging(r) ==
  /\ r.phase = "held" /\ r.op \in Decisions
  /\ status' = Verdict(r.op)
  /\ decided' = IF decided = "approved" THEN decided ELSE Verdict(r.op)
  /\ report' = r.copy.report
  /\ version' = version + 1
  /\ reqs' = Moved(r, [r EXCEPT !.phase = "written", !.wrote = version + 1])
  /\ UNCHANGED <<kind, ran, pageVars, issued, raced, answered>>

(* UpdatePlatformItem writes status and the copy's metadata with the       *)
(* decision added.                                                         *)
Decide(r) ==
  /\ r.phase = "held" /\ r.op \in Decisions
  /\ status' = Verdict(r.op) /\ decided' = Verdict(r.op) /\ report' = r.copy.report
  /\ version' = version + 1
  /\ reqs' = Moved(r, [r EXCEPT !.phase = "written", !.wrote = version + 1])
  /\ UNCHANGED <<kind, ran, pageVars, issued, raced, answered>>

LogDecision(r) ==
  /\ r.phase = "written"
  /\ reqs' = Moved(r, [r EXCEPT !.phase = "ok", !.copy.decided = Verdict(r.op)])
  /\ UNCHANGED <<orderVars, pageVars, issued, history>>

(* The operation log cannot be written: the copy is saved back. *)
RestoreDecision(r) ==
  /\ r.phase = "written"
  /\ status' = r.copy.status /\ decided' = r.copy.decided /\ report' = r.copy.report
  /\ version' = version + 1
  /\ reqs' = To(r, "error") /\ raced' = TRUE
  /\ UNCHANGED <<kind, ran, pageVars, issued, answered>>

(* RunApprovedCommand, executeDatabaseAssetSQL: the statement runs and     *)
(* succeeds or fails, or a deny rule blocks the command.                   *)
Run(r) ==
  /\ r.phase = "held" /\ r.op = "execute"
  /\ \E o \in {"executed", "failed"} \cup (IF kind = "command" THEN {"denied"} ELSE {}) :
       /\ reqs' = Moved(r, [r EXCEPT !.phase = "ran", !.outcome = o])
       /\ ran' = IF o = "denied" THEN ran ELSE ran + 1
  /\ UNCHANGED <<kind, status, decided, report, version, pageVars, issued, history>>

(* No connection to the asset, or no log row: nothing ran, nothing kept. *)
NotRun(r) ==
  /\ r.phase = "held" /\ r.op = "execute"
  /\ reqs' = To(r, "error")
  /\ UNCHANGED <<orderVars, pageVars, issued, history>>

ReportOf(outcome) == IF outcome = "executed" THEN "done" ELSE "error"

(* Mutant: only a successful run is recorded. *)
PersistSuccess(r) ==
  /\ r.phase = "ran"
  /\ status' = IF r.outcome = "executed" THEN r.outcome ELSE status
  /\ decided' = r.copy.decided /\ report' = ReportOf(r.outcome)
  /\ version' = version + 1
  /\ reqs' = Moved(r, [r EXCEPT !.phase = IF r.outcome = "executed" THEN "ok" ELSE "error", !.wrote = version + 1])
  /\ UNCHANGED <<kind, ran, pageVars, issued, history>>

(* update...ExecutionState: the outcome, and the copy's metadata.  A run   *)
(* that failed is answered with an error status.                           *)
Persist(r) ==
  /\ r.phase = "ran"
  /\ status' = r.outcome /\ decided' = r.copy.decided /\ report' = ReportOf(r.outcome)
  /\ version' = version + 1
  /\ reqs' = Moved(r, [r EXCEPT !.phase = IF r.outcome = "executed" THEN "ok" ELSE "error", !.wrote = version + 1])
  /\ UNCHANGED <<kind, ran, pageVars, issued, history>>

(* The log of the run or the outcome cannot be written. *)
PersistFails(r) ==
  /\ r.phase = "ran"
  /\ reqs' = To(r, "error") /\ raced' = TRUE
  /\ UNCHANGED <<orderVars, pageVars, issued, answered>>

Serve(r) ==
  \/ Read(r) \/ Refuse(r) \/ AskCode(r)
  \/ Decide(r) \/ LogDecision(r) \/ RestoreDecision(r)
  \/ Run(r) \/ NotRun(r) \/ Persist(r) \/ PersistFails(r)

Return(r) ==
  \/ Failed(r) \/ Succeeded(r) \/ Refetch(r) \/ Finish(r)
  \/ GiveCode(r) \/ CancelCode(r)

Next ==
  \/ \E c \in Consoles :
       \/ \E op \in Decisions \cup {"execute"} : OpenDialog(c, op)
       \/ DismissDialog(c) \/ Submit(c)
       \/ BootstrapServed(c) \/ BootstrapArrives(c)
  \/ \E r \in reqs : Serve(r) \/ Return(r)

Spec == Init /\ [][Next]_vars

(***************************************************************************)
(* Properties                                                              *)
(***************************************************************************)

(* What runs carries an approval: whatever decisions and restores overlap  *)
(* an execution, the copy it acts on names the one who approved it.        *)
ExecutedWasApproved ==
  \A r \in reqs : r.op = "execute" /\ Holding(r) => r.copy.decided = "approved"

(* An approved order runs once, unless two handlers held it together or    *)
(* the outcome of the first run could not be written.                      *)
RunsOnceUnlessRaced == ran > 1 => raced

(* The columns that summarise the decision and the execution agree with    *)
(* the status, also when an approval, a rejection, a restore and a run     *)
(* overlap.                                                                *)
SummaryTellsStatus ==
  /\ DecisionSummary = IF status \in {"pending", "rejected"} THEN status ELSE "approved"
  /\ status \in ExecutionSummary

(* A decision that was answered with success is the one the order's        *)
(* metadata holds, unless two handlers held it or a write failed.          *)
AnsweredDecisionKept == ~raced => answered \subseteq {decided}

(* A decided or executed order changes no more once no handler holds a     *)
(* copy from before: a second decision or run finds it settled.            *)
SettledIsFinal ==
  (status \in Ends \cup {"rejected"} /\ ~ \E q \in reqs : Holding(q) /\ q.copy.status # status) => status' = status

(* A page that waits for nothing shows its own operations: the refreshes   *)
(* of overlapping requests may cancel each other, and the row still is not *)
(* older than what its own answered requests wrote.                        *)
OwnWritesShown ==
  \A c \in Consoles : \A r \in reqs :
    r.by = c /\ r.phase = "done" /\ fetch[c].phase = "none" => row[c].version >= r.wrote

=============================================================================
