-------------------------- MODULE DialogPagesProofs --------------------------
(***************************************************************************)
(* The dialogs and panels of the console and of the workspace that act on  *)
(* one record, each for every value of its constants: the orders of the    *)
(* approval pages, the registration token, the operation dialogs, the DNS  *)
(* providers, the file panels and the dialogs that add servers and         *)
(* credentials.                                                            *)
(***************************************************************************)
EXTENDS Naturals, Sequences, FiniteSets, FiniteSetTheorems, SequenceTheorems, TLAPS

CONSTANTS
  Consoles, MaxRequests, MaxTokens, MaxChanges, MaxOpenings, Kinds, Ids,
  Panel, Files, Folders, Home, MaxOpens

VARIABLES
  kind, status, decided, report, version, ran, row, fetch, dialog, busy,
  reqs, issued, raced, answered, gen, writes, rows, opening, open, allowed,
  stale, run, runs, changes, loading, error, shown, crossed, page, slot,
  filled, result, sent, acked, store, list, editing, token, saving, asking,
  accepted, deleted, path, byHand, editor, fetching, action, running,
  uploading, servers, credentials, modal, mount, os, credentialType,
  submitting, load, reported, half, removed

Orders == INSTANCE Approvals
Token == INSTANCE TokenDialog
Operations == INSTANCE OperationDialogs
Dns == INSTANCE DnsProviders
Panels == INSTANCE FilePanels
Assets == INSTANCE AssetDialogs

-----------------------------------------------------------------------------
(***************************************************************************)
(* Orders (command_approvals.go and resource_ops.go), for any number of    *)
(* consoles and requests: how decisions, restores, runs and refreshes may  *)
(* overlap is not bounded. None of the properties is inductive. They need  *)
(* what a handler's copy can be (CopiesFit), how far the handlers have     *)
(* come while nothing has raced (InTurn), and which writes a page's fetch  *)
(* has seen (Seen).                                                        *)
(***************************************************************************)

Phases == {"sent", "code", "held", "written", "ran", "ok", "error", "refresh", "fetching", "done"}

(* A dialog that is open has an operation and the number of a request. *)
DialogsFit ==
  \A c \in Consoles :
    /\ dialog[c].mount \in 0 .. MaxRequests
    /\ dialog[c].op = "none" => dialog[c] = Orders!Nobody

(* A handler that may still run the statement: there are no more of them   *)
(* than requests, less the runs.                                           *)
Waiting == {r \in reqs : r.phase \in {"sent", "code", "held"}}
RunsCounted == IsFiniteSet(reqs) /\ ran + Cardinality(Waiting) <= issued

(* TypeOK without the bound of ran, which RunsCounted gives. *)
OrderTypes ==
  /\ kind \in {"sql", "command"} /\ status \in Orders!Statuses
  /\ decided \in {"none", "approved", "rejected"} /\ report \in Orders!Reports
  /\ version \in Nat /\ ran \in Nat
  /\ row \in [Consoles -> [status : Orders!Statuses, version : Nat]]
  /\ fetch \in [Consoles -> [phase : {"none", "asked", "served"}, status : Orders!Statuses, version : Nat]]
  /\ dialog \in [Consoles -> [op : Orders!Decisions \cup {"none", "execute"}, mount : Nat]]
  /\ busy \in [Consoles -> BOOLEAN]
  /\ reqs \subseteq Orders!Requests /\ issued \in 0 .. MaxRequests
  /\ raced \in BOOLEAN /\ answered \subseteq {"approved", "rejected"}

(* The copy a handler acts on is an order it may act on, a decision is     *)
(* written and an execution runs, and an answered decision names itself.   *)
CopiesFit ==
  \A r \in reqs :
    /\ Orders!Holding(r) =>
         r.copy = [status |-> IF r.op = "execute" THEN "approved" ELSE "pending",
                   decided |-> IF r.op = "execute" THEN "approved" ELSE "none",
                   report |-> "none"]
    /\ r.phase = "written" => r.op # "execute"
    /\ r.phase = "ran" => r.op = "execute"
    /\ r.phase = "ok" /\ r.op # "execute" => r.copy.decided = Orders!Verdict(r.op)

(* While nothing has raced, one handler at most holds the order, its copy  *)
(* is what the order is until it writes, the decision of a handler that    *)
(* wrote or was answered is the order's, and the statement has run only    *)
(* when the order or its holder says so.                                   *)
OneHolder ==
  /\ \A q, r \in reqs : Orders!Holding(q) /\ Orders!Holding(r) => q = r
  /\ \A r \in reqs : r.phase \in {"held", "ran"} => r.copy = Orders!Order
DecisionsStand ==
  /\ \A r \in reqs : r.phase = "written" => decided = Orders!Verdict(r.op)
  /\ \A r \in reqs : r.phase = "ok" /\ r.op # "execute" => r.copy.decided = decided
  /\ answered \subseteq {decided}
RanOnce ==
  /\ ran <= 1
  /\ ran = 0 \/ status \in Orders!Ends \/ \E r \in reqs : r.phase = "ran"
  /\ \A r \in reqs : r.phase \in {"held", "written"} => ran = 0
InTurn == ~raced => OneHolder /\ DecisionsStand /\ RanOnce

(* What a page's fetch has seen, or will: every write of the requests that *)
(* wait for it or no longer wait.                                          *)
Seen ==
  /\ \A r \in reqs : r.wrote <= version
  /\ \A r \in reqs : r.phase = "fetching" => fetch[r.by].phase # "none"
  /\ \A r \in reqs : r.phase \in {"fetching", "done"} /\ fetch[r.by].phase = "served"
                       => r.wrote <= fetch[r.by].version
  /\ \A r \in reqs : r.phase = "done" /\ fetch[r.by].phase = "none"
                       => r.wrote <= row[r.by].version

(* The inductive invariant. *)
OrdersInv == OrderTypes /\ DialogsFit /\ RunsCounted /\ CopiesFit /\ Orders!SummaryTellsStatus /\ InTurn /\ Seen

-----------------------------------------------------------------------------
(* What a request can become. *)
LEMMA RequestTypes ==
  ASSUME OrderTypes, NEW r \in reqs
  PROVE  /\ r \in Orders!Requests /\ r.by \in Consoles /\ r.wrote \in Nat /\ r.phase \in Phases
         /\ r.op \in Orders!Decisions \cup {"execute"} /\ r.outcome \in Orders!Ends
         /\ r.copy \in [status : Orders!Statuses, decided : {"none", "approved", "rejected"}, report : Orders!Reports]
         /\ \A p \in Phases :
              /\ [r EXCEPT !.phase = p] \in Orders!Requests
              /\ [r EXCEPT !.phase = p].phase = p /\ [r EXCEPT !.phase = p].wrote = r.wrote
              /\ [r EXCEPT !.phase = p].by = r.by /\ [r EXCEPT !.phase = p].op = r.op
              /\ [r EXCEPT !.phase = p].copy = r.copy
<1>1. r \in Orders!Requests
  BY DEF OrderTypes
<1> QED
  BY <1>1 DEF Orders!Requests, Phases

(* A step of a request replaces it. *)
LEMMA MovedIs ==
  ASSUME NEW r \in reqs, NEW x, reqs' = Orders!Moved(r, x)
  PROVE  /\ x \in reqs'
         /\ \A q \in reqs' : q \in reqs \ {r} \/ q = x
         /\ \A q \in reqs : q = r \/ q \in reqs'
  BY DEF Orders!Moved

-----------------------------------------------------------------------------
(* RunsCounted: the ways the set of waiting handlers changes.              *)
IsWaiting(q) == q.phase \in {"sent", "code", "held"}

LEMMA CountKeeps ==
  ASSUME OrderTypes, RunsCounted, IsFiniteSet(reqs'), UNCHANGED <<ran, issued>>,
         \A q \in reqs' : IsWaiting(q) => q \in reqs
  PROVE  RunsCounted'
<1>1. Waiting' \subseteq Waiting /\ Waiting \subseteq reqs
  BY DEF Waiting, IsWaiting
<1>2. IsFiniteSet(Waiting)
  BY <1>1, FS_Subset DEF RunsCounted
<1>3. IsFiniteSet(Waiting') /\ Cardinality(Waiting') <= Cardinality(Waiting)
  BY <1>1, <1>2, FS_Subset
<1>4. Cardinality(Waiting) \in Nat /\ Cardinality(Waiting') \in Nat
  BY <1>2, <1>3, FS_CardinalityType
<1> QED
  BY <1>3, <1>4 DEF RunsCounted, OrderTypes

LEMMA CountMoves ==
  ASSUME OrderTypes, RunsCounted, NEW r \in reqs, NEW x, reqs' = Orders!Moved(r, x),
         UNCHANGED <<ran, issued>>, IsWaiting(x) => IsWaiting(r)
  PROVE  RunsCounted'
<1>1. IsFiniteSet(reqs')
  <2>1. IsFiniteSet(reqs \ {r})
    BY FS_Subset DEF RunsCounted
  <2> QED
    BY <2>1, FS_AddElement DEF Orders!Moved
<1>2. CASE ~IsWaiting(x)
  BY <1>1, <1>2, MovedIs, CountKeeps
<1>3. CASE IsWaiting(x)
  <2>1. Waiting \subseteq reqs /\ r \in Waiting /\ Waiting' = (Waiting \ {r}) \cup {x}
    BY <1>3 DEF Waiting, IsWaiting, Orders!Moved
  <2>2. IsFiniteSet(Waiting)
    BY <2>1, FS_Subset DEF RunsCounted
  <2>3. IsFiniteSet(Waiting \ {r}) /\ Cardinality(Waiting \ {r}) = Cardinality(Waiting) - 1
    BY <2>1, <2>2, FS_RemoveElement
  <2>4. Cardinality(Waiting) \in Nat
    BY <2>2, FS_CardinalityType
  <2>5. Cardinality(Waiting') <= Cardinality(Waiting)
    BY <2>1, <2>3, <2>4, FS_AddElement
  <2>6. Cardinality(Waiting') \in Nat
    BY <2>1, <2>3, FS_AddElement, FS_CardinalityType
  <2> QED
    BY <1>1, <2>4, <2>5, <2>6 DEF RunsCounted, OrderTypes
<1> QED
  BY <1>2, <1>3

LEMMA CountRuns ==
  ASSUME OrderTypes, RunsCounted, NEW r \in reqs, NEW x, reqs' = Orders!Moved(r, x),
         issued' = issued, ran' \in {ran, ran + 1}, IsWaiting(r), ~IsWaiting(x)
  PROVE  RunsCounted'
<1>1. IsFiniteSet(reqs')
  <2>1. IsFiniteSet(reqs \ {r})
    BY FS_Subset DEF RunsCounted
  <2> QED
    BY <2>1, FS_AddElement DEF Orders!Moved
<1>2. Waiting \subseteq reqs /\ r \in Waiting /\ Waiting' = Waiting \ {r}
  BY DEF Waiting, IsWaiting, Orders!Moved
<1>3. IsFiniteSet(Waiting)
  BY <1>2, FS_Subset DEF RunsCounted
<1>4. Cardinality(Waiting') = Cardinality(Waiting) - 1
  BY <1>2, <1>3, FS_RemoveElement
<1>5. Cardinality(Waiting) \in Nat
  BY <1>3, FS_CardinalityType
<1> QED
  BY <1>1, <1>4, <1>5 DEF RunsCounted, OrderTypes

LEMMA CountAdds ==
  ASSUME OrderTypes, RunsCounted, NEW x, reqs' = reqs \cup {x}, issued' = issued + 1, ran' = ran
  PROVE  RunsCounted'
<1>1. IsFiniteSet(reqs')
  BY FS_AddElement DEF RunsCounted
<1>2. Waiting \subseteq reqs /\ Waiting' \subseteq Waiting \cup {x}
  BY DEF Waiting
<1>3. IsFiniteSet(Waiting)
  BY <1>2, FS_Subset DEF RunsCounted
<1>4. /\ IsFiniteSet(Waiting \cup {x})
      /\ Cardinality(Waiting \cup {x}) \in {Cardinality(Waiting), Cardinality(Waiting) + 1}
  BY <1>3, FS_AddElement
<1>5. IsFiniteSet(Waiting') /\ Cardinality(Waiting') <= Cardinality(Waiting \cup {x})
  BY <1>2, <1>4, FS_Subset
<1>6. Cardinality(Waiting) \in Nat /\ Cardinality(Waiting') \in Nat
  BY <1>3, <1>5, FS_CardinalityType
<1> QED
  BY <1>1, <1>4, <1>5, <1>6 DEF RunsCounted, OrderTypes

-----------------------------------------------------------------------------
(* A step that leaves the order alone, and every handler that holds it or  *)
(* has written it.                                                         *)
Fit == CopiesFit /\ Orders!SummaryTellsStatus /\ InTurn

LEMMA CalmKeeps ==
  ASSUME Fit, UNCHANGED <<Orders!orderVars, raced, answered>>,
         \A q \in reqs' : q \in reqs \/ q.phase \notin {"held", "written", "ran", "ok"},
         \A q \in reqs : q.phase = "ran" => q \in reqs'
  PROVE  Fit'
<1>1. UNCHANGED <<status, decided, report, ran>>
  BY DEF Orders!orderVars
<1>2. CopiesFit'
  BY DEF Fit, CopiesFit, Orders!Holding
<1>3. Orders!SummaryTellsStatus'
  BY <1>1 DEF Fit, Orders!SummaryTellsStatus, Orders!DecisionSummary, Orders!ExecutionSummary
<1>4. InTurn'
  <2>1. SUFFICES ASSUME ~raced PROVE OneHolder' /\ DecisionsStand' /\ RanOnce'
    BY DEF InTurn
  <2>2. OneHolder /\ DecisionsStand /\ RanOnce
    BY <2>1 DEF Fit, InTurn
  <2>3. OneHolder'
    BY <1>1, <2>2 DEF OneHolder, Orders!Holding, Orders!Order
  <2>4. DecisionsStand'
    BY <1>1, <2>2 DEF DecisionsStand
  <2>5. RanOnce'
    BY <1>1, <2>2 DEF RanOnce
  <2> QED
    BY <2>3, <2>4, <2>5
<1> QED
  BY <1>2, <1>3, <1>4 DEF Fit

(* A step that changes no row and no fetch. *)
LEMMA SeenKeeps ==
  ASSUME OrderTypes, Seen, UNCHANGED <<row, fetch>>, version' \in Nat, version <= version',
         \A q \in reqs' : q \in reqs \/ (q.phase \notin {"fetching", "done"} /\ q.wrote <= version')
  PROVE  Seen'
<1>1. ASSUME NEW q \in reqs'
      PROVE  /\ q.wrote <= version'
             /\ q.phase \in {"fetching", "done"} => q \in reqs
  <2>1. CASE q \in reqs
    BY <2>1, RequestTypes DEF Seen, OrderTypes
  <2>2. CASE q \notin reqs
    BY <2>2
  <2> QED
    BY <2>1, <2>2
<1> QED
  BY <1>1 DEF Seen

-----------------------------------------------------------------------------
(* The shapes that most steps have. *)
LEMMA PageStep ==
  ASSUME OrdersInv, UNCHANGED <<Orders!orderVars, row, fetch, reqs, issued, Orders!history>>,
         dialog' \in [Consoles -> [op : Orders!Decisions \cup {"none", "execute"}, mount : Nat]],
         busy' \in [Consoles -> BOOLEAN], DialogsFit'
  PROVE  OrdersInv'
<1>1. UNCHANGED <<kind, status, decided, report, version, ran, raced, answered>>
  BY DEF Orders!orderVars, Orders!history
<1>2. OrderTypes'
  BY <1>1 DEF OrdersInv, OrderTypes
<1>3. RunsCounted'
  BY <1>1 DEF OrdersInv, RunsCounted, Waiting
<1>4. Fit'
  <2>1. Fit
    BY DEF OrdersInv, Fit
  <2> QED
    BY <1>1, <2>1, CalmKeeps DEF Orders!orderVars
<1>5. Seen'
  <2>1. version \in Nat
    BY DEF OrdersInv, OrderTypes
  <2> QED
    BY <1>1, <2>1, SeenKeeps DEF OrdersInv
<1> QED
  BY <1>2, <1>3, <1>4, <1>5 DEF OrdersInv, Fit

(* A request goes on, the order is left alone. *)
LEMMA MoveStep ==
  ASSUME OrdersInv, NEW r \in reqs, NEW p \in {"sent", "code", "error", "refresh"},
         r.phase # "ran", p \in {"sent", "code"} => IsWaiting(r),
         reqs' = Orders!To(r, p), UNCHANGED <<Orders!orderVars, Orders!pageVars, issued, Orders!history>>
  PROVE  OrdersInv'
<1> DEFINE x == [r EXCEPT !.phase = p]
<1>1. UNCHANGED <<kind, status, decided, report, version, ran, row, fetch, dialog, busy, raced, answered>>
  BY DEF Orders!orderVars, Orders!pageVars, Orders!history
<1>2. /\ x \in Orders!Requests /\ x.phase = p /\ x.wrote = r.wrote /\ reqs' = Orders!Moved(r, x)
  <2>1. p \in Phases
    BY DEF Phases
  <2> QED
    BY <2>1, RequestTypes DEF OrdersInv, Orders!To
<1> HIDE DEF x
<1>3. /\ \A q \in reqs' : q \in reqs \ {r} \/ q = x
      /\ \A q \in reqs : q = r \/ q \in reqs'
  BY <1>2, MovedIs
<1>4. OrderTypes'
  BY <1>1, <1>2, <1>3 DEF OrdersInv, OrderTypes
<1>5. DialogsFit'
  BY <1>1 DEF OrdersInv, DialogsFit
<1>6. RunsCounted'
  BY <1>1, <1>2, CountMoves DEF OrdersInv, IsWaiting
<1>7. Fit'
  <2>1. Fit
    BY DEF OrdersInv, Fit
  <2> QED
    BY <1>1, <1>2, <1>3, <2>1, CalmKeeps
<1>8. Seen'
  <2>1. version \in Nat /\ r.wrote <= version
    BY DEF OrdersInv, OrderTypes, Seen
  <2> QED
    BY <1>1, <1>2, <1>3, <2>1, SeenKeeps DEF OrdersInv
<1> QED
  BY <1>4, <1>5, <1>6, <1>7, <1>8 DEF OrdersInv, Fit

(* A handler of the page returns. *)
LEMMA ReturnStep ==
  ASSUME Orders!ConstantsOK, OrdersInv, NEW r \in reqs, r.phase # "ran", reqs' = reqs \ {r},
         UNCHANGED <<Orders!orderVars, row, fetch, issued, Orders!history>>, busy' = Orders!Idle(r),
         dialog' = dialog \/ dialog' = [dialog EXCEPT ![r.by] = Orders!Nobody]
  PROVE  OrdersInv'
<1>1. UNCHANGED <<kind, status, decided, report, version, ran, raced, answered>>
  BY DEF Orders!orderVars, Orders!history
<1>2. busy' \in [Consoles -> BOOLEAN]
  BY DEF OrdersInv, OrderTypes, Orders!Idle
<1>3. /\ dialog' \in [Consoles -> [op : Orders!Decisions \cup {"none", "execute"}, mount : Nat]]
      /\ DialogsFit'
  <2>1. Orders!Nobody.op = "none" /\ Orders!Nobody.mount = 0 /\ 0 \in 0 .. MaxRequests
        /\ Orders!Nobody \in [op : Orders!Decisions \cup {"none", "execute"}, mount : Nat]
    BY DEF Orders!Nobody, Orders!ConstantsOK
  <2>2. CASE dialog' = dialog
    BY <2>2 DEF OrdersInv, OrderTypes, DialogsFit
  <2>3. CASE dialog' = [dialog EXCEPT ![r.by] = Orders!Nobody]
    BY <2>1, <2>3 DEF OrdersInv, OrderTypes, DialogsFit
  <2> QED
    BY <2>2, <2>3
<1>4. OrderTypes'
  BY <1>1, <1>2, <1>3 DEF OrdersInv, OrderTypes
<1>5. RunsCounted'
  <2>1. IsFiniteSet(reqs')
    BY FS_Subset DEF OrdersInv, RunsCounted
  <2> QED
    BY <1>1, <2>1, CountKeeps DEF OrdersInv
<1>6. Fit'
  <2>1. Fit
    BY DEF OrdersInv, Fit
  <2> QED
    BY <1>1, <2>1, CalmKeeps
<1>7. Seen'
  <2>1. version \in Nat
    BY DEF OrdersInv, OrderTypes
  <2> QED
    BY <1>1, <2>1, SeenKeeps DEF OrdersInv
<1> QED
  BY <1>3, <1>4, <1>5, <1>6, <1>7 DEF OrdersInv, Fit

-----------------------------------------------------------------------------
(* The console. *)
LEMMA OpenDialogKeeps ==
  ASSUME Orders!ConstantsOK, OrdersInv, NEW c \in Consoles, NEW op \in Orders!Decisions \cup {"execute"}, Orders!OpenDialog(c, op)
  PROVE  OrdersInv'
<1>1. issued + 1 \in 0 .. MaxRequests
  BY DEF Orders!OpenDialog, OrdersInv, OrderTypes, Orders!ConstantsOK
<1>2. /\ dialog' \in [Consoles -> [op : Orders!Decisions \cup {"none", "execute"}, mount : Nat]]
      /\ DialogsFit'
  BY <1>1 DEF Orders!OpenDialog, OrdersInv, OrderTypes, DialogsFit, Orders!Decisions
<1>3. busy' \in [Consoles -> BOOLEAN]
  BY DEF Orders!OpenDialog, OrdersInv, OrderTypes
<1> QED
  BY <1>2, <1>3, PageStep DEF Orders!OpenDialog

LEMMA DismissKeeps ==
  ASSUME Orders!ConstantsOK, OrdersInv, NEW c \in Consoles, Orders!DismissDialog(c)
  PROVE  OrdersInv'
<1>1. Orders!Nobody.op = "none" /\ Orders!Nobody.mount = 0 /\ 0 \in 0 .. MaxRequests
      /\ Orders!Nobody \in [op : Orders!Decisions \cup {"none", "execute"}, mount : Nat]
  BY DEF Orders!Nobody, Orders!ConstantsOK
<1>2. /\ dialog' \in [Consoles -> [op : Orders!Decisions \cup {"none", "execute"}, mount : Nat]]
      /\ DialogsFit'
  BY <1>1 DEF Orders!DismissDialog, OrdersInv, OrderTypes, DialogsFit
<1>3. busy' \in [Consoles -> BOOLEAN]
  BY DEF Orders!DismissDialog, OrdersInv, OrderTypes
<1> QED
  BY <1>2, <1>3, PageStep DEF Orders!DismissDialog

LEMMA SubmitKeeps ==
  ASSUME Orders!ConstantsOK, OrdersInv, NEW c \in Consoles, Orders!Submit(c)
  PROVE  OrdersInv'
<1> DEFINE x == Orders!NewRequest(c)
<1>1. /\ UNCHANGED <<kind, status, decided, report, version, ran, row, fetch, dialog, raced, answered>>
      /\ issued' = issued + 1 /\ reqs' = reqs \cup {x}
  BY DEF Orders!Submit, Orders!orderVars, Orders!history
<1>2. issued' \in 1 .. MaxRequests
  BY DEF Orders!Submit, OrdersInv, OrderTypes, Orders!ConstantsOK
<1>3. dialog[c].op \in Orders!Decisions \cup {"execute"} /\ dialog[c].mount \in 0 .. MaxRequests
  BY DEF Orders!Submit, OrdersInv, OrderTypes, DialogsFit
<1>4. Orders!Order \in [status : Orders!Statuses, decided : {"none", "approved", "rejected"}, report : Orders!Reports]
  BY DEF Orders!Order, OrdersInv, OrderTypes
<1>5. x \in Orders!Requests /\ x.phase = "sent" /\ x.wrote = 0
  BY <1>1, <1>2, <1>3, <1>4 DEF Orders!NewRequest, Orders!Requests, Orders!Ends
<1> HIDE DEF x
<1>6. busy' \in [Consoles -> BOOLEAN]
  BY DEF Orders!Submit, OrdersInv, OrderTypes
<1>7. OrderTypes'
  BY <1>1, <1>2, <1>5, <1>6 DEF OrdersInv, OrderTypes
<1>8. DialogsFit'
  BY <1>1 DEF OrdersInv, DialogsFit
<1>9. RunsCounted'
  BY <1>1, CountAdds DEF OrdersInv
<1>10. Fit'
  <2>1. Fit
    BY DEF OrdersInv, Fit
  <2> QED
    BY <1>1, <1>5, <2>1, CalmKeeps DEF Orders!orderVars
<1>11. Seen'
  <2>1. version \in Nat /\ 0 <= version
    BY DEF OrdersInv, OrderTypes
  <2> QED
    BY <1>1, <1>5, <2>1, SeenKeeps DEF OrdersInv
<1> QED
  BY <1>7, <1>8, <1>9, <1>10, <1>11 DEF OrdersInv, Fit

LEMMA FailedKeeps ==
  ASSUME Orders!ConstantsOK, OrdersInv, NEW r \in reqs, Orders!Failed(r) \/ Orders!CancelCode(r) \/ Orders!Finish(r)
  PROVE  OrdersInv'
  BY ReturnStep DEF Orders!Failed, Orders!CancelCode, Orders!Finish

LEMMA MovesKeep ==
  ASSUME OrdersInv, NEW r \in reqs, Orders!Refuse(r) \/ Orders!AskCode(r) \/ Orders!GiveCode(r) \/ Orders!NotRun(r)
  PROVE  OrdersInv'
  BY MoveStep DEF Orders!Refuse, Orders!AskCode, Orders!GiveCode, Orders!NotRun, IsWaiting

(* A decision that was answered is the order's, while nothing has raced.   *)
LEMMA SucceededKeeps ==
  ASSUME OrdersInv, NEW r \in reqs, Orders!Succeeded(r)
  PROVE  OrdersInv'
<1> DEFINE x == [r EXCEPT !.phase = "refresh"]
<1>1. /\ UNCHANGED <<kind, status, decided, report, version, ran, row, fetch, dialog, busy, raced, issued>>
      /\ r.phase = "ok"
      /\ answered' = IF r.op = "execute" THEN answered ELSE answered \cup {r.copy.decided}
  BY DEF Orders!Succeeded, Orders!orderVars, Orders!pageVars
<1>2. /\ x \in Orders!Requests /\ x.phase = "refresh" /\ x.wrote = r.wrote /\ reqs' = Orders!Moved(r, x)
  BY RequestTypes DEF OrdersInv, Phases, Orders!To, Orders!Succeeded
<1> HIDE DEF x
<1>3. /\ \A q \in reqs' : q \in reqs \ {r} \/ q = x
      /\ \A q \in reqs : q = r \/ q \in reqs'
  BY <1>2, MovedIs
<1>4. OrderTypes'
  <2>1. r.op # "execute" => r.copy.decided \in {"approved", "rejected"}
    BY <1>1 DEF OrdersInv, CopiesFit, Orders!Verdict
  <2>2. answered' \subseteq {"approved", "rejected"}
    BY <1>1, <2>1 DEF OrdersInv, OrderTypes
  <2> QED
    BY <1>1, <1>2, <1>3, <2>2 DEF OrdersInv, OrderTypes
<1>5. DialogsFit'
  BY <1>1 DEF OrdersInv, DialogsFit
<1>6. RunsCounted'
  BY <1>1, <1>2, CountMoves DEF OrdersInv, IsWaiting
<1>7. CopiesFit'
  BY <1>2, <1>3 DEF OrdersInv, CopiesFit, Orders!Holding
<1>8. Orders!SummaryTellsStatus'
  BY <1>1 DEF OrdersInv, Orders!SummaryTellsStatus, Orders!DecisionSummary, Orders!ExecutionSummary
<1>9. InTurn'
  <2>1. SUFFICES ASSUME ~raced PROVE OneHolder' /\ DecisionsStand' /\ RanOnce'
    BY <1>1 DEF InTurn
  <2>2. OneHolder /\ DecisionsStand /\ RanOnce
    BY <2>1 DEF OrdersInv, InTurn
  <2>3. OneHolder'
    BY <1>1, <1>2, <1>3, <2>2 DEF OneHolder, Orders!Holding, Orders!Order
  <2>4. DecisionsStand'
    BY <1>1, <1>2, <1>3, <2>2 DEF DecisionsStand
  <2>5. RanOnce'
    BY <1>1, <1>2, <1>3, <2>2 DEF RanOnce
  <2> QED
    BY <2>3, <2>4, <2>5
<1>10. Seen'
  <2>1. version \in Nat /\ r.wrote <= version
    BY DEF OrdersInv, OrderTypes, Seen
  <2> QED
    BY <1>1, <1>2, <1>3, <2>1, SeenKeeps DEF OrdersInv
<1> QED
  BY <1>4, <1>5, <1>6, <1>7, <1>8, <1>9, <1>10 DEF OrdersInv

-----------------------------------------------------------------------------
(* The fetches of a page. *)

(* Those who wait for a fetch go on; nothing else changes in a request.    *)
LEMMA ResumedIs ==
  ASSUME OrderTypes, NEW c \in Consoles, NEW rs \in SUBSET reqs
  PROVE  /\ Orders!Resumed(rs, c) \subseteq Orders!Requests
         /\ \A q \in Orders!Resumed(rs, c) :
              \/ q \in rs /\ ~(q.by = c /\ q.phase = "fetching")
              \/ /\ q.phase = "done" /\ q.by = c
                 /\ \E p \in rs : p.phase = "fetching" /\ p.by = c /\ p.wrote = q.wrote
         /\ \A q \in rs : q.phase # "fetching" => q \in Orders!Resumed(rs, c)
         /\ IsFiniteSet(rs) => IsFiniteSet(Orders!Resumed(rs, c))
<1> DEFINE f(q) == IF q.by = c /\ q.phase = "fetching" THEN [q EXCEPT !.phase = "done"] ELSE q
<1>1. Orders!Resumed(rs, c) = {f(q) : q \in rs}
  BY DEF Orders!Resumed
<1>2. ASSUME NEW q \in rs
      PROVE  /\ f(q) \in Orders!Requests
             /\ \/ f(q) \in rs /\ ~(f(q).by = c /\ f(q).phase = "fetching")
                \/ /\ f(q).phase = "done" /\ f(q).by = c
                   /\ q.phase = "fetching" /\ q.by = c /\ q.wrote = f(q).wrote
             /\ q.phase # "fetching" => f(q) = q
  <2>1. q \in reqs /\ q \in Orders!Requests
    BY DEF OrderTypes
  <2>2. CASE q.by = c /\ q.phase = "fetching"
    <3>1. f(q) = [q EXCEPT !.phase = "done"] /\ "done" \in Phases
      BY <2>2 DEF Phases
    <3> HIDE DEF f
    <3> QED
      BY <2>1, <2>2, <3>1, RequestTypes
  <2>3. CASE ~(q.by = c /\ q.phase = "fetching")
    BY <2>1, <2>3
  <2> QED
    BY <2>2, <2>3
<1>3. IsFiniteSet(rs) => IsFiniteSet({f(q) : q \in rs})
  <2> DEFINE T == {f(q) : q \in rs}
             fn == [q \in rs |-> f(q)]
  <2> HIDE DEF f
  <2>1. fn \in Surjection(rs, T)
    BY DEF Surjection
  <2> HIDE DEF fn, T
  <2>2. IsFiniteSet(rs) => IsFiniteSet(T)
    BY <2>1, FS_Surjection
  <2> QED
    BY <2>2 DEF T
<1> HIDE DEF f
<1> QED
  BY <1>1, <1>2, <1>3

LEMMA RefetchKeeps ==
  ASSUME OrdersInv, NEW r \in reqs, Orders!Refetch(r)
  PROVE  OrdersInv'
<1> DEFINE x == [r EXCEPT !.phase = "fetching"]
           rs == Orders!Resumed(reqs \ {r}, r.by)
<1>1. /\ UNCHANGED <<kind, status, decided, report, version, ran, row, dialog, busy, raced, answered, issued>>
      /\ r.phase = "refresh" /\ reqs' = rs \cup {x}
      /\ fetch' = [fetch EXCEPT ![r.by] = [Orders!NoFetch EXCEPT !.phase = "asked"]]
  BY DEF Orders!Refetch, Orders!orderVars, Orders!history
<1>2. /\ x \in Orders!Requests /\ x.phase = "fetching" /\ x.wrote = r.wrote /\ x.by = r.by /\ r.by \in Consoles
  <2>1. "fetching" \in Phases
    BY DEF Phases
  <2> QED
    BY <2>1, RequestTypes DEF OrdersInv
<1>3. /\ rs \subseteq Orders!Requests
      /\ \A q \in rs :
           \/ q \in reqs \ {r} /\ ~(q.by = r.by /\ q.phase = "fetching")
           \/ /\ q.phase = "done" /\ q.by = r.by
              /\ \E p \in reqs \ {r} : p.phase = "fetching" /\ p.by = r.by /\ p.wrote = q.wrote
      /\ \A q \in reqs \ {r} : q.phase # "fetching" => q \in rs
      /\ IsFiniteSet(reqs \ {r}) => IsFiniteSet(rs)
  <2>1. reqs \ {r} \in SUBSET reqs
    OBVIOUS
  <2> QED
    BY <1>2, <2>1, ResumedIs DEF OrdersInv
<1> HIDE DEF x, rs
<1>4. /\ fetch' \in [Consoles -> [phase : {"none", "asked", "served"}, status : Orders!Statuses, version : Nat]]
      /\ fetch'[r.by].phase = "asked"
      /\ \A c \in Consoles \ {r.by} : fetch'[c] = fetch[c]
  BY <1>1, <1>2 DEF OrdersInv, OrderTypes, Orders!NoFetch, Orders!Statuses
<1>5. OrderTypes'
  BY <1>1, <1>2, <1>3, <1>4 DEF OrdersInv, OrderTypes
<1>6. DialogsFit'
  BY <1>1 DEF OrdersInv, DialogsFit
<1>7. RunsCounted'
  <2>1. IsFiniteSet(reqs \ {r})
    BY FS_Subset DEF OrdersInv, RunsCounted
  <2>2. IsFiniteSet(reqs')
    BY <1>1, <1>3, <2>1, FS_AddElement
  <2> QED
    BY <1>1, <1>2, <1>3, <2>2, CountKeeps DEF OrdersInv, IsWaiting
<1>8. Fit'
  <2>1. Fit
    BY DEF OrdersInv, Fit
  <2>2. \A q \in reqs' : q \in reqs \/ q.phase \notin {"held", "written", "ran", "ok"}
    BY <1>1, <1>2, <1>3
  <2>3. \A q \in reqs : q.phase = "ran" => q \in reqs'
    BY <1>1, <1>3
  <2> QED
    BY <1>1, <2>1, <2>2, <2>3, CalmKeeps DEF Orders!orderVars
<1>9. Seen'
  <2>1. \A q \in reqs' : q.wrote <= version
    BY <1>1, <1>2, <1>3 DEF OrdersInv, Seen
  <2>2. ASSUME NEW q \in reqs', q.by # r.by
        PROVE  q \in reqs /\ q.by \in Consoles \ {r.by}
    BY <1>1, <1>2, <1>3, <2>2, RequestTypes DEF OrdersInv
  <2>3. ASSUME NEW q \in reqs'
        PROVE  /\ q.phase = "fetching" => fetch'[q.by].phase # "none"
               /\ q.phase \in {"fetching", "done"} /\ fetch'[q.by].phase = "served" => q.wrote <= fetch'[q.by].version
               /\ q.phase = "done" /\ fetch'[q.by].phase = "none" => q.wrote <= row[q.by].version
    <3>1. CASE q.by = r.by
      BY <1>4, <3>1
    <3>2. CASE q.by # r.by
      BY <1>4, <2>2, <3>2 DEF OrdersInv, Seen
    <3> QED
      BY <3>1, <3>2
  <2> QED
    BY <1>1, <2>1, <2>3 DEF Seen
<1> QED
  BY <1>5, <1>6, <1>7, <1>8, <1>9 DEF OrdersInv, Fit

LEMMA ServedKeeps ==
  ASSUME OrdersInv, NEW c \in Consoles, Orders!BootstrapServed(c)
  PROVE  OrdersInv'
<1>1. /\ UNCHANGED <<kind, status, decided, report, version, ran, row, dialog, busy, raced, answered, issued, reqs>>
      /\ fetch' = [fetch EXCEPT ![c] = [phase |-> "served", status |-> status, version |-> version]]
  BY DEF Orders!BootstrapServed, Orders!orderVars, Orders!history
<1>2. /\ fetch' \in [Consoles -> [phase : {"none", "asked", "served"}, status : Orders!Statuses, version : Nat]]
      /\ fetch'[c].phase = "served" /\ fetch'[c].version = version
      /\ \A d \in Consoles \ {c} : fetch'[d] = fetch[d]
  BY <1>1 DEF OrdersInv, OrderTypes
<1>3. OrderTypes'
  BY <1>1, <1>2 DEF OrdersInv, OrderTypes
<1>4. DialogsFit' /\ RunsCounted'
  BY <1>1 DEF OrdersInv, DialogsFit, RunsCounted, Waiting
<1>5. Fit'
  <2>1. Fit
    BY DEF OrdersInv, Fit
  <2> QED
    BY <1>1, <2>1, CalmKeeps DEF Orders!orderVars
<1>6. Seen'
  <2>1. ASSUME NEW q \in reqs
        PROVE  /\ q.wrote <= version
               /\ q.phase = "fetching" => fetch'[q.by].phase # "none"
               /\ q.phase \in {"fetching", "done"} /\ fetch'[q.by].phase = "served" => q.wrote <= fetch'[q.by].version
               /\ q.phase = "done" /\ fetch'[q.by].phase = "none" => q.wrote <= row[q.by].version
    <3>1. q.by \in Consoles
      BY RequestTypes DEF OrdersInv
    <3>2. CASE q.by = c
      BY <1>2, <3>2 DEF OrdersInv, Seen
    <3>3. CASE q.by # c
      BY <1>2, <3>1, <3>3 DEF OrdersInv, Seen
    <3> QED
      BY <3>2, <3>3
  <2> QED
    BY <1>1, <2>1 DEF Seen
<1> QED
  BY <1>3, <1>4, <1>5, <1>6 DEF OrdersInv, Fit

LEMMA ArrivesKeeps ==
  ASSUME OrdersInv, NEW c \in Consoles, Orders!BootstrapArrives(c)
  PROVE  OrdersInv'
<1> DEFINE rs == Orders!Resumed(reqs, c)
<1>1. /\ UNCHANGED <<kind, status, decided, report, version, ran, dialog, busy, raced, answered, issued>>
      /\ fetch[c].phase = "served" /\ reqs' = rs
      /\ row' = [row EXCEPT ![c] = [status |-> fetch[c].status, version |-> fetch[c].version]]
      /\ fetch' = [fetch EXCEPT ![c] = Orders!NoFetch]
  BY DEF Orders!BootstrapArrives, Orders!orderVars, Orders!history
<1>2. /\ rs \subseteq Orders!Requests
      /\ \A q \in rs :
           \/ q \in reqs /\ ~(q.by = c /\ q.phase = "fetching")
           \/ /\ q.phase = "done" /\ q.by = c
              /\ \E p \in reqs : p.phase = "fetching" /\ p.by = c /\ p.wrote = q.wrote
      /\ \A q \in reqs : q.phase # "fetching" => q \in rs
      /\ IsFiniteSet(reqs) => IsFiniteSet(rs)
  <2>1. reqs \in SUBSET reqs
    OBVIOUS
  <2> QED
    BY <2>1, ResumedIs DEF OrdersInv
<1> HIDE DEF rs
<1>3. /\ fetch' \in [Consoles -> [phase : {"none", "asked", "served"}, status : Orders!Statuses, version : Nat]]
      /\ fetch'[c].phase = "none"
      /\ \A d \in Consoles \ {c} : fetch'[d] = fetch[d]
  BY <1>1 DEF OrdersInv, OrderTypes, Orders!NoFetch, Orders!Statuses
<1>4. /\ row' \in [Consoles -> [status : Orders!Statuses, version : Nat]]
      /\ row'[c].version = fetch[c].version
      /\ \A d \in Consoles \ {c} : row'[d] = row[d]
  BY <1>1 DEF OrdersInv, OrderTypes
<1>5. OrderTypes'
  BY <1>1, <1>2, <1>3, <1>4 DEF OrdersInv, OrderTypes
<1>6. DialogsFit'
  BY <1>1 DEF OrdersInv, DialogsFit
<1>7. RunsCounted'
  BY <1>1, <1>2, CountKeeps DEF OrdersInv, IsWaiting, RunsCounted
<1>8. Fit'
  <2>1. Fit
    BY DEF OrdersInv, Fit
  <2>2. \A q \in reqs' : q \in reqs \/ q.phase \notin {"held", "written", "ran", "ok"}
    BY <1>1, <1>2
  <2>3. \A q \in reqs : q.phase = "ran" => q \in reqs'
    BY <1>1, <1>2
  <2> QED
    BY <1>1, <2>1, <2>2, <2>3, CalmKeeps DEF Orders!orderVars
<1>9. Seen'
  <2>1. ASSUME NEW q \in reqs'
        PROVE  /\ q.wrote <= version
               /\ q.phase = "fetching" => fetch'[q.by].phase # "none"
               /\ q.phase \in {"fetching", "done"} /\ fetch'[q.by].phase = "served" => q.wrote <= fetch'[q.by].version
               /\ q.phase = "done" /\ fetch'[q.by].phase = "none" => q.wrote <= row'[q.by].version
    <3>1. CASE q.by = c
      <4>1. PICK p \in reqs : p.wrote = q.wrote /\ p.by = c /\ (q.phase = "done" => p.phase \in {"fetching", "done"})
        BY <1>1, <1>2, <3>1
      <4>2. q.phase # "fetching"
        BY <1>1, <1>2, <3>1
      <4> QED
        BY <1>1, <1>3, <1>4, <3>1, <4>1, <4>2 DEF OrdersInv, Seen
    <3>2. CASE q.by # c
      <4>1. q \in reqs /\ q.by \in Consoles \ {c}
        BY <1>1, <1>2, <3>2, RequestTypes DEF OrdersInv
      <4> QED
        BY <1>3, <1>4, <4>1 DEF OrdersInv, Seen
    <3> QED
      BY <3>1, <3>2
  <2> QED
    BY <1>1, <2>1 DEF Seen
<1> QED
  BY <1>5, <1>6, <1>7, <1>8, <1>9 DEF OrdersInv, Fit

-----------------------------------------------------------------------------
(* The handlers that hold the order. *)

(* What a step that replaces request r by x has to show.                   *)
LEMMA HandlerStep ==
  ASSUME OrdersInv, NEW r \in reqs, NEW x \in Orders!Requests, reqs' = Orders!Moved(r, x),
         UNCHANGED <<kind, Orders!pageVars, issued, answered>>,
         status' \in Orders!Statuses, decided' \in {"none", "approved", "rejected"}, report' \in Orders!Reports,
         version' \in Nat, version <= version', ran' \in Nat, raced' \in BOOLEAN,
         RunsCounted', Fit', x.phase \notin {"fetching", "done"}, x.wrote <= version'
  PROVE  OrdersInv'
<1>1. UNCHANGED <<row, fetch, dialog, busy>>
  BY DEF Orders!pageVars
<1>2. \A q \in reqs' : q \in reqs \ {r} \/ q = x
  BY MovedIs
<1>3. OrderTypes'
  BY <1>1, <1>2 DEF OrdersInv, OrderTypes
<1>4. DialogsFit'
  BY <1>1 DEF OrdersInv, DialogsFit
<1>5. Seen'
  BY <1>1, <1>2, SeenKeeps DEF OrdersInv
<1> QED
  BY <1>3, <1>4, <1>5 DEF OrdersInv, Fit

(* The order's copy, as CopiesFit says, for the status it was read with.   *)
LEMMA OrderFits ==
  ASSUME OrderTypes, Orders!SummaryTellsStatus
  PROVE  /\ status = "approved" => decided = "approved" /\ report = "none"
         /\ status = "pending" => decided = "none" /\ report = "none"
         /\ Orders!Order \in [status : Orders!Statuses, decided : {"none", "approved", "rejected"}, report : Orders!Reports]
  BY DEF OrderTypes, Orders!SummaryTellsStatus, Orders!DecisionSummary, Orders!ExecutionSummary, Orders!Statuses, Orders!Ends, Orders!Reports, Orders!Order

(* What a handler that holds the order found in it. *)
LEMMA HeldCopy ==
  ASSUME CopiesFit, NEW r \in reqs, Orders!Holding(r)
  PROVE  /\ r.op = "execute" => r.copy.status = "approved" /\ r.copy.decided = "approved"
         /\ r.op # "execute" => r.copy.status = "pending" /\ r.copy.decided = "none"
         /\ r.copy.report = "none"
<1>1. r.copy = [status |-> IF r.op = "execute" THEN "approved" ELSE "pending",
                decided |-> IF r.op = "execute" THEN "approved" ELSE "none",
                report |-> "none"]
  BY DEF CopiesFit
<1> QED
  BY <1>1

LEMMA ReadKeeps ==
  ASSUME OrdersInv, NEW r \in reqs, Orders!Read(r)
  PROVE  OrdersInv'
<1> DEFINE x == [r EXCEPT !.phase = "held", !.copy = Orders!Order]
<1>1. /\ UNCHANGED <<kind, Orders!pageVars, issued, answered, status, decided, report, version, ran>>
      /\ r.phase = "sent" /\ Orders!MayProceed(r) /\ reqs' = Orders!Moved(r, x)
      /\ raced' = (raced \/ \E q \in reqs : Orders!Holding(q))
  BY DEF Orders!Read, Orders!orderVars
<1>2. /\ status = "approved" => decided = "approved" /\ report = "none"
      /\ status = "pending" => decided = "none" /\ report = "none"
      /\ Orders!Order \in [status : Orders!Statuses, decided : {"none", "approved", "rejected"}, report : Orders!Reports]
  BY OrderFits DEF OrdersInv
<1>3. r \in Orders!Requests
  BY DEF OrdersInv, OrderTypes
<1>4. /\ x \in Orders!Requests /\ x.phase = "held" /\ x.op = r.op /\ x.copy = Orders!Order /\ x.wrote = r.wrote
  BY <1>2, <1>3 DEF Orders!Requests
<1> HIDE DEF x
<1>5. \A q \in reqs' : q \in reqs \ {r} \/ q = x
  BY <1>1, MovedIs
<1>6. CopiesFit'
  <2>1. x.copy = [status |-> IF x.op = "execute" THEN "approved" ELSE "pending",
                  decided |-> IF x.op = "execute" THEN "approved" ELSE "none",
                  report |-> "none"]
    BY <1>1, <1>2, <1>4 DEF Orders!MayProceed, Orders!Order
  <2> QED
    BY <1>4, <1>5, <2>1 DEF OrdersInv, CopiesFit, Orders!Holding
<1>7. Orders!SummaryTellsStatus'
  BY <1>1 DEF OrdersInv, Orders!SummaryTellsStatus, Orders!DecisionSummary, Orders!ExecutionSummary
<1>8. InTurn'
  <2>1. SUFFICES ASSUME ~raced' PROVE OneHolder' /\ DecisionsStand' /\ RanOnce'
    BY DEF InTurn
  <2>2. ~raced /\ \A q \in reqs : ~Orders!Holding(q)
    BY <1>1, <2>1
  <2>3. OneHolder /\ DecisionsStand /\ RanOnce
    BY <2>2 DEF OrdersInv, InTurn
  <2>4. OneHolder'
    BY <1>1, <1>4, <1>5, <2>2 DEF OneHolder, Orders!Holding, Orders!Order
  <2>5. DecisionsStand'
    BY <1>1, <1>4, <1>5, <2>3 DEF DecisionsStand
  <2>6. ran = 0
    <3>1. status \notin Orders!Ends
      BY <1>1 DEF Orders!MayProceed, Orders!Ends
    <3> QED
      BY <2>2, <2>3, <3>1 DEF RanOnce, Orders!Holding
  <2>7. RanOnce'
    BY <1>1, <2>6 DEF RanOnce
  <2> QED
    BY <2>4, <2>5, <2>7
<1>9. RunsCounted'
  BY <1>1, <1>4, CountMoves DEF OrdersInv, IsWaiting
<1>10. raced' \in BOOLEAN
  BY <1>1
<1>11. version \in Nat /\ x.wrote <= version
  BY <1>4 DEF OrdersInv, OrderTypes, Seen
<1>12. /\ status' \in Orders!Statuses /\ decided' \in {"none", "approved", "rejected"} /\ report' \in Orders!Reports
       /\ version' \in Nat /\ version <= version' /\ ran' \in Nat
  BY <1>1, <1>11 DEF OrdersInv, OrderTypes
<1> QED
  BY <1>1, <1>4, <1>6, <1>7, <1>8, <1>9, <1>10, <1>11, <1>12, HandlerStep DEF Fit

LEMMA DecideKeeps ==
  ASSUME OrdersInv, NEW r \in reqs, Orders!Decide(r)
  PROVE  OrdersInv'
<1> DEFINE x == [r EXCEPT !.phase = "written", !.wrote = version + 1]
           v == Orders!Verdict(r.op)
<1>1. /\ UNCHANGED <<kind, Orders!pageVars, issued, answered, ran, raced>>
      /\ r.phase = "held" /\ r.op \in Orders!Decisions /\ reqs' = Orders!Moved(r, x)
      /\ status' = v /\ decided' = v /\ report' = r.copy.report /\ version' = version + 1
  BY DEF Orders!Decide
<1>2. r \in Orders!Requests /\ version \in Nat /\ ran \in Nat /\ raced \in BOOLEAN
  BY DEF OrdersInv, OrderTypes
<1>3. /\ x \in Orders!Requests /\ x.phase = "written" /\ x.op = r.op /\ x.copy = r.copy /\ x.wrote = version + 1
  <2> DEFINE n == version + 1
  <2>1. n \in Nat /\ "written" \in Phases /\ OrderTypes /\ x = [r EXCEPT !.phase = "written", !.wrote = n]
    BY <1>2 DEF Phases, OrdersInv
  <2> HIDE DEF n, x
  <2>2. x \in Orders!Requests /\ x.phase = "written" /\ x.op = r.op /\ x.copy = r.copy /\ x.wrote = n
    BY <1>2, <2>1 DEF Orders!Requests, Phases
  <2> QED
    BY <2>2 DEF n
<1> HIDE DEF x
<1>4. \A q \in reqs' : q \in reqs \ {r} \/ q = x
  BY <1>1, MovedIs
<1>5. /\ r.op # "execute" /\ r.copy.status = "pending" /\ r.copy.decided = "none" /\ r.copy.report = "none"
      /\ v \in {"approved", "rejected"}
  BY <1>1, HeldCopy DEF OrdersInv, Orders!Holding, Orders!Decisions, Orders!Verdict
<1>6. CopiesFit'
  BY <1>1, <1>3, <1>4, <1>5 DEF OrdersInv, CopiesFit, Orders!Holding
<1>7. Orders!SummaryTellsStatus'
  BY <1>1, <1>5 DEF Orders!SummaryTellsStatus, Orders!DecisionSummary, Orders!ExecutionSummary, Orders!Statuses, Orders!Ends
<1>8. InTurn'
  <2>1. SUFFICES ASSUME ~raced PROVE OneHolder' /\ DecisionsStand' /\ RanOnce'
    BY <1>1 DEF InTurn
  <2>2. OneHolder /\ DecisionsStand /\ RanOnce
    BY <2>1 DEF OrdersInv, InTurn
  <2>3. \A q \in reqs \ {r} : ~Orders!Holding(q)
    BY <1>1, <2>2 DEF OneHolder, Orders!Holding
  <2>4. decided = "none" /\ ran = 0
    BY <1>1, <1>5, <2>2 DEF OneHolder, RanOnce, Orders!Order
  <2>5. answered = {} /\ \A q \in reqs : q.phase = "ok" => q.op = "execute"
    <3>1. answered \subseteq {"approved", "rejected"} /\ answered \subseteq {"none"}
      BY <2>2, <2>4 DEF OrdersInv, OrderTypes, DecisionsStand
    <3>2. ASSUME NEW q \in reqs, q.phase = "ok" PROVE q.op = "execute"
      BY <2>2, <2>4, <3>2 DEF OrdersInv, CopiesFit, DecisionsStand, Orders!Verdict
    <3> QED
      BY <3>1, <3>2
  <2>6. OneHolder'
    BY <1>3, <1>4, <2>3 DEF OneHolder, Orders!Holding
  <2>7. DecisionsStand'
    BY <1>1, <1>3, <1>4, <2>3, <2>5 DEF DecisionsStand, Orders!Holding
  <2>8. RanOnce'
    BY <1>1, <2>4 DEF RanOnce
  <2> QED
    BY <2>6, <2>7, <2>8
<1>9. RunsCounted'
  BY <1>1, <1>3, CountMoves DEF OrdersInv, IsWaiting
<1>10. /\ status' \in Orders!Statuses /\ decided' \in {"none", "approved", "rejected"} /\ report' \in Orders!Reports
       /\ version' \in Nat /\ version <= version' /\ ran' \in Nat
  BY <1>1, <1>2, <1>5 DEF Orders!Statuses, Orders!Reports
<1> QED
  BY <1>1, <1>2, <1>3, <1>6, <1>7, <1>8, <1>9, <1>10, HandlerStep DEF Fit

LEMMA LogDecisionKeeps ==
  ASSUME OrdersInv, NEW r \in reqs, Orders!LogDecision(r)
  PROVE  OrdersInv'
<1> DEFINE x == [r EXCEPT !.phase = "ok", !.copy.decided = Orders!Verdict(r.op)]
<1>1. /\ UNCHANGED <<kind, Orders!pageVars, issued, answered, status, decided, report, version, ran, raced>>
      /\ r.phase = "written" /\ reqs' = Orders!Moved(r, x)
  BY DEF Orders!LogDecision, Orders!orderVars, Orders!history
<1>2. r \in Orders!Requests /\ version \in Nat /\ ran \in Nat /\ raced \in BOOLEAN /\ r.wrote <= version
  BY DEF OrdersInv, OrderTypes, Seen
<1>3. Orders!Verdict(r.op) \in {"none", "approved", "rejected"}
  BY DEF Orders!Verdict
<1>4. /\ x \in Orders!Requests /\ x.phase = "ok" /\ x.op = r.op /\ x.copy.decided = Orders!Verdict(r.op) /\ x.wrote = r.wrote
  BY <1>2, <1>3 DEF Orders!Requests
<1> HIDE DEF x
<1>5. \A q \in reqs' : q \in reqs \ {r} \/ q = x
  BY <1>1, MovedIs
<1>6. CopiesFit'
  BY <1>1, <1>4, <1>5 DEF OrdersInv, CopiesFit, Orders!Holding
<1>7. Orders!SummaryTellsStatus'
  BY <1>1 DEF OrdersInv, Orders!SummaryTellsStatus, Orders!DecisionSummary, Orders!ExecutionSummary
<1>8. InTurn'
  <2>1. SUFFICES ASSUME ~raced PROVE OneHolder' /\ DecisionsStand' /\ RanOnce'
    BY <1>1 DEF InTurn
  <2>2. OneHolder /\ DecisionsStand /\ RanOnce
    BY <2>1 DEF OrdersInv, InTurn
  <2>3. OneHolder'
    BY <1>1, <1>4, <1>5, <2>2 DEF OneHolder, Orders!Holding, Orders!Order
  <2>4. DecisionsStand'
    BY <1>1, <1>4, <1>5, <2>2 DEF DecisionsStand
  <2>5. RanOnce'
    BY <1>1, <2>2 DEF RanOnce
  <2> QED
    BY <2>3, <2>4, <2>5
<1>9. RunsCounted'
  BY <1>1, <1>4, CountMoves DEF OrdersInv, IsWaiting
<1>10. /\ status' \in Orders!Statuses /\ decided' \in {"none", "approved", "rejected"} /\ report' \in Orders!Reports
       /\ version' \in Nat /\ version <= version' /\ ran' \in Nat
  BY <1>1, <1>2 DEF OrdersInv, OrderTypes
<1> QED
  BY <1>1, <1>2, <1>4, <1>6, <1>7, <1>8, <1>9, <1>10, HandlerStep DEF Fit

LEMMA RestoreDecisionKeeps ==
  ASSUME OrdersInv, NEW r \in reqs, Orders!RestoreDecision(r)
  PROVE  OrdersInv'
<1> DEFINE x == [r EXCEPT !.phase = "error"]
<1>1. /\ UNCHANGED <<kind, Orders!pageVars, issued, answered, ran>> /\ raced' = TRUE
      /\ r.phase = "written" /\ reqs' = Orders!Moved(r, x)
      /\ status' = r.copy.status /\ decided' = r.copy.decided /\ report' = r.copy.report
      /\ version' = version + 1
  BY DEF Orders!RestoreDecision, Orders!To
<1>2. r \in Orders!Requests /\ version \in Nat /\ ran \in Nat /\ r.wrote <= version /\ r.wrote \in Nat
  BY RequestTypes DEF OrdersInv, OrderTypes, Seen
<1>3. /\ x \in Orders!Requests /\ x.phase = "error" /\ x.wrote = r.wrote
  BY <1>2 DEF Orders!Requests
<1> HIDE DEF x
<1>4. \A q \in reqs' : q \in reqs \ {r} \/ q = x
  BY <1>1, MovedIs
<1>5. r.copy.status = "pending" /\ r.copy.decided = "none" /\ r.copy.report = "none"
  <2>1. r.op # "execute"
    BY <1>1 DEF OrdersInv, CopiesFit
  <2> QED
    BY <1>1, <2>1, HeldCopy DEF OrdersInv, Orders!Holding
<1>6. CopiesFit'
  BY <1>3, <1>4 DEF OrdersInv, CopiesFit, Orders!Holding
<1>7. Orders!SummaryTellsStatus'
  BY <1>1, <1>5 DEF Orders!SummaryTellsStatus, Orders!DecisionSummary, Orders!ExecutionSummary, Orders!Statuses, Orders!Ends
<1>8. InTurn'
  BY <1>1 DEF InTurn
<1>9. RunsCounted'
  BY <1>1, <1>3, CountMoves DEF OrdersInv, IsWaiting
<1>10. /\ status' \in Orders!Statuses /\ decided' \in {"none", "approved", "rejected"} /\ report' \in Orders!Reports
       /\ version' \in Nat /\ version <= version' /\ ran' \in Nat /\ x.wrote <= version'
  BY <1>1, <1>2, <1>3, <1>5 DEF Orders!Statuses, Orders!Reports
<1>11. raced' \in BOOLEAN
  BY <1>1
<1> QED
  BY <1>1, <1>3, <1>6, <1>7, <1>8, <1>9, <1>10, <1>11, HandlerStep DEF Fit

LEMMA RunKeeps ==
  ASSUME OrdersInv, NEW r \in reqs, Orders!Run(r)
  PROVE  OrdersInv'
<1>1. PICK o \in Orders!Ends :
        /\ reqs' = Orders!Moved(r, [r EXCEPT !.phase = "ran", !.outcome = o])
        /\ ran' = IF o = "denied" THEN ran ELSE ran + 1
  BY DEF Orders!Run, Orders!Ends
<1> DEFINE x == [r EXCEPT !.phase = "ran", !.outcome = o]
<1>2. /\ UNCHANGED <<kind, Orders!pageVars, issued, answered, status, decided, report, version, raced>>
      /\ r.phase = "held" /\ r.op = "execute" /\ reqs' = Orders!Moved(r, x)
  BY <1>1 DEF Orders!Run, Orders!history
<1>3. r \in Orders!Requests /\ version \in Nat /\ ran \in Nat /\ raced \in BOOLEAN /\ r.wrote <= version
  BY DEF OrdersInv, OrderTypes, Seen
<1>4. /\ x \in Orders!Requests /\ x.phase = "ran" /\ x.op = r.op /\ x.copy = r.copy /\ x.wrote = r.wrote
  BY <1>1, <1>3 DEF Orders!Requests
<1> HIDE DEF x
<1>5. x \in reqs' /\ \A q \in reqs' : q \in reqs \ {r} \/ q = x
  BY <1>2, MovedIs
<1>6. CopiesFit'
  <2>1. r.copy = [status |-> "approved", decided |-> "approved", report |-> "none"]
    BY <1>2 DEF OrdersInv, CopiesFit, Orders!Holding
  <2> QED
    BY <1>2, <1>4, <1>5, <2>1 DEF OrdersInv, CopiesFit, Orders!Holding
<1>7. Orders!SummaryTellsStatus'
  BY <1>2 DEF OrdersInv, Orders!SummaryTellsStatus, Orders!DecisionSummary, Orders!ExecutionSummary
<1>8. InTurn'
  <2>1. SUFFICES ASSUME ~raced PROVE OneHolder' /\ DecisionsStand' /\ RanOnce'
    BY <1>2 DEF InTurn
  <2>2. OneHolder /\ DecisionsStand /\ RanOnce
    BY <2>1 DEF OrdersInv, InTurn
  <2>3. \A q \in reqs \ {r} : ~Orders!Holding(q)
    BY <1>2, <2>2 DEF OneHolder, Orders!Holding
  <2>4. r.copy = Orders!Order
    BY <1>2, <2>2 DEF OneHolder
  <2>5. OneHolder'
    BY <1>2, <1>4, <1>5, <2>3, <2>4 DEF OneHolder, Orders!Holding, Orders!Order
  <2>6. DecisionsStand'
    BY <1>2, <1>4, <1>5, <2>2 DEF DecisionsStand
  <2>7. ran = 0
    BY <1>2, <2>2 DEF RanOnce
  <2>8. RanOnce'
    BY <1>1, <1>4, <1>5, <2>3, <2>7 DEF RanOnce, Orders!Holding
  <2> QED
    BY <2>5, <2>6, <2>8
<1>9. RunsCounted'
  BY <1>1, <1>2, <1>4, CountRuns DEF OrdersInv, IsWaiting
<1>10. /\ status' \in Orders!Statuses /\ decided' \in {"none", "approved", "rejected"} /\ report' \in Orders!Reports
       /\ version' \in Nat /\ version <= version' /\ ran' \in Nat
  BY <1>1, <1>2, <1>3 DEF OrdersInv, OrderTypes
<1> QED
  BY <1>2, <1>3, <1>4, <1>6, <1>7, <1>8, <1>9, <1>10, HandlerStep DEF Fit

LEMMA PersistKeeps ==
  ASSUME OrdersInv, NEW r \in reqs, Orders!Persist(r)
  PROVE  OrdersInv'
<1> DEFINE p == IF r.outcome = "executed" THEN "ok" ELSE "error"
           x == [r EXCEPT !.phase = p, !.wrote = version + 1]
<1>1. /\ UNCHANGED <<kind, Orders!pageVars, issued, answered, ran, raced>>
      /\ r.phase = "ran" /\ reqs' = Orders!Moved(r, x)
      /\ status' = r.outcome /\ decided' = r.copy.decided /\ report' = Orders!ReportOf(r.outcome)
      /\ version' = version + 1
  BY DEF Orders!Persist, Orders!history
<1>2. r \in Orders!Requests /\ version \in Nat /\ ran \in Nat /\ raced \in BOOLEAN /\ r.outcome \in Orders!Ends
  BY RequestTypes DEF OrdersInv, OrderTypes
<1>3. p \in {"ok", "error"}
  OBVIOUS
<1> HIDE DEF p
<1>4. /\ x \in Orders!Requests /\ x.phase = p /\ x.op = r.op /\ x.wrote = version + 1
  <2> DEFINE n == version + 1
  <2>1. n \in Nat /\ p \in Phases /\ OrderTypes /\ x = [r EXCEPT !.phase = p, !.wrote = n]
    BY <1>2, <1>3 DEF Phases, OrdersInv
  <2> HIDE DEF n, x
  <2>2. x \in Orders!Requests /\ x.phase = p /\ x.op = r.op /\ x.copy = r.copy /\ x.wrote = n
    BY <1>2, <2>1 DEF Orders!Requests, Phases
  <2> QED
    BY <2>2 DEF n
<1> HIDE DEF x
<1>5. \A q \in reqs' : q \in reqs \ {r} \/ q = x
  BY <1>1, MovedIs
<1>6. r.op = "execute" /\ r.copy.decided = "approved"
  <2>1. r.op = "execute"
    BY <1>1 DEF OrdersInv, CopiesFit
  <2> QED
    BY <1>1, <2>1, HeldCopy DEF OrdersInv, Orders!Holding
<1>7. CopiesFit'
  BY <1>3, <1>4, <1>5, <1>6 DEF OrdersInv, CopiesFit, Orders!Holding
<1>8. Orders!SummaryTellsStatus'
  BY <1>1, <1>2, <1>6 DEF Orders!SummaryTellsStatus, Orders!DecisionSummary, Orders!ExecutionSummary, Orders!Ends, Orders!ReportOf
<1>9. InTurn'
  <2>1. SUFFICES ASSUME ~raced PROVE OneHolder' /\ DecisionsStand' /\ RanOnce'
    BY <1>1 DEF InTurn
  <2>2. OneHolder /\ DecisionsStand /\ RanOnce
    BY <2>1 DEF OrdersInv, InTurn
  <2>3. \A q \in reqs \ {r} : ~Orders!Holding(q)
    BY <1>1, <2>2 DEF OneHolder, Orders!Holding
  <2>4. decided' = decided
    BY <1>1, <2>2 DEF OneHolder, Orders!Order
  <2>5. OneHolder'
    BY <1>3, <1>4, <1>5, <2>3 DEF OneHolder, Orders!Holding
  <2>6. DecisionsStand'
    BY <1>1, <1>3, <1>4, <1>5, <1>6, <2>2, <2>4 DEF DecisionsStand
  <2>7. RanOnce'
    BY <1>1, <1>2, <1>3, <1>4, <1>5, <2>2, <2>3 DEF RanOnce, Orders!Holding
  <2> QED
    BY <2>5, <2>6, <2>7
<1>10. RunsCounted'
  BY <1>1, <1>3, <1>4, CountMoves DEF OrdersInv, IsWaiting
<1>11. /\ status' \in Orders!Statuses /\ decided' \in {"none", "approved", "rejected"} /\ report' \in Orders!Reports
       /\ version' \in Nat /\ version <= version' /\ ran' \in Nat
  BY <1>1, <1>2, <1>6 DEF Orders!Statuses, Orders!Reports, Orders!ReportOf
<1> QED
  BY <1>1, <1>2, <1>3, <1>4, <1>7, <1>8, <1>9, <1>10, <1>11, HandlerStep DEF Fit

LEMMA PersistFailsKeeps ==
  ASSUME OrdersInv, NEW r \in reqs, Orders!PersistFails(r)
  PROVE  OrdersInv'
<1> DEFINE x == [r EXCEPT !.phase = "error"]
<1>1. /\ UNCHANGED <<kind, Orders!pageVars, issued, answered, status, decided, report, version, ran>> /\ raced' = TRUE
      /\ r.phase = "ran" /\ reqs' = Orders!Moved(r, x)
  BY DEF Orders!PersistFails, Orders!To, Orders!orderVars
<1>2. r \in Orders!Requests /\ version \in Nat /\ ran \in Nat /\ r.wrote <= version /\ r.wrote \in Nat
  BY RequestTypes DEF OrdersInv, OrderTypes, Seen
<1>3. /\ x \in Orders!Requests /\ x.phase = "error" /\ x.wrote = r.wrote
  BY <1>2 DEF Orders!Requests
<1> HIDE DEF x
<1>4. \A q \in reqs' : q \in reqs \ {r} \/ q = x
  BY <1>1, MovedIs
<1>5. CopiesFit'
  BY <1>3, <1>4 DEF OrdersInv, CopiesFit, Orders!Holding
<1>6. Orders!SummaryTellsStatus'
  BY <1>1 DEF OrdersInv, Orders!SummaryTellsStatus, Orders!DecisionSummary, Orders!ExecutionSummary
<1>7. InTurn'
  BY <1>1 DEF InTurn
<1>8. RunsCounted'
  BY <1>1, <1>3, CountMoves DEF OrdersInv, IsWaiting
<1>9. /\ status' \in Orders!Statuses /\ decided' \in {"none", "approved", "rejected"} /\ report' \in Orders!Reports
      /\ version' \in Nat /\ version <= version' /\ ran' \in Nat /\ x.wrote <= version'
  BY <1>1, <1>2, <1>3 DEF OrdersInv, OrderTypes
<1>10. raced' \in BOOLEAN
  BY <1>1
<1> QED
  BY <1>1, <1>3, <1>5, <1>6, <1>7, <1>8, <1>9, <1>10, HandlerStep DEF Fit

-----------------------------------------------------------------------------
LEMMA OrdersInit ==
  ASSUME Orders!ConstantsOK, Orders!Init
  PROVE  OrdersInv
<1>1. reqs = {} /\ status = "pending" /\ decided = "none" /\ report = "none" /\ ran = 0 /\ answered = {}
  BY DEF Orders!Init
<1>2. OrderTypes
  <2>1. /\ row \in [Consoles -> [status : Orders!Statuses, version : Nat]]
        /\ fetch \in [Consoles -> [phase : {"none", "asked", "served"}, status : Orders!Statuses, version : Nat]]
        /\ dialog \in [Consoles -> [op : Orders!Decisions \cup {"none", "execute"}, mount : Nat]]
    BY DEF Orders!Init, Orders!Statuses, Orders!NoFetch, Orders!Nobody
  <2>2. busy \in [Consoles -> BOOLEAN] /\ raced \in BOOLEAN
    BY DEF Orders!Init
  <2>3. /\ kind \in {"sql", "command"} /\ status \in Orders!Statuses /\ report \in Orders!Reports
        /\ version \in Nat /\ ran \in Nat /\ issued \in 0 .. MaxRequests
    BY DEF Orders!Init, Orders!Statuses, Orders!Reports, Orders!ConstantsOK
  <2> QED
    BY <1>1, <2>1, <2>2, <2>3 DEF OrderTypes
<1>3. DialogsFit
  BY DEF Orders!Init, DialogsFit, Orders!Nobody, Orders!ConstantsOK
<1>4. RunsCounted
  <2>1. Waiting = {} /\ issued = 0
    BY <1>1 DEF Waiting, Orders!Init
  <2> QED
    BY <1>1, <2>1, FS_EmptySet DEF RunsCounted
<1>5. CopiesFit /\ Seen
  BY <1>1 DEF CopiesFit, Seen
<1>6. Orders!SummaryTellsStatus
  BY <1>1 DEF Orders!SummaryTellsStatus, Orders!DecisionSummary, Orders!ExecutionSummary, Orders!Statuses, Orders!Ends
<1>7. InTurn
  BY <1>1 DEF InTurn, OneHolder, DecisionsStand, RanOnce
<1> QED
  BY <1>2, <1>3, <1>4, <1>5, <1>6, <1>7 DEF OrdersInv

LEMMA OrdersKeep ==
  ASSUME Orders!ConstantsOK, OrdersInv, [Orders!Next]_Orders!vars
  PROVE  OrdersInv'
<1>1. ASSUME NEW c \in Consoles,
             \/ \E op \in Orders!Decisions \cup {"execute"} : Orders!OpenDialog(c, op)
             \/ Orders!DismissDialog(c) \/ Orders!Submit(c) \/ Orders!BootstrapServed(c) \/ Orders!BootstrapArrives(c)
      PROVE  OrdersInv'
  BY <1>1, OpenDialogKeeps, DismissKeeps, SubmitKeeps, ServedKeeps, ArrivesKeeps
<1>2. ASSUME NEW r \in reqs, Orders!Serve(r)
      PROVE  OrdersInv'
  BY <1>2, ReadKeeps, MovesKeep, DecideKeeps, LogDecisionKeeps, RestoreDecisionKeeps, RunKeeps,
     PersistKeeps, PersistFailsKeeps DEF Orders!Serve
<1>3. ASSUME NEW r \in reqs, Orders!Return(r)
      PROVE  OrdersInv'
  BY <1>3, FailedKeeps, SucceededKeeps, RefetchKeeps, MovesKeep DEF Orders!Return
<1>4. CASE UNCHANGED Orders!vars
  <2>1. UNCHANGED <<Orders!orderVars, row, fetch, dialog, busy, reqs, issued, Orders!history>>
    BY <1>4 DEF Orders!vars, Orders!pageVars
  <2>2. /\ dialog' \in [Consoles -> [op : Orders!Decisions \cup {"none", "execute"}, mount : Nat]]
        /\ busy' \in [Consoles -> BOOLEAN] /\ DialogsFit'
    BY <2>1 DEF OrdersInv, OrderTypes, DialogsFit
  <2> QED
    BY <2>1, <2>2, PageStep
<1> QED
  BY <1>1, <1>2, <1>3, <1>4 DEF Orders!Next

LEMMA OrdersInvariance == ASSUME Orders!ConstantsOK PROVE Orders!Spec => []OrdersInv
<1>1. Orders!Init => OrdersInv
  BY OrdersInit
<1>2. OrdersInv /\ [Orders!Next]_Orders!vars => OrdersInv'
  BY OrdersKeep
<1> QED
  BY <1>1, <1>2, PTL DEF Orders!Spec

LEMMA OrdersShow ==
  ASSUME Orders!ConstantsOK, OrdersInv
  PROVE  Orders!TypeOK /\ Orders!ExecutedWasApproved /\ Orders!RunsOnceUnlessRaced /\ Orders!AnsweredDecisionKept /\ Orders!SummaryTellsStatus /\ Orders!OwnWritesShown
<1>1. Orders!TypeOK
  <2>2. IsFiniteSet(Waiting)
    <3>1. Waiting \subseteq reqs
      BY DEF Waiting
    <3> QED
      BY <3>1, FS_Subset DEF OrdersInv, RunsCounted
  <2>3. Cardinality(Waiting) \in Nat
    BY <2>2, FS_CardinalityType
  <2>4. ran \in 0 .. MaxRequests
    BY <2>3 DEF OrdersInv, OrderTypes, RunsCounted, Orders!ConstantsOK
  <2> QED
    BY <2>4 DEF OrdersInv, OrderTypes, Orders!TypeOK
<1>2. Orders!ExecutedWasApproved
  BY HeldCopy DEF OrdersInv, Orders!ExecutedWasApproved
<1>3. Orders!RunsOnceUnlessRaced /\ Orders!AnsweredDecisionKept
  <2>2. CASE raced
    BY <2>2 DEF Orders!RunsOnceUnlessRaced, Orders!AnsweredDecisionKept
  <2>3. CASE ~raced
    <3>1. ran <= 1 /\ ran \in Nat /\ answered \subseteq {decided}
      BY <2>3 DEF OrdersInv, OrderTypes, InTurn, RanOnce, DecisionsStand
    <3> QED
      BY <3>1 DEF Orders!RunsOnceUnlessRaced, Orders!AnsweredDecisionKept
  <2> QED
    BY <2>2, <2>3
<1>4. Orders!OwnWritesShown
  <2>2. SUFFICES ASSUME NEW r \in reqs, r.phase = "done", fetch[r.by].phase = "none"
                 PROVE  row[r.by].version >= r.wrote
    BY DEF Orders!OwnWritesShown
  <2>3. r.by \in Consoles /\ r.wrote \in Nat
    BY RequestTypes DEF OrdersInv
  <2>4. row[r.by].version \in Nat
    BY <2>3 DEF OrdersInv, OrderTypes
  <2> QED
    BY <2>2, <2>3, <2>4 DEF OrdersInv, Seen
<1> QED
  BY <1>1, <1>2, <1>3, <1>4 DEF OrdersInv

LEMMA OrdersSettle == ASSUME Orders!ConstantsOK, OrdersInv, [Orders!Next]_Orders!vars PROVE Orders!SettledIsFinal
<1>1. SUFFICES ASSUME status \in Orders!Ends \cup {"rejected"}, status' # status
               PROVE  \E q \in reqs : Orders!Holding(q) /\ q.copy.status # status
  BY DEF Orders!SettledIsFinal
<1>2. PICK r \in reqs : Orders!Decide(r) \/ Orders!RestoreDecision(r) \/ Orders!Persist(r)
  <2>1. ASSUME NEW c \in Consoles,
               \/ \E op \in Orders!Decisions \cup {"execute"} : Orders!OpenDialog(c, op)
               \/ Orders!DismissDialog(c) \/ Orders!Submit(c) \/ Orders!BootstrapServed(c) \/ Orders!BootstrapArrives(c)
        PROVE  FALSE
    BY <1>1, <2>1 DEF Orders!OpenDialog, Orders!DismissDialog, Orders!Submit, Orders!BootstrapServed, Orders!BootstrapArrives, Orders!orderVars
  <2>2. ASSUME NEW r \in reqs, Orders!Return(r)
        PROVE  FALSE
    BY <1>1, <2>2 DEF Orders!Return, Orders!Failed, Orders!Succeeded, Orders!Refetch, Orders!Finish, Orders!GiveCode, Orders!CancelCode, Orders!orderVars
  <2>3. ASSUME NEW r \in reqs, Orders!Read(r) \/ Orders!Refuse(r) \/ Orders!AskCode(r) \/ Orders!LogDecision(r) \/ Orders!Run(r) \/ Orders!NotRun(r) \/ Orders!PersistFails(r)
        PROVE  FALSE
    BY <1>1, <2>3 DEF Orders!Read, Orders!Refuse, Orders!AskCode, Orders!LogDecision, Orders!Run, Orders!NotRun, Orders!PersistFails, Orders!orderVars
  <2> QED
    BY <1>1, <2>1, <2>2, <2>3 DEF Orders!Next, Orders!Serve, Orders!vars, Orders!orderVars
<1>3. Orders!Holding(r)
  BY <1>2 DEF Orders!Decide, Orders!RestoreDecision, Orders!Persist, Orders!Holding
<1>4. r.copy.status \in {"approved", "pending"}
  BY <1>1, <1>3, HeldCopy DEF OrdersInv
<1> QED
  BY <1>1, <1>3, <1>4 DEF Orders!Ends

(* The order, the pages and the requests hold values the code can give     *)
(* them; in particular a request runs the statement once at most.          *)
THEOREM ApprovalTypes == ASSUME Orders!ConstantsOK PROVE Orders!Spec => []Orders!TypeOK
<1>1. OrdersInv => Orders!TypeOK
  BY OrdersShow
<1> QED
  BY <1>1, OrdersInvariance, PTL

(* handleSQLWorkOrderExecute and its twin act on a copy that names who     *)
(* approved the order, whatever decisions and restores overlap.            *)
THEOREM OnlyApprovedOrdersRun == ASSUME Orders!ConstantsOK PROVE Orders!Spec => []Orders!ExecutedWasApproved
<1>1. OrdersInv => Orders!ExecutedWasApproved
  BY OrdersShow
<1> QED
  BY <1>1, OrdersInvariance, PTL

(* An approved order runs once, and an answered decision is the one the    *)
(* order holds, as long as no two handlers held it together and no write   *)
(* failed: for any number of consoles that press the buttons.              *)
THEOREM OrdersRunOnceInTurn ==
  ASSUME Orders!ConstantsOK PROVE Orders!Spec => [](Orders!RunsOnceUnlessRaced /\ Orders!AnsweredDecisionKept)
<1>1. OrdersInv => Orders!RunsOnceUnlessRaced /\ Orders!AnsweredDecisionKept
  BY OrdersShow
<1> QED
  BY <1>1, OrdersInvariance, PTL

(* The summary columns agree with the status, and the rows of a page that  *)
(* waits for nothing hold its own writes although refreshes cancel each    *)
(* other (SQLWorkOrderDecisionSummary, app.refresh).                       *)
THEOREM OrdersAreShownAsTheyAre ==
  ASSUME Orders!ConstantsOK PROVE Orders!Spec => [](Orders!SummaryTellsStatus /\ Orders!OwnWritesShown)
<1>1. OrdersInv => Orders!SummaryTellsStatus /\ Orders!OwnWritesShown
  BY OrdersShow
<1> QED
  BY <1>1, OrdersInvariance, PTL

(* A rejected or executed order changes no more once every handler that    *)
(* holds it has read it so: a second decision or run finds it settled.     *)
THEOREM SettledOrdersStay == ASSUME Orders!ConstantsOK PROVE Orders!Spec => [][Orders!SettledIsFinal]_Orders!vars
<1>1. OrdersInv /\ [Orders!Next]_Orders!vars => [Orders!SettledIsFinal]_Orders!vars
  BY OrdersSettle
<1> QED
  BY <1>1, OrdersInvariance, PTL DEF Orders!Spec

-----------------------------------------------------------------------------
(***************************************************************************)
(* The registration token. Whether the token on display is accepted        *)
(* depends on the numbers of the effect's runs: the newest one that was    *)
(* not abandoned is the one whose answer counts, and the server has made   *)
(* no token after it (TokenNumbers, TokenProgress, TokenNewest).           *)
(***************************************************************************)

TokenPhases == {"sent", "saved", "ok", "failed", "refresh", "fetching", "done"}

(* Runs are numbered as they are issued, and the effect's own run is the   *)
(* newest of them.                                                         *)
TokenNumbers ==
  /\ \A r \in runs : r.n \in 1 .. issued /\ r.before <= issued
  /\ \A q, r \in runs : q.n = r.n => q = r
  /\ shown <= issued /\ gen <= issued
  /\ run # 0 => open /\ run = issued
  /\ open /\ allowed => run # 0
  /\ ~allowed => run = 0

(* What the dialog shows follows from how far its own run has come.        *)
TokenProgress ==
  /\ open /\ ~allowed => error
  /\ \A r \in runs : Token!Alive(r) => /\ loading
                                       /\ r.phase \in {"refresh", "fetching"} => shown = r.n
                                       /\ r.phase = "done" => error \/ shown = r.n
  /\ open /\ allowed /\ (\A r \in runs : ~Token!Alive(r)) => error \/ shown = run

(* The newest token, once it is saved, stays the gateway's, and once it is *)
(* shown its run has been answered.                                        *)
TokenNewest ==
  /\ \A r \in runs : r.n = issued /\ r.phase \in {"saved", "ok"} => gen = issued \/ crossed
  /\ shown # 0 /\ shown = issued => /\ gen = issued \/ crossed
                                    /\ \A r \in runs : r.n = shown => r.phase \in {"refresh", "fetching", "done"}

TokenInv == Token!TypeOK /\ TokenNumbers /\ TokenProgress /\ TokenNewest

LEMMA TokenInit == ASSUME Token!ConstantsOK, Token!Init PROVE TokenInv
<1>1. fetch \in [phase : {"none", "asked", "served"}, seen : 0 .. writes]
  BY DEF Token!Init, Token!NoFetch
<1>2. 0 \in 0 .. MaxTokens /\ 0 \in 0 .. MaxOpenings /\ 0 \in 0 .. MaxChanges /\ 0 \in 0 .. writes
  BY DEF Token!ConstantsOK, Token!Init
<1>3. Token!TypeOK
  BY <1>1, <1>2 DEF Token!Init, Token!TypeOK
<1>4. TokenNumbers /\ TokenProgress /\ TokenNewest
  BY DEF Token!Init, TokenNumbers, TokenProgress, TokenNewest
<1> QED BY <1>3, <1>4 DEF TokenInv

LEMMA TokenBounds ==
  ASSUME Token!ConstantsOK, TokenInv
  PROVE  /\ MaxTokens \in Nat /\ MaxChanges \in Nat /\ MaxOpenings \in Nat
         /\ issued \in Nat /\ issued <= MaxTokens /\ gen \in Nat /\ shown \in Nat /\ run \in Nat
         /\ writes \in Nat /\ rows \in Nat /\ rows <= writes /\ fetch.seen \in 0 .. writes
         /\ \A r \in runs : r.n \in Nat /\ r.n <= issued /\ 1 <= r.n /\ r.before \in Nat
BY DEF Token!ConstantsOK, TokenInv, Token!TypeOK, TokenNumbers

(* A run that is started. *)
LEMMA TokenStarts ==
  ASSUME Token!ConstantsOK, TokenInv, issued < MaxTokens, runs' = runs \cup {Token!NewRun}, issued' = issued + 1, run' = issued + 1,
         open' = TRUE, loading' = TRUE, shown' \in {0, shown}, allowed,
         UNCHANGED <<gen, allowed, crossed>>
  PROVE  /\ runs' \subseteq [n : Token!Tokens, before : 0 .. MaxTokens, phase : TokenPhases]
         /\ issued' \in 0 .. MaxTokens /\ run' \in 0 .. MaxTokens
         /\ TokenNumbers' /\ TokenNewest' /\ (error' = FALSE => TokenProgress')
<1>1. /\ Token!NewRun \in [n : Token!Tokens, before : 0 .. MaxTokens, phase : TokenPhases] /\ Token!NewRun.n = issued + 1 /\ Token!NewRun.before = 0 /\ Token!NewRun.phase = "sent"
      /\ issued' \in 0 .. MaxTokens /\ run' \in 0 .. MaxTokens
  BY TokenBounds DEF Token!NewRun, Token!Tokens, TokenPhases
<1>2. runs \subseteq [n : Token!Tokens, before : 0 .. MaxTokens, phase : TokenPhases]
  BY DEF TokenInv, Token!TypeOK, TokenPhases
<1>3. TokenNumbers'
  <2>1. \A r \in runs' : r.n \in 1 .. issued' /\ r.before <= issued'
    BY <1>1, TokenBounds DEF TokenInv, TokenNumbers
  <2>2. \A q, r \in runs' : q.n = r.n => q = r
    BY <1>1, TokenBounds DEF TokenInv, TokenNumbers
  <2>3. shown' <= issued' /\ gen' <= issued'
    BY TokenBounds DEF TokenInv, TokenNumbers
  <2> QED BY <2>1, <2>2, <2>3, TokenBounds DEF TokenNumbers
<1>4. TokenNewest'
  <2>1. \A r \in runs' : r.n = issued' => r.phase = "sent"
    BY <1>1, TokenBounds
  <2>2. shown' < issued'
    BY TokenBounds DEF TokenInv, TokenNumbers
  <2> QED BY <2>1, <2>2, TokenBounds DEF TokenNewest
<1>5. error' = FALSE => TokenProgress'
  <2>1. \A r \in runs : ~(r.n = run')
    BY TokenBounds
  <2>2. Token!NewRun \in runs' /\ Token!NewRun.n = run' /\ \A r \in runs' : r.n = run' => r = Token!NewRun
    BY <1>1, <2>1
  <2> QED BY <1>1, <2>2 DEF TokenProgress, Token!Alive
<1> QED BY <1>1, <1>2, <1>3, <1>4, <1>5

LEMMA TokenStartKeeps == ASSUME Token!ConstantsOK, TokenInv, Token!Open \/ Token!RunEffectAgain PROVE TokenInv'
<1>1. CASE allowed
  <2>1. /\ runs' \subseteq [n : Token!Tokens, before : 0 .. MaxTokens, phase : TokenPhases]
         /\ issued' \in 0 .. MaxTokens /\ run' \in 0 .. MaxTokens
         /\ TokenNumbers' /\ TokenNewest' /\ TokenProgress'
    BY <1>1, TokenStarts DEF Token!Open, Token!RunEffectAgain, Token!server
  <2>2. shown' \in 0 .. MaxTokens /\ opening' \in 0 .. MaxOpenings
    BY TokenBounds DEF Token!Open, Token!RunEffectAgain, TokenInv, Token!TypeOK
  <2> QED
    BY <1>1, <2>1, <2>2 DEF Token!Open, Token!RunEffectAgain, Token!server, TokenInv, Token!TypeOK, TokenPhases
<1>2. CASE ~allowed
  <2>1. shown' \in 0 .. MaxTokens /\ opening' \in 0 .. MaxOpenings /\ (shown' = 0 \/ shown' = shown)
    BY TokenBounds DEF Token!Open, Token!RunEffectAgain, TokenInv, Token!TypeOK
  <2>2. UNCHANGED <<gen, writes, run, runs, issued, rows, fetch, changes, allowed, crossed>> /\ open' = TRUE /\ error' = TRUE /\ stale' = FALSE /\ loading' = FALSE
    BY <1>2 DEF Token!Open, Token!RunEffectAgain, Token!server
  <2>3. run = 0 
    BY <1>2 DEF TokenInv, TokenNumbers
  <2>4. Token!TypeOK'
    BY <2>1, <2>2 DEF TokenInv, Token!TypeOK
  <2>5. TokenNumbers'
    BY <1>2, <2>1, <2>2, <2>3, TokenBounds DEF TokenInv, TokenNumbers
  <2>6. TokenProgress'
    BY <1>2, <2>2, <2>3, TokenBounds DEF TokenProgress, Token!Alive
  <2>7. TokenNewest'
    BY <2>1, <2>2 DEF TokenInv, TokenNewest
  <2> QED BY <2>4, <2>5, <2>6, <2>7 DEF TokenInv
<1> QED BY <1>1, <1>2

LEMMA TokenRecords ==
  ASSUME Token!ConstantsOK, TokenInv, NEW r \in runs, NEW p \in TokenPhases
  PROVE  /\ r \in [n : Token!Tokens, before : 0 .. MaxTokens, phase : TokenPhases]
         /\ [r EXCEPT !.phase = p] \in [n : Token!Tokens, before : 0 .. MaxTokens, phase : TokenPhases]
         /\ [r EXCEPT !.phase = p].n = r.n /\ [r EXCEPT !.phase = p].phase = p /\ [r EXCEPT !.phase = p].before <= issued
         /\ [r EXCEPT !.phase = p, !.before = gen] \in [n : Token!Tokens, before : 0 .. MaxTokens, phase : TokenPhases]
         /\ [r EXCEPT !.phase = p, !.before = gen].n = r.n /\ [r EXCEPT !.phase = p, !.before = gen].phase = p
         /\ [r EXCEPT !.phase = p, !.before = gen].before <= issued
BY DEF TokenInv, Token!TypeOK, TokenNumbers, TokenPhases

(* One run is replaced by s, with the same number. *)
LEMMA TokenReplaced ==
  ASSUME Token!ConstantsOK, TokenInv, NEW r \in runs, NEW s, s.n = r.n, s.before <= issued,
         s \in [n : Token!Tokens, before : 0 .. MaxTokens, phase : TokenPhases],
         runs' = (runs \ {r}) \cup {s}, UNCHANGED <<issued, run, open, allowed>>,
         shown' <= issued, gen' <= issued
  PROVE  /\ runs' \subseteq [n : Token!Tokens, before : 0 .. MaxTokens, phase : TokenPhases]
         /\ TokenNumbers'
         /\ \A q \in runs' : q = s \/ (q \in runs /\ q.n # r.n)
         /\ (\A q \in runs' : q.n # run') => \A q \in runs : q.n # run
<1>1. \A q \in runs' : q = s \/ (q \in runs /\ q.n # r.n)
  BY DEF TokenInv, TokenNumbers
<1>2. runs' \subseteq [n : Token!Tokens, before : 0 .. MaxTokens, phase : TokenPhases]
  BY DEF TokenInv, Token!TypeOK, TokenPhases
<1>3. TokenNumbers'
  BY <1>1 DEF TokenInv, TokenNumbers
<1>4. (\A q \in runs' : q.n # run') => \A q \in runs : q.n # run
  OBVIOUS
<1> QED BY <1>1, <1>2, <1>3, <1>4

LEMMA TokenAnsweredKeeps == ASSUME Token!ConstantsOK, TokenInv, NEW r \in runs, Token!Answered(r) PROVE TokenInv'
<1>1. PICK p \in {"refresh", "done"} :
         /\ runs' = (runs \ {r}) \cup {[r EXCEPT !.phase = p]} 
         /\ IF Token!Alive(r) THEN p = "refresh" /\ shown' = r.n ELSE p = "done" /\ shown' = shown
  BY DEF Token!Answered, Token!To
<1> DEFINE s == [r EXCEPT !.phase = p]
<1>2. s.n = r.n /\ s.phase = p /\ s.before <= issued /\ s \in [n : Token!Tokens, before : 0 .. MaxTokens, phase : TokenPhases]
  BY TokenRecords DEF TokenPhases
<1>3. UNCHANGED <<Token!server, Token!page, loading, error, Token!counters, open, allowed, run, crossed>> /\ r.phase = "ok"
  BY DEF Token!Answered
<1> HIDE DEF s
<1>4. shown' <= issued /\ gen' <= issued /\ shown' \in 0 .. MaxTokens
  BY <1>1, <1>3, TokenBounds DEF Token!server, TokenInv, TokenNumbers
<1>5. /\ runs' \subseteq [n : Token!Tokens, before : 0 .. MaxTokens, phase : TokenPhases] /\ TokenNumbers'
      /\ \A q \in runs' : q = s \/ (q \in runs /\ q.n # r.n)
      /\ (\A q \in runs' : q.n # run') => \A q \in runs : q.n # run
  BY <1>1, <1>2, <1>3, <1>4, TokenReplaced DEF Token!counters, s
<1>6. Token!TypeOK'
  BY <1>3, <1>4, <1>5 DEF TokenInv, Token!TypeOK, TokenPhases, Token!server, Token!page, Token!counters
<1>7. TokenProgress'
  BY <1>1, <1>2, <1>3, <1>5 DEF TokenInv, TokenProgress, Token!Alive
<1>8. TokenNewest'
  BY <1>1, <1>2, <1>3, <1>5 DEF TokenInv, TokenNewest, TokenNumbers, Token!Alive, Token!server, Token!counters
<1> QED BY <1>5, <1>6, <1>7, <1>8 DEF TokenInv

(* The other steps of one run leave the token on display. *)
LEMMA TokenRunKeeps ==
  ASSUME Token!ConstantsOK, TokenInv, NEW r \in runs, Token!Failed(r) \/ Token!SaveToken(r) \/ Token!RefuseToken(r) \/ Token!LogToken(r) \/ Token!RestoreGateway(r)
  PROVE  TokenInv'
<1>1. PICK s : /\ runs' = (runs \ {r}) \cup {s} /\ s.n = r.n /\ s.before <= issued /\ s \in [n : Token!Tokens, before : 0 .. MaxTokens, phase : TokenPhases]
               /\ \/ Token!Failed(r) /\ s.phase = "done"
                  \/ Token!SaveToken(r) /\ s.phase = "saved"
                  \/ Token!RefuseToken(r) /\ s.phase = "failed"
                  \/ Token!LogToken(r) /\ s.phase = "ok"
                  \/ Token!RestoreGateway(r) /\ s.phase = "failed"
  <2>1. \A p \in TokenPhases : [r EXCEPT !.phase = p].before <= issued /\ [r EXCEPT !.phase = p].n = r.n /\ [r EXCEPT !.phase = p].phase = p /\ [r EXCEPT !.phase = p] \in [n : Token!Tokens, before : 0 .. MaxTokens, phase : TokenPhases]
    BY TokenRecords
  <2>2. "done" \in TokenPhases /\ "saved" \in TokenPhases /\ "failed" \in TokenPhases /\ "ok" \in TokenPhases
    BY DEF TokenPhases
  <2>3. CASE Token!SaveToken(r)
    <3> DEFINE s == [r EXCEPT !.phase = "saved", !.before = gen]
    <3>1. s.n = r.n /\ s.before <= issued /\ s.phase = "saved" /\ s \in [n : Token!Tokens, before : 0 .. MaxTokens, phase : TokenPhases]
      BY <2>2, TokenRecords
    <3>2. runs' = (runs \ {r}) \cup {s}
      BY <2>3 DEF Token!SaveToken
    <3> HIDE DEF s
    <3> QED BY <2>3, <3>1, <3>2
  <2> QED BY <2>1, <2>2, <2>3 DEF Token!Failed, Token!RefuseToken, Token!LogToken, Token!RestoreGateway, Token!To
<1>2. UNCHANGED <<Token!page, loading, shown, Token!counters, open, allowed, run>>
  BY DEF Token!Failed, Token!SaveToken, Token!RefuseToken, Token!LogToken, Token!RestoreGateway, Token!view
<1>3. writes' \in Nat /\ writes' >= writes /\ gen' \in {gen, r.n, r.before}
  BY TokenBounds DEF Token!Failed, Token!SaveToken, Token!RefuseToken, Token!LogToken, Token!RestoreGateway, Token!server
<1>4. gen' <= issued /\ gen' \in 0 .. MaxTokens
  BY <1>3, TokenBounds DEF TokenInv, TokenNumbers
<1>5. error' \in BOOLEAN /\ (error => error') /\ (Token!Failed(r) /\ Token!Alive(r) => error')
  <2>1. (Token!Alive(r) \/ error) \in BOOLEAN
    OBVIOUS
  <2> QED BY <2>1 DEF Token!Failed, Token!SaveToken, Token!RefuseToken, Token!LogToken, Token!RestoreGateway, Token!view, TokenInv, Token!TypeOK
<1>6. crossed' \in BOOLEAN /\ (crossed => crossed') /\ (gen' # gen => crossed' \/ gen <= r.n)
  <2>1. (crossed \/ gen > r.n) \in BOOLEAN
    OBVIOUS
  <2>2. crossed \in BOOLEAN
    BY DEF TokenInv, Token!TypeOK
  <2>3. \/ UNCHANGED <<gen, crossed>>
        \/ crossed' = (crossed \/ gen > r.n)
    BY DEF Token!Failed, Token!SaveToken, Token!RefuseToken, Token!LogToken, Token!RestoreGateway, Token!server
  <2>4. gen \in Nat /\ r.n \in Nat
    BY TokenBounds
  <2>5. CASE UNCHANGED <<gen, crossed>>
    BY <2>2, <2>5
  <2>6. CASE crossed' = (crossed \/ gen > r.n)
    <3>1. crossed' \in BOOLEAN
      BY <2>1, <2>6
    <3>2. gen <= r.n \/ gen > r.n
      BY <2>4
    <3> QED BY <2>6, <3>1, <3>2
  <2> QED BY <2>3, <2>5, <2>6
<1>7. /\ runs' \subseteq [n : Token!Tokens, before : 0 .. MaxTokens, phase : TokenPhases] /\ TokenNumbers'
      /\ \A q \in runs' : q = s \/ (q \in runs /\ q.n # r.n)
      /\ (\A q \in runs' : q.n # run') => \A q \in runs : q.n # run
  BY <1>1, <1>2, <1>4, TokenReplaced DEF Token!counters, TokenInv, TokenNumbers
<1>8. Token!TypeOK'
  <2>1. rows' \in 0 .. writes' /\ fetch' \in [phase : {"none", "asked", "served"}, seen : 0 .. writes']
    BY <1>2, <1>3, TokenBounds DEF Token!page, TokenInv, Token!TypeOK
  <2> QED BY <1>2, <1>3, <1>4, <1>5, <1>6, <1>7, <2>1 DEF TokenInv, Token!TypeOK, TokenPhases, Token!page, Token!counters
<1>9. TokenProgress'
  BY <1>1, <1>2, <1>5, <1>7 DEF TokenInv, TokenProgress, Token!Alive
<1>10. TokenNewest'
  BY <1>1, <1>2, <1>6, <1>7, TokenBounds DEF TokenInv, TokenNewest, TokenNumbers, Token!counters,
    Token!Failed, Token!SaveToken, Token!RefuseToken, Token!LogToken, Token!RestoreGateway, Token!server
<1> QED BY <1>7, <1>8, <1>9, <1>10 DEF TokenInv

LEMMA TokenFinallyKeeps == ASSUME Token!ConstantsOK, TokenInv, NEW r \in runs, Token!Finally(r) PROVE TokenInv'
<1>1. UNCHANGED <<Token!server, Token!page, error, shown, Token!counters, open, allowed, run, crossed>> /\ runs' = runs \ {r} /\ r.phase = "done"
      /\ loading' = (loading /\ ~Token!Alive(r))
  BY DEF Token!Finally
<1>2. loading' \in BOOLEAN
  <2>1. (loading /\ ~Token!Alive(r)) \in BOOLEAN
    OBVIOUS
  <2> QED BY <1>1, <2>1
<1>3. \A q \in runs' : q.n # r.n
  BY <1>1 DEF TokenInv, TokenNumbers
<1>4. Token!TypeOK'
  BY <1>1, <1>2 DEF TokenInv, Token!TypeOK, Token!server, Token!page, Token!counters
<1>5. TokenNumbers' /\ TokenNewest'
  BY <1>1 DEF TokenInv, TokenNumbers, TokenNewest, Token!server, Token!counters
<1>6. TokenProgress'
  BY <1>1, <1>3 DEF TokenInv, TokenProgress, Token!Alive
<1> QED BY <1>4, <1>5, <1>6 DEF TokenInv

(* A refetch or the arrival of its data moves runs on that wait for it. *)
LEMMA TokenAllMove ==
  ASSUME Token!ConstantsOK, TokenInv, NEW F,
         runs' = {F[q] : q \in runs},
         \A q \in runs : /\ F[q].n = q.n /\ F[q].before = q.before
                         /\ F[q] \in [n : Token!Tokens, before : 0 .. MaxTokens, phase : TokenPhases]
                         /\ \/ F[q].phase = q.phase
                            \/ q.phase = "refresh" /\ F[q].phase = "fetching"
                            \/ q.phase = "fetching" /\ F[q].phase = "done",
         UNCHANGED <<gen, Token!view, Token!counters, open, allowed, run, crossed>>
  PROVE  /\ runs' \subseteq [n : Token!Tokens, before : 0 .. MaxTokens, phase : TokenPhases]
         /\ TokenNumbers' /\ TokenProgress' /\ TokenNewest'
<1>1. \A s \in runs' : \E q \in runs : s = F[q]
  OBVIOUS
<1>2. runs' \subseteq [n : Token!Tokens, before : 0 .. MaxTokens, phase : TokenPhases]
  BY <1>1
<1>3. TokenNumbers'
  BY <1>1 DEF TokenInv, TokenNumbers, Token!view, Token!counters
<1>4. TokenProgress'
  <2>1. \A q \in runs : F[q] \in runs'
    OBVIOUS
  <2> QED BY <1>1, <2>1 DEF TokenInv, TokenProgress, Token!Alive, Token!view
<1>5. TokenNewest'
  BY <1>1 DEF TokenInv, TokenNewest, Token!view, Token!counters
<1> QED BY <1>2, <1>3, <1>4, <1>5

LEMMA TokenFetchKeeps ==
  ASSUME Token!ConstantsOK, TokenInv, Token!BootstrapArrives \/ \E r \in runs : Token!Refetch(r)
  PROVE  TokenInv'
<1>1. PICK F : /\ runs' = {F[q] : q \in runs}
               /\ \A q \in runs : \/ F[q] = q
                                  \/ q.phase = "refresh" /\ F[q] = [q EXCEPT !.phase = "fetching"]
                                  \/ q.phase = "fetching" /\ F[q] = [q EXCEPT !.phase = "done"]
  <2>1. CASE Token!BootstrapArrives
    <3> WITNESS [q \in runs |-> IF q.phase = "fetching" THEN [q EXCEPT !.phase = "done"] ELSE q]
    <3> QED BY <2>1 DEF Token!BootstrapArrives
  <2>2. ASSUME NEW r \in runs, Token!Refetch(r)
        PROVE  \E F : /\ runs' = {F[q] : q \in runs}
                      /\ \A q \in runs : \/ F[q] = q
                                         \/ q.phase = "refresh" /\ F[q] = [q EXCEPT !.phase = "fetching"]
                                         \/ q.phase = "fetching" /\ F[q] = [q EXCEPT !.phase = "done"]
    <3> WITNESS [q \in runs |-> IF q = r THEN [q EXCEPT !.phase = "fetching"]
                                ELSE IF q.phase = "fetching" THEN [q EXCEPT !.phase = "done"] ELSE q]
    <3> QED BY <2>2 DEF Token!Refetch
  <2> QED BY <2>1, <2>2
<1>2. \A q \in runs : /\ F[q].n = q.n /\ F[q].before = q.before
                      /\ F[q] \in [n : Token!Tokens, before : 0 .. MaxTokens, phase : TokenPhases]
                      /\ \/ F[q].phase = q.phase
                         \/ q.phase = "refresh" /\ F[q].phase = "fetching"
                         \/ q.phase = "fetching" /\ F[q].phase = "done"
  <2>1. "fetching" \in TokenPhases /\ "done" \in TokenPhases
    BY DEF TokenPhases
  <2>2. \A q \in runs, p \in TokenPhases :
          /\ q \in [n : Token!Tokens, before : 0 .. MaxTokens, phase : TokenPhases]
          /\ [q EXCEPT !.phase = p] \in [n : Token!Tokens, before : 0 .. MaxTokens, phase : TokenPhases]
          /\ [q EXCEPT !.phase = p].n = q.n /\ [q EXCEPT !.phase = p].before = q.before /\ [q EXCEPT !.phase = p].phase = p
    BY DEF TokenInv, Token!TypeOK, TokenPhases
  <2> TAKE q \in runs
  <2>3. CASE F[q] = q
    BY <2>1, <2>2, <2>3
  <2>4. CASE q.phase = "refresh" /\ F[q] = [q EXCEPT !.phase = "fetching"]
    BY <2>1, <2>2, <2>4
  <2>5. CASE q.phase = "fetching" /\ F[q] = [q EXCEPT !.phase = "done"]
    BY <2>1, <2>2, <2>5
  <2> QED BY <1>1, <2>3, <2>4, <2>5
<1>3. UNCHANGED <<Token!server, Token!view, Token!counters, open, allowed, run, crossed>>
  BY DEF Token!BootstrapArrives, Token!Refetch
<1>4. /\ runs' \subseteq [n : Token!Tokens, before : 0 .. MaxTokens, phase : TokenPhases]
      /\ TokenNumbers' /\ TokenProgress' /\ TokenNewest'
  BY <1>1, <1>2, <1>3, TokenAllMove DEF Token!server
<1>5. rows' \in 0 .. writes /\ fetch' \in [phase : {"none", "asked", "served"}, seen : 0 .. writes]
  <2>1. [phase |-> "asked", seen |-> 0] \in [phase : {"none", "asked", "served"}, seen : 0 .. writes] /\ Token!NoFetch \in [phase : {"none", "asked", "served"}, seen : 0 .. writes]
    BY TokenBounds DEF Token!NoFetch
  <2> QED BY <2>1, TokenBounds DEF Token!BootstrapArrives, Token!Refetch, TokenInv, Token!TypeOK
<1>6. stale' \in BOOLEAN
  <2>1. (stale \/ fetch.seen # rows) \in BOOLEAN
    OBVIOUS
  <2> QED BY <2>1 DEF Token!BootstrapArrives, Token!Refetch, TokenInv, Token!TypeOK
<1> QED
  BY <1>3, <1>4, <1>5, <1>6 DEF TokenInv, Token!TypeOK, TokenPhases, Token!server, Token!view, Token!counters

LEMMA TokenKeeps == ASSUME Token!ConstantsOK, TokenInv, [Token!Next]_Token!vars PROVE TokenInv'
<1>1. CASE Token!Close
  <2>1. UNCHANGED <<Token!server, Token!page, Token!counters, allowed, runs, crossed>> /\ open' = FALSE /\ run' = 0 /\ loading' = FALSE /\ error' = FALSE /\ shown' = 0
    BY <1>1 DEF Token!Close
  <2>2. Token!TypeOK'
    <3>1. 0 \in 0 .. MaxTokens
      BY TokenBounds
    <3> QED BY <2>1, <3>1 DEF TokenInv, Token!TypeOK, Token!server, Token!page, Token!counters
  <2>3. TokenNumbers' /\ TokenNewest'
    BY <2>1, TokenBounds DEF TokenInv, TokenNumbers, TokenNewest, Token!server, Token!counters
  <2>4. \A r \in runs' : r.n # run'
    BY <2>1, TokenBounds
  <2>5. TokenProgress'
    BY <2>1, <2>4 DEF TokenProgress, Token!Alive
  <2> QED BY <2>2, <2>3, <2>5 DEF TokenInv
<1>2. CASE Token!BootstrapServed \/ Token!ThemeChanges \/ Token!OtherWrite \/ UNCHANGED Token!vars
  <2>1. UNCHANGED <<gen, rows, opening, issued, Token!view, open, allowed, run, runs, crossed>>
    BY <1>2 DEF Token!BootstrapServed, Token!ThemeChanges, Token!OtherWrite, Token!server, Token!page, Token!counters, Token!vars
  <2>2. writes' \in Nat /\ writes' >= writes /\ changes' \in 0 .. MaxChanges
    <3>1. writes \in Nat /\ changes \in 0 .. MaxChanges /\ MaxChanges \in Nat
      BY TokenBounds DEF TokenInv, Token!TypeOK
    <3> QED BY <1>2, <3>1 DEF Token!BootstrapServed, Token!ThemeChanges, Token!OtherWrite, Token!server, Token!counters, Token!vars
  <2>6. stale' \in BOOLEAN
    BY <1>2 DEF Token!BootstrapServed, Token!ThemeChanges, Token!OtherWrite, Token!page, Token!vars, TokenInv, Token!TypeOK
  <2>3. fetch' \in [phase : {"none", "asked", "served"}, seen : 0 .. writes']
    BY <1>2, <2>2, TokenBounds DEF Token!BootstrapServed, Token!ThemeChanges, Token!OtherWrite, Token!server, Token!page, Token!vars, TokenInv, Token!TypeOK
  <2>4. Token!TypeOK'
    BY <2>1, <2>2, <2>3, <2>6, TokenBounds DEF TokenInv, Token!TypeOK, Token!view
  <2>5. TokenNumbers' /\ TokenNewest' /\ TokenProgress'
    BY <2>1 DEF TokenInv, TokenNumbers, TokenNewest, TokenProgress, Token!Alive, Token!view
  <2> QED BY <2>4, <2>5 DEF TokenInv
<1> QED
  BY <1>1, <1>2, TokenStartKeeps, TokenAnsweredKeeps, TokenRunKeeps, TokenFinallyKeeps, TokenFetchKeeps DEF Token!Next

LEMMA TokenInvariance == ASSUME Token!ConstantsOK PROVE Token!Spec => []TokenInv
<1>1. Token!Init => TokenInv
  BY TokenInit
<1>2. TokenInv /\ [Token!Next]_Token!vars => TokenInv'
  BY TokenKeeps
<1> QED BY <1>1, <1>2, PTL DEF Token!Spec

LEMMA TokenShows == ASSUME Token!ConstantsOK, TokenInv PROVE Token!FieldsHaveToken /\ Token!ShownIsValid
<1>1. Token!FieldsHaveToken
  BY DEF TokenInv, TokenNumbers, TokenProgress, Token!FieldsHaveToken
<1>2. Token!ShownIsValid
  BY TokenBounds DEF TokenInv, TokenNumbers, TokenProgress, TokenNewest, Token!ShownIsValid
<1> QED BY <1>1, <1>2

LEMMA TokenNeverOlder == ASSUME Token!ConstantsOK, TokenInv, [Token!Next]_Token!vars PROVE Token!ShownNeverOlder
<1> SUFFICES ASSUME open, open' PROVE shown' >= shown
  BY DEF Token!ShownNeverOlder
<1>1. shown' = shown \/ \E r \in runs : Token!Alive(r) /\ shown' = r.n
  BY DEF Token!Next, Token!vars, Token!view, Token!Open, Token!RunEffectAgain, Token!Close, Token!BootstrapServed, Token!BootstrapArrives, Token!ThemeChanges, Token!OtherWrite,
         Token!Answered, Token!Failed, Token!Finally, Token!Refetch, Token!SaveToken, Token!RefuseToken, Token!LogToken, Token!RestoreGateway
<1> QED BY <1>1, TokenBounds DEF Token!Alive, TokenInv, TokenNumbers

(* For any number of tokens, openings and changes: the fields that show a  *)
(* command have a token, and one that the server still accepts although    *)
(* every run of the effect makes another (AgentGatewayTokenDialog).        *)
THEOREM ShownTokensWork == ASSUME Token!ConstantsOK PROVE Token!Spec => [](Token!TypeOK /\ Token!FieldsHaveToken /\ Token!ShownIsValid)
<1>1. TokenInv => Token!TypeOK /\ Token!FieldsHaveToken /\ Token!ShownIsValid
  BY TokenShows DEF TokenInv
<1> QED BY <1>1, TokenInvariance, PTL

(* While the dialog stays open its token is only replaced by a later one,  *)
(* whatever answer arrives late: a run that was overtaken is ignored.      *)
THEOREM LateTokensAreIgnored == ASSUME Token!ConstantsOK PROVE Token!Spec => [][Token!ShownNeverOlder]_Token!vars
<1>1. TokenInv /\ [Token!Next]_Token!vars => [Token!ShownNeverOlder]_Token!vars
  BY TokenNeverOlder
<1> QED BY <1>1, TokenInvariance, PTL DEF Token!Spec

-----------------------------------------------------------------------------
(***************************************************************************)
(* The operation dialogs. A request is known by its number and by the      *)
(* mount of its dialog; that the request of a dialog that saves is its     *)
(* last one, and disables its button, is what the properties rest on       *)
(* (OpNumbers), and for the rows which writes the fetch under way has seen *)
(* (OpFresh).                                                              *)
(***************************************************************************)

OpRequests == [n : 1 .. issued, kind : Kinds, mount : 1 .. MaxRequests + 1, phase : Operations!Phases, wrote : 0 .. store]

(* Requests have numbers and dialogs of their own; the request of a dialog *)
(* that saves is its last one, and keeps its button disabled.              *)
OpNumbers ==
  /\ Operations!TypeOK /\ store \in Nat /\ sent \in Seq(Nat) /\ Len(sent) = issued
  /\ \A n \in 1 .. issued : sent[n] \in 1 .. n
  /\ slot # Operations!None => slot.mount <= issued + 1
  /\ \A q, r \in reqs : q.n = r.n => q = r
  /\ \A r \in reqs : sent[r.n] = r.mount
  /\ \A r \in reqs : ~Operations!Kind(r).loads => \A n \in 1 .. issued : sent[n] = r.mount => n <= r.n
  /\ \A q, r \in reqs : q.mount = r.mount => q.kind = r.kind
  /\ slot # Operations!None => \A r \in reqs : r.mount = slot.mount => r.kind = slot.kind /\ (~Operations!Kind(r).loads => busy)

(* A write the page knows of is in its rows, in the answer under way, or   *)
(* has a refresh to come.                                                  *)
OpRefreshing == \E r \in reqs : r.phase = "refresh"
OpFresh ==
  /\ fetch.phase = "none" => rows >= acked \/ OpRefreshing
  /\ fetch.phase = "served" => fetch.seen >= acked \/ OpRefreshing
  /\ fetch.phase # "none" => \E r \in reqs : r.phase = "fetching"

OpInv == OpNumbers /\ Operations!OneRequestPerDialog /\ Operations!ResultIsOwn /\ Operations!SummaryOfLastAttempt /\ OpFresh

LEMMA OpKinds ==
  ASSUME Operations!ConstantsOK, NEW k \in Kinds
  PROVE  /\ Operations!Dialogs[k].blank \in BOOLEAN /\ Operations!Dialogs[k].loads \in BOOLEAN /\ Operations!Dialogs[k].resets \in BOOLEAN
         /\ Operations!Dialogs[k].resets => ~Operations!Dialogs[k].loads
<1>1. \A d \in {Operations!AssetImport, Operations!UserImport, Operations!BulkAuthorize, Operations!CertificateCreate, Operations!CertificateUpload, Operations!CertificateMTLS, Operations!CertificateACME,
                Operations!CertificateLogs, Operations!TaskLogs, Operations!SSHExec} :
        d.blank \in BOOLEAN /\ d.loads \in BOOLEAN /\ d.resets \in BOOLEAN /\ (d.resets => ~d.loads)
  <2>1. Operations!AssetImport.blank = FALSE /\ Operations!AssetImport.loads = FALSE /\ Operations!AssetImport.resets = TRUE
    BY DEF Operations!AssetImport, Operations!Plain
  <2>2. Operations!UserImport.blank = FALSE /\ Operations!UserImport.loads = FALSE /\ Operations!UserImport.resets = TRUE
    BY DEF Operations!UserImport, Operations!Plain
  <2>3. Operations!BulkAuthorize.blank = TRUE /\ Operations!BulkAuthorize.loads = FALSE /\ Operations!BulkAuthorize.resets = FALSE
    BY DEF Operations!BulkAuthorize, Operations!Plain
  <2>4. Operations!CertificateCreate.blank = TRUE /\ Operations!CertificateCreate.loads = FALSE /\ Operations!CertificateCreate.resets = FALSE
    BY DEF Operations!CertificateCreate, Operations!Plain
  <2>5. Operations!CertificateUpload.blank = TRUE /\ Operations!CertificateUpload.loads = FALSE /\ Operations!CertificateUpload.resets = FALSE
    BY DEF Operations!CertificateUpload, Operations!Plain
  <2>6. Operations!CertificateMTLS.blank = FALSE /\ Operations!CertificateMTLS.loads = FALSE /\ Operations!CertificateMTLS.resets = FALSE
    BY DEF Operations!CertificateMTLS, Operations!Plain
  <2>7. Operations!CertificateACME.blank = TRUE /\ Operations!CertificateACME.loads = FALSE /\ Operations!CertificateACME.resets = FALSE
    BY DEF Operations!CertificateACME, Operations!Plain
  <2>8. Operations!CertificateLogs.blank = FALSE /\ Operations!CertificateLogs.loads = TRUE /\ Operations!CertificateLogs.resets = FALSE
    BY DEF Operations!CertificateLogs, Operations!Plain
  <2>9. Operations!TaskLogs.blank = FALSE /\ Operations!TaskLogs.loads = TRUE /\ Operations!TaskLogs.resets = FALSE
    BY DEF Operations!TaskLogs, Operations!Plain
  <2>10. Operations!SSHExec.blank = FALSE /\ Operations!SSHExec.loads = FALSE /\ Operations!SSHExec.resets = FALSE
    BY DEF Operations!SSHExec, Operations!Plain
  <2> QED BY <2>1, <2>2, <2>3, <2>4, <2>5, <2>6, <2>7, <2>8, <2>9, <2>10
<1>2. Operations!Dialogs[k] \in {Operations!AssetImport, Operations!UserImport, Operations!BulkAuthorize, Operations!CertificateCreate, Operations!CertificateUpload, Operations!CertificateMTLS, Operations!CertificateACME,
                      Operations!CertificateLogs, Operations!TaskLogs, Operations!SSHExec}
  BY DEF Operations!ConstantsOK, Operations!Dialogs
<1> QED BY <1>1, <1>2

LEMMA OpInit == ASSUME Operations!ConstantsOK, Operations!Init PROVE OpInv
<1>1. slot = Operations!None /\ filled = FALSE /\ busy = FALSE /\ result = 0 /\ reqs = {} /\ issued = 0 /\ sent = <<>> /\ store = 0 /\ rows = 0 /\ acked = 0
      /\ fetch.phase = "none" /\ fetch.seen = 0 /\ fetch \in [phase : {"none", "asked", "served"}, seen : 0 .. store]
  BY DEF Operations!Init, Operations!NoFetch
<1>2. 0 \in 0 .. MaxRequests /\ page \in {"console", "access"} /\ allowed \in BOOLEAN
  BY DEF Operations!Init, Operations!ConstantsOK
<1>3. sent \in Seq(Nat) /\ Len(sent) = 0 /\ DOMAIN sent = 1 .. issued
  BY <1>1
<1>4. Operations!TypeOK
  BY <1>1, <1>2, <1>3 DEF Operations!TypeOK
<1>5. OpNumbers
  BY <1>1, <1>3, <1>4 DEF OpNumbers
<1> QED BY <1>1, <1>5 DEF OpInv, Operations!OneRequestPerDialog, Operations!ResultIsOwn, Operations!SummaryOfLastAttempt, OpFresh

LEMMA OpFields ==
  ASSUME Operations!ConstantsOK, OpNumbers, NEW r \in reqs
  PROVE  /\ r \in OpRequests /\ r.n \in 1 .. issued /\ r.kind \in Kinds /\ r.mount \in 1 .. issued /\ r.mount \in 1 .. MaxRequests + 1
         /\ r.phase \in Operations!Phases /\ r.wrote \in 0 .. store /\ Operations!Kind(r).loads \in BOOLEAN /\ issued \in Nat /\ store \in Nat /\ MaxRequests \in Nat
<1>1. r \in OpRequests /\ issued \in Nat /\ MaxRequests \in Nat
  BY DEF OpNumbers, Operations!TypeOK, OpRequests, Operations!ConstantsOK
<1>2. r.n \in 1 .. issued /\ r.kind \in Kinds /\ r.mount \in 1 .. MaxRequests + 1 /\ r.phase \in Operations!Phases /\ r.wrote \in 0 .. store
  BY <1>1 DEF OpRequests
<1>3. r.mount \in 1 .. issued
  <2>1. sent[r.n] = r.mount /\ sent[r.n] \in 1 .. r.n
    BY <1>2 DEF OpNumbers
  <2> QED BY <1>1, <1>2, <2>1
<1>4. Operations!Kind(r).loads \in BOOLEAN
  BY <1>2, OpKinds DEF Operations!Kind
<1> QED BY <1>1, <1>2, <1>3, <1>4 DEF OpNumbers

(* The requests after a step are some of those before it, in other phases. *)
OpLike(x, q) == x.n = q.n /\ x.kind = q.kind /\ x.mount = q.mount
OpShape ==
  /\ store' \in Nat /\ store' >= store /\ reqs' \subseteq OpRequests'
  /\ \A x \in reqs' : \E q \in reqs : OpLike(x, q)
  /\ \A x, y \in reqs' : x.n = y.n => x = y

LEMMA OpMoves ==
  ASSUME Operations!ConstantsOK, OpInv, OpShape, UNCHANGED <<page, allowed, issued, sent>>, slot' \in {slot, Operations!None},
         filled' \in BOOLEAN, busy' \in BOOLEAN, rows' \in 0 .. store', acked' \in 0 .. store',
         fetch' \in [phase : {"none", "asked", "served"}, seen : 0 .. store'],
         slot' # Operations!None => busy' = busy \/ \A x \in reqs' : x.mount = slot.mount => Operations!Kind(x).loads,
         result' \in {0, result} \/ \E r \in reqs : r.mount = slot.mount /\ result' = r.n
  PROVE  OpNumbers' /\ Operations!OneRequestPerDialog' /\ Operations!ResultIsOwn' /\ Operations!SummaryOfLastAttempt'
<1>1. OpNumbers /\ Operations!OneRequestPerDialog /\ Operations!ResultIsOwn /\ Operations!SummaryOfLastAttempt /\ issued \in Nat
  BY DEF OpInv, OpNumbers, Operations!TypeOK
<1>2. Operations!TypeOK'
  <2>1. result' \in 0 .. issued
    <3>1. \A r \in reqs : r.n \in 1 .. issued
      BY <1>1, OpFields
    <3>2. result \in 0 .. issued
      BY <1>1 DEF OpNumbers, Operations!TypeOK
    <3> QED BY <1>1, <3>1, <3>2
  <2>2. slot' \in {Operations!None} \cup [kind : Kinds, mount : 1 .. MaxRequests + 1]
    BY <1>1 DEF OpNumbers, Operations!TypeOK
  <2>3. reqs' \subseteq [n : 1 .. issued', kind : Kinds, mount : 1 .. MaxRequests + 1, phase : Operations!Phases, wrote : 0 .. store']
    BY DEF OpShape, OpRequests
  <2> QED BY <1>1, <2>1, <2>2, <2>3 DEF OpNumbers, Operations!TypeOK
<1>3. ASSUME NEW x \in reqs'
      PROVE  /\ sent[x.n] = x.mount /\ (Operations!Kind(x).loads <=> Operations!Kind(x)'.loads)
             /\ ~Operations!Kind(x).loads => \A n \in 1 .. issued : sent[n] = x.mount => n <= x.n
             /\ (slot' # Operations!None /\ x.mount = slot.mount => x.kind = slot.kind /\ (~Operations!Kind(x).loads => busy'))
  <2> PICK q \in reqs : OpLike(x, q)
    BY <1>3 DEF OpShape
  <2> QED BY <1>1, <1>3 DEF OpLike, OpNumbers, Operations!Kind
<1>4. ASSUME NEW x \in reqs', NEW y \in reqs', x.mount = y.mount PROVE x.kind = y.kind /\ (~Operations!Kind(x).loads => x = y)
  <2>1. PICK p \in reqs : OpLike(x, p)
    BY <1>4 DEF OpShape
  <2>2. PICK q \in reqs : OpLike(y, q)
    BY <1>4 DEF OpShape
  <2>3. p.mount = q.mount /\ (~Operations!Kind(x).loads => ~Operations!Kind(p).loads)
    BY <1>4, <2>1, <2>2 DEF OpLike, Operations!Kind
  <2>4. p.kind = q.kind /\ (~Operations!Kind(p).loads => p = q)
    BY <1>1, <2>3 DEF OpNumbers, Operations!OneRequestPerDialog
  <2> QED BY <1>4, <2>1, <2>2, <2>3, <2>4 DEF OpLike, OpShape
<1>5. OpNumbers'
  <2>1. \A x \in reqs' : Operations!Kind(x)' = Operations!Kind(x)
    BY DEF Operations!Kind
  <2>2. slot' # Operations!None => slot' = slot /\ slot.mount <= issued + 1
    BY <1>1 DEF OpNumbers
  <2>3. \A x, y \in reqs' : x.n = y.n => x = y
    BY DEF OpShape
  <2>4. store' \in Nat
    BY DEF OpShape
  <2> QED BY <1>1, <1>2, <1>3, <1>4, <2>1, <2>2, <2>3, <2>4 DEF OpNumbers, Operations!Kind
<1>6. Operations!OneRequestPerDialog'
  BY <1>4 DEF Operations!OneRequestPerDialog, Operations!Kind
<1>7. Operations!ResultIsOwn' /\ Operations!SummaryOfLastAttempt'
  <2>1. CASE slot' = Operations!None \/ result' = 0
    BY <2>1 DEF Operations!ResultIsOwn, Operations!SummaryOfLastAttempt
  <2>2. CASE slot' # Operations!None /\ result' # 0 /\ result' = result
    BY <1>1, <2>2 DEF Operations!ResultIsOwn, Operations!SummaryOfLastAttempt
  <2>3. ASSUME slot' # Operations!None, NEW r \in reqs, r.mount = slot.mount, result' = r.n PROVE Operations!ResultIsOwn' /\ Operations!SummaryOfLastAttempt'
    <3>1. slot' = slot /\ sent[r.n] = slot.mount /\ r.kind = slot.kind /\ r.kind \in Kinds
      BY <1>1, <2>3, OpFields DEF OpNumbers
    <3>2. Operations!Dialogs[slot.kind].resets => ~Operations!Kind(r).loads
      BY <3>1, OpKinds DEF Operations!Kind
    <3>3. DOMAIN sent = 1 .. issued
      BY <1>1 DEF OpNumbers, Operations!TypeOK
    <3>4. Operations!Dialogs[slot.kind].resets => \A n \in DOMAIN sent : sent[n] = slot.mount => n <= r.n
      BY <1>1, <2>3, <3>2, <3>3 DEF OpNumbers
    <3> QED BY <2>3, <3>1, <3>4 DEF Operations!ResultIsOwn, Operations!SummaryOfLastAttempt
  <2> QED BY <2>1, <2>2, <2>3
<1> QED BY <1>5, <1>6, <1>7

LEMMA OpReplaced ==
  ASSUME Operations!ConstantsOK, OpNumbers, NEW r \in reqs, NEW p \in Operations!Phases, NEW w \in 0 .. store', store' \in {store, store + 1}, issued' = issued,
         \/ Operations!To(r, p) = reqs'
         \/ reqs' = (reqs \ {r}) \cup {[r EXCEPT !.phase = p, !.wrote = w]}
  PROVE  OpShape /\ \E m : m.phase = p /\ OpLike(m, r) /\ reqs' = (reqs \ {r}) \cup {m}
<1>1. r \in OpRequests /\ store \in Nat /\ store' \in Nat /\ store' >= store /\ issued \in Nat
  BY OpFields DEF OpNumbers
<1>2. OpRequests \subseteq OpRequests'
  BY <1>1 DEF OpRequests
<1>3. PICK m : m \in OpRequests' /\ m.phase = p /\ OpLike(m, r) /\ reqs' = (reqs \ {r}) \cup {m}
  <2>1. CASE Operations!To(r, p) = reqs'
    <3> DEFINE m == [r EXCEPT !.phase = p]
    <3>1. m \in OpRequests /\ m.n = r.n /\ m.kind = r.kind /\ m.mount = r.mount /\ m.phase = p
      BY <1>1 DEF OpRequests
    <3> QED BY <1>2, <2>1, <3>1 DEF Operations!To, OpLike
  <2>2. CASE reqs' = (reqs \ {r}) \cup {[r EXCEPT !.phase = p, !.wrote = w]}
    <3> DEFINE m == [r EXCEPT !.phase = p, !.wrote = w]
    <3>1. m \in OpRequests' /\ m.n = r.n /\ m.kind = r.kind /\ m.mount = r.mount /\ m.phase = p
      BY <1>1 DEF OpRequests
    <3> QED BY <2>2, <3>1 DEF OpLike
  <2> QED BY <2>1, <2>2
<1>4. reqs' \subseteq OpRequests'
  BY <1>2, <1>3, OpFields
<1>5. \A x \in reqs' : \E q \in reqs : OpLike(x, q)
  BY <1>3 DEF OpLike
<1>6. \A x, y \in reqs' : x.n = y.n => x = y
  BY <1>3 DEF OpLike, OpNumbers
<1> QED BY <1>1, <1>3, <1>4, <1>5, <1>6 DEF OpShape

(* Those that waited for a fetch go on, all at once. *)
LEMMA OpResumes ==
  ASSUME Operations!ConstantsOK, OpNumbers, NEW R, R \subseteq reqs, NEW x \in Operations!Resumed(R)
  PROVE  x \in OpRequests /\ x.phase # "fetching" /\ \E q \in R : OpLike(x, q) /\ (q.phase # "fetching" => x = q)
<1>1. PICK q \in R : x = IF q.phase = "fetching" THEN [q EXCEPT !.phase = Operations!Next1(q)] ELSE q
  BY DEF Operations!Resumed
<1>2. q \in OpRequests /\ Operations!Next1(q) \in Operations!Phases /\ Operations!Next1(q) # "fetching"
  BY OpFields DEF Operations!Next1, Operations!Phases
<1>3. CASE q.phase # "fetching"
  BY <1>1, <1>2, <1>3 DEF OpLike
<1>4. CASE q.phase = "fetching"
  <2> DEFINE m == [q EXCEPT !.phase = Operations!Next1(q)]
  <2>1. m \in OpRequests /\ m.n = q.n /\ m.kind = q.kind /\ m.mount = q.mount /\ m.phase = Operations!Next1(q)
    BY <1>2 DEF OpRequests
  <2> QED BY <1>1, <1>2, <1>4, <2>1 DEF OpLike
<1> QED BY <1>3, <1>4

LEMMA OpResumedOnce ==
  ASSUME Operations!ConstantsOK, OpNumbers, NEW R, R \subseteq reqs, NEW x \in Operations!Resumed(R), NEW y \in Operations!Resumed(R), x.n = y.n PROVE x = y
<1> DEFINE f(q) == IF q.phase = "fetching" THEN [q EXCEPT !.phase = Operations!Next1(q)] ELSE q
<1>1. PICK p \in R : x = f(p)
  BY DEF Operations!Resumed
<1>2. PICK q \in R : y = f(q)
  BY DEF Operations!Resumed
<1>3. \A z \in R : f(z).n = z.n
  <2>1. \A z \in R : z \in OpRequests
    BY OpFields
  <2>2. \A z \in R : [z EXCEPT !.phase = Operations!Next1(z)].n = z.n
    BY <2>1 DEF OpRequests
  <2> QED BY <2>2
<1>4. p = q
  BY <1>1, <1>2, <1>3 DEF OpNumbers
<1> QED BY <1>1, <1>2, <1>4

(* One request goes a step further, at the server or in its continuation. *)
LEMMA OpStepKeeps ==
  ASSUME Operations!ConstantsOK, OpInv, NEW r \in reqs,
         Operations!Answer(r) \/ Operations!AskCode(r) \/ Operations!GiveCode(r) \/ Operations!CancelCode(r) \/ Operations!Succeeded(r) \/ Operations!Refused(r) \/ Operations!Failed(r) \/ Operations!CloseSlot(r)
  PROVE  OpInv'
<1>1. /\ UNCHANGED <<page, allowed, filled, busy, issued, sent, rows, fetch>> /\ slot' \in {slot, Operations!None}
      /\ r.phase # "refresh" /\ r.phase # "fetching" /\ store' \in {store, store + 1}
      /\ result' \in {0, result} \/ (r.mount = slot.mount /\ result' = r.n)
  BY DEF Operations!Answer, Operations!Serve, Operations!Refuse, Operations!Fail, Operations!AskCode, Operations!GiveCode, Operations!CancelCode, Operations!Succeeded, Operations!Refused, Operations!Failed, Operations!CloseSlot, Operations!Shown, Operations!Mounted, Operations!dialogVars, Operations!counters, Operations!serverVars
<1>2. OpNumbers /\ OpFresh /\ store \in Nat /\ r.wrote \in 0 .. store /\ store' \in Nat /\ store' >= store
  BY <1>1, OpFields DEF OpInv
<1>3. PICK p \in Operations!Phases, w \in 0 .. store' :
        /\ Operations!To(r, p) = reqs' \/ reqs' = (reqs \ {r}) \cup {[r EXCEPT !.phase = p, !.wrote = w]}
        /\ p # "fetching" /\ (acked' = acked \/ p = "refresh")
  <2>0. 0 \in 0 .. store' /\ store' \in 0 .. store' /\ {"sent", "ok", "refused", "failed", "code", "again", "refresh", "fetching", "close", "end"} = Operations!Phases
    BY <1>2 DEF Operations!Phases
  <2>1. CASE Operations!Serve(r)
    BY <2>0, <2>1 DEF Operations!Serve
  <2>2. CASE Operations!Refuse(r)
    BY <2>0, <2>2 DEF Operations!Refuse
  <2>3. CASE Operations!Fail(r)
    BY <2>0, <2>3 DEF Operations!Fail
  <2>4. CASE Operations!AskCode(r) \/ Operations!GiveCode(r) \/ Operations!CancelCode(r) \/ Operations!Failed(r) \/ Operations!CloseSlot(r)
    BY <2>0, <2>4 DEF Operations!AskCode, Operations!GiveCode, Operations!CancelCode, Operations!Failed, Operations!CloseSlot, Operations!serverVars
  <2>5. CASE Operations!Succeeded(r)
    BY <2>0, <2>5 DEF Operations!Succeeded, Operations!Told
  <2>6. CASE Operations!Refused(r)
    BY <2>0, <2>6 DEF Operations!Refused, Operations!Told
  <2> QED BY <2>1, <2>2, <2>3, <2>4, <2>5, <2>6 DEF Operations!Answer
<1>4. acked' \in 0 .. store'
  <2>1. acked \in 0 .. store
    BY <1>2 DEF OpNumbers, Operations!TypeOK
  <2>2. acked' = acked \/ acked' = r.wrote
    BY DEF Operations!Answer, Operations!Serve, Operations!Refuse, Operations!Fail, Operations!AskCode, Operations!GiveCode, Operations!CancelCode, Operations!Succeeded, Operations!Refused, Operations!Failed, Operations!CloseSlot, Operations!Told, Operations!serverVars
  <2> QED BY <1>2, <2>1, <2>2
<1>5. OpShape
  BY <1>1, <1>2, <1>3, OpReplaced
<1>6. PICK m : m.phase = p /\ reqs' = (reqs \ {r}) \cup {m}
  BY <1>1, <1>2, <1>3, OpReplaced
<1>7. OpNumbers' /\ Operations!OneRequestPerDialog' /\ Operations!ResultIsOwn' /\ Operations!SummaryOfLastAttempt'
  <2>1. filled' \in BOOLEAN /\ busy' \in BOOLEAN
    BY <1>1, <1>2 DEF OpNumbers, Operations!TypeOK
  <2>2. rows \in 0 .. store /\ fetch \in [phase : {"none", "asked", "served"}, seen : 0 .. store]
    BY <1>2 DEF OpNumbers, Operations!TypeOK
  <2>3. 0 .. store \subseteq 0 .. store'
    BY <1>2
  <2>4. rows' \in 0 .. store' /\ fetch' \in [phase : {"none", "asked", "served"}, seen : 0 .. store']
    BY <1>1, <2>2, <2>3
  <2> QED BY <1>1, <1>4, <1>5, <2>1, <2>4, OpMoves
<1>8. OpFresh'
  BY <1>1, <1>2, <1>3, <1>6 DEF OpFresh, OpRefreshing
<1> QED BY <1>7, <1>8 DEF OpInv

LEMMA OpEndKeeps == ASSUME Operations!ConstantsOK, OpInv, NEW r \in reqs, Operations!End(r) PROVE OpInv'
<1>1. r.phase = "end" /\ busy' = Operations!Idle(r) /\ reqs' = reqs \ {r} /\ UNCHANGED <<page, allowed, slot, filled, result, issued, sent, store, rows, fetch, acked>>
  BY DEF Operations!End, Operations!counters, Operations!serverVars
<1>2. OpNumbers /\ Operations!OneRequestPerDialog /\ OpFresh /\ store \in Nat
  BY DEF OpInv, OpNumbers
<1>3. OpShape
  <2>1. OpRequests' = OpRequests
    BY <1>1 DEF OpRequests
  <2>2. reqs' \subseteq OpRequests'
    BY <1>1, <1>2, <2>1, OpFields
  <2> QED BY <1>1, <1>2, <2>2 DEF OpShape, OpLike, OpNumbers
<1>4. busy' \in BOOLEAN /\ (busy' = busy \/ \A x \in reqs' : x.mount = slot.mount => Operations!Kind(x).loads)
  <2>1. busy' = (busy /\ ~(slot.mount = r.mount)) /\ busy \in BOOLEAN
    BY <1>1, <1>2 DEF Operations!Idle, Operations!Mounted, OpNumbers, Operations!TypeOK
  <2>2. busy' \in BOOLEAN
    BY <2>1
  <2>3. CASE slot.mount # r.mount
    BY <2>1, <2>2, <2>3
  <2>4. CASE slot.mount = r.mount
    <3>1. ASSUME NEW x \in reqs', x.mount = slot.mount, ~Operations!Kind(x).loads PROVE FALSE
      BY <1>1, <1>2, <2>4, <3>1 DEF Operations!OneRequestPerDialog
    <3> QED BY <2>2, <3>1
  <2> QED BY <2>3, <2>4, <2>2
<1>5. OpNumbers' /\ Operations!OneRequestPerDialog' /\ Operations!ResultIsOwn' /\ Operations!SummaryOfLastAttempt'
  <2>1. filled' \in BOOLEAN
    BY <1>1, <1>2 DEF OpNumbers, Operations!TypeOK
  <2>2. rows' \in 0 .. store' /\ acked' \in 0 .. store' /\ fetch' \in [phase : {"none", "asked", "served"}, seen : 0 .. store']
    BY <1>1, <1>2 DEF OpNumbers, Operations!TypeOK
  <2> QED BY <1>1, <1>3, <1>4, <2>1, <2>2, OpMoves
<1>6. OpFresh'
  BY <1>1, <1>2 DEF OpFresh, OpRefreshing
<1> QED BY <1>5, <1>6 DEF OpInv

LEMMA OpRefetchKeeps == ASSUME Operations!ConstantsOK, OpInv, NEW r \in reqs, Operations!Refetch(r) PROVE OpInv'
<1> DEFINE m == [r EXCEPT !.phase = "fetching"]
<1>1. fetch' = [phase |-> "asked", seen |-> 0] /\ reqs' = Operations!Resumed(reqs \ {r}) \cup {m}
      /\ UNCHANGED <<page, allowed, slot, filled, busy, result, issued, sent, store, rows, acked>>
  BY DEF Operations!Refetch, Operations!dialogVars, Operations!counters
<1>2. OpNumbers /\ store \in Nat /\ r \in OpRequests /\ reqs \ {r} \subseteq reqs
  BY OpFields DEF OpInv, OpNumbers
<1>3. m \in OpRequests /\ m.n = r.n /\ m.kind = r.kind /\ m.mount = r.mount /\ m.phase = "fetching"
  <2>1. "fetching" \in Operations!Phases
    BY DEF Operations!Phases
  <2> QED BY <1>2, <2>1 DEF OpRequests
<1> HIDE DEF m
<1>4. OpShape
  <2>1. OpRequests' = OpRequests
    BY <1>1 DEF OpRequests
  <2>2. reqs' \subseteq OpRequests'
    BY <1>1, <1>2, <1>3, <2>1, OpResumes
  <2>3. \A x \in reqs' : \E q \in reqs : OpLike(x, q)
    <3>1. \A x \in Operations!Resumed(reqs \ {r}) : \E q \in reqs \ {r} : OpLike(x, q)
      BY <1>2, OpResumes
    <3> QED BY <1>1, <1>3, <3>1 DEF OpLike
  <2>4. \A x, y \in reqs' : x.n = y.n => x = y
    <3>1. \A x \in Operations!Resumed(reqs \ {r}) : x.n # r.n
      <4>1. \A x \in Operations!Resumed(reqs \ {r}) : \E q \in reqs \ {r} : OpLike(x, q)
        BY <1>2, OpResumes
      <4> QED BY <1>2, <4>1 DEF OpLike, OpNumbers
    <3>2. \A x, y \in Operations!Resumed(reqs \ {r}) : x.n = y.n => x = y
      BY <1>2, OpResumedOnce
    <3> QED BY <1>1, <1>3, <3>1, <3>2
  <2>5. store' \in Nat /\ store' >= store
    BY <1>1, <1>2
  <2> QED BY <2>2, <2>3, <2>4, <2>5 DEF OpShape
<1>5. OpNumbers' /\ Operations!OneRequestPerDialog' /\ Operations!ResultIsOwn' /\ Operations!SummaryOfLastAttempt'
  <2>1. filled' \in BOOLEAN /\ busy' \in BOOLEAN
    BY <1>1, <1>2 DEF OpNumbers, Operations!TypeOK
  <2>2. rows' \in 0 .. store' /\ acked' \in 0 .. store'
    BY <1>1, <1>2 DEF OpNumbers, Operations!TypeOK
  <2>3. 0 \in 0 .. store' /\ "asked" \in {"none", "asked", "served"}
    BY <1>1, <1>2
  <2>4. fetch' \in [phase : {"none", "asked", "served"}, seen : 0 .. store']
    BY <1>1, <2>3
  <2> QED BY <1>1, <1>4, <2>1, <2>2, <2>4, OpMoves
<1>6. OpFresh'
  BY <1>1, <1>3 DEF OpFresh
<1> QED BY <1>5, <1>6 DEF OpInv

LEMMA OpArrivesKeeps == ASSUME Operations!ConstantsOK, OpInv, Operations!BootstrapArrives PROVE OpInv'
<1>1. fetch.phase = "served" /\ fetch' = Operations!NoFetch /\ rows' = fetch.seen /\ reqs' = Operations!Resumed(reqs)
      /\ UNCHANGED <<page, allowed, slot, filled, busy, result, issued, sent, store, acked>>
  BY DEF Operations!BootstrapArrives, Operations!dialogVars, Operations!counters
<1>2. OpNumbers /\ OpFresh /\ store \in Nat /\ reqs \subseteq reqs
  BY DEF OpInv, OpNumbers
<1>3. OpShape
  <2>1. OpRequests' = OpRequests
    BY <1>1 DEF OpRequests
  <2>2. reqs' \subseteq OpRequests'
    BY <1>1, <1>2, <2>1, OpResumes
  <2>3. \A x \in reqs' : \E q \in reqs : OpLike(x, q)
    BY <1>1, <1>2, OpResumes
  <2>4. \A x, y \in reqs' : x.n = y.n => x = y
    BY <1>1, <1>2, OpResumedOnce
  <2> QED BY <1>1, <1>2, <2>2, <2>3, <2>4 DEF OpShape
<1>4. fetch'.phase = "none" /\ fetch' \in [phase : {"none", "asked", "served"}, seen : 0 .. store'] /\ rows' \in 0 .. store'
  <2>1. 0 \in 0 .. store'
    BY <1>1, <1>2
  <2> QED BY <1>1, <1>2, <2>1 DEF Operations!NoFetch, OpNumbers, Operations!TypeOK
<1>5. OpNumbers' /\ Operations!OneRequestPerDialog' /\ Operations!ResultIsOwn' /\ Operations!SummaryOfLastAttempt'
  <2>1. filled' \in BOOLEAN /\ busy' \in BOOLEAN
    BY <1>1, <1>2 DEF OpNumbers, Operations!TypeOK
  <2>2. acked' \in 0 .. store'
    BY <1>1, <1>2 DEF OpNumbers, Operations!TypeOK
  <2> QED BY <1>1, <1>3, <1>4, <2>1, <2>2, OpMoves
<1>6. OpFresh'
  <2>1. ASSUME NEW q \in reqs, q.phase = "refresh" PROVE q \in reqs'
    BY <1>1, <2>1 DEF Operations!Resumed
  <2> QED BY <1>1, <1>2, <1>4, <2>1 DEF OpFresh, OpRefreshing
<1> QED BY <1>5, <1>6 DEF OpInv

(* Steps that leave the requests as they are. *)
LEMMA OpQuietKeeps == ASSUME Operations!ConstantsOK, OpInv, Operations!Dismiss \/ Operations!Edit \/ Operations!BootstrapServed \/ UNCHANGED Operations!vars PROVE OpInv'
<1>1. /\ UNCHANGED <<page, allowed, busy, reqs, issued, sent, store, rows, acked>> /\ slot' \in {slot, Operations!None} /\ result' \in {0, result}
      /\ filled' \in {filled, TRUE} /\ (fetch' = fetch \/ (fetch.phase = "asked" /\ fetch' = [phase |-> "served", seen |-> store]))
  BY DEF Operations!Dismiss, Operations!Edit, Operations!BootstrapServed, Operations!vars, Operations!dialogVars, Operations!counters, Operations!serverVars
<1>2. OpNumbers /\ OpFresh /\ store \in Nat /\ acked \in 0 .. store
  BY DEF OpInv, OpNumbers, Operations!TypeOK
<1>3. OpShape
  <2>1. OpRequests' = OpRequests
    BY <1>1 DEF OpRequests
  <2> QED BY <1>1, <1>2, <2>1, OpFields DEF OpShape, OpLike, OpNumbers
<1>4. fetch' \in [phase : {"none", "asked", "served"}, seen : 0 .. store']
  <2>1. store \in 0 .. store /\ "served" \in {"none", "asked", "served"}
    BY <1>2
  <2> QED BY <1>1, <1>2, <2>1 DEF OpNumbers, Operations!TypeOK
<1>5. OpNumbers' /\ Operations!OneRequestPerDialog' /\ Operations!ResultIsOwn' /\ Operations!SummaryOfLastAttempt'
  <2>1. filled' \in BOOLEAN /\ busy' \in BOOLEAN
    BY <1>1, <1>2 DEF OpNumbers, Operations!TypeOK
  <2>2. rows' \in 0 .. store' /\ acked' \in 0 .. store'
    BY <1>1, <1>2 DEF OpNumbers, Operations!TypeOK
  <2> QED BY <1>1, <1>3, <1>4, <2>1, <2>2, OpMoves
<1>6. OpFresh'
  <2>1. CASE fetch' = fetch
    BY <1>1, <1>2, <2>1 DEF OpFresh, OpRefreshing
  <2>2. CASE fetch.phase = "asked" /\ fetch' = [phase |-> "served", seen |-> store]
    BY <1>1, <1>2, <2>2 DEF OpFresh
  <2> QED BY <1>1, <2>1, <2>2
<1> QED BY <1>5, <1>6 DEF OpInv

(* A request is made: it gets the next number, for a dialog that has none  *)
(* under way or only reads.                                                *)
LEMMA OpSends ==
  ASSUME Operations!ConstantsOK, OpInv, issued < MaxRequests, slot' \in [kind : Kinds, mount : 1 .. MaxRequests + 1], slot'.mount <= issued + 1,
         reqs' = reqs \cup {Operations!NewRequest(slot')}, issued' = issued + 1, sent' = Append(sent, slot'.mount),
         UNCHANGED <<page, allowed, store, rows, fetch, acked>>, filled' \in BOOLEAN, busy' \in BOOLEAN,
         Operations!Dialogs[slot'.kind].loads \/ busy',
         \A r \in reqs : r.mount = slot'.mount => r.kind = slot'.kind /\ Operations!Kind(r).loads,
         \/ result' = 0
         \/ slot' = slot /\ result' = result /\ ~Operations!Dialogs[slot'.kind].resets
  PROVE  OpInv'
<1> DEFINE new == Operations!NewRequest(slot')
<1>1. OpNumbers /\ Operations!OneRequestPerDialog /\ Operations!ResultIsOwn /\ OpFresh /\ issued \in Nat /\ issued' \in 0 .. MaxRequests /\ store \in Nat
      /\ sent \in Seq(Nat) /\ Len(sent) = issued /\ MaxRequests \in Nat
  BY DEF OpInv, OpNumbers, Operations!TypeOK, Operations!ConstantsOK
<1>2. slot'.kind \in Kinds /\ slot'.mount \in Nat /\ slot'.mount \in 1 .. MaxRequests + 1 /\ slot' # Operations!None
  <2>1. slot'.kind \in Kinds /\ slot'.mount \in 1 .. MaxRequests + 1
    OBVIOUS
  <2>2. Operations!None.mount = 0
    BY DEF Operations!None
  <2> QED BY <1>1, <2>1, <2>2
<1>3. new.n = issued + 1 /\ new.kind = slot'.kind /\ new.mount = slot'.mount /\ new.phase = "sent" /\ new.wrote = 0
  BY DEF Operations!NewRequest
<1>4. new \in OpRequests'
  <2>1. "sent" \in Operations!Phases /\ 0 \in 0 .. store' /\ issued + 1 \in 1 .. issued'
    BY <1>1 DEF Operations!Phases
  <2> QED BY <1>2, <2>1 DEF Operations!NewRequest, OpRequests
<1> HIDE DEF new
<1>5. /\ sent' \in Seq(Nat) /\ Len(sent') = issued' /\ DOMAIN sent' = 1 .. issued' /\ sent'[issued + 1] = slot'.mount
      /\ \A n \in 1 .. issued : sent'[n] = sent[n]
  BY <1>1, <1>2
<1>6. \A r \in reqs : r.n \in 1 .. issued /\ r.mount \in 1 .. issued /\ r \in OpRequests /\ Operations!Kind(r).loads \in BOOLEAN
  BY <1>1, OpFields
<1>7. reqs' = reqs \cup {new} /\ (\A x : Operations!Kind(x)' = Operations!Kind(x)) /\ Operations!Kind(new) = Operations!Dialogs[slot'.kind]
  BY <1>3 DEF new, Operations!Kind
<1>8. Operations!TypeOK'
  <2>1. OpRequests \subseteq OpRequests'
    BY <1>1 DEF OpRequests
  <2>2. reqs' \subseteq [n : 1 .. issued', kind : Kinds, mount : 1 .. MaxRequests + 1, phase : Operations!Phases, wrote : 0 .. store']
    BY <1>4, <1>6, <1>7, <2>1 DEF OpRequests
  <2>3. result' \in 0 .. issued'
    BY <1>1 DEF OpNumbers, Operations!TypeOK
  <2> QED BY <1>1, <1>5, <2>2, <2>3 DEF OpNumbers, Operations!TypeOK
<1>9. OpNumbers'
  <2>1. \A n \in 1 .. issued' : sent'[n] \in 1 .. n
    <3>1. \A n \in 1 .. issued : sent[n] \in 1 .. n
      BY <1>1 DEF OpNumbers
    <3> QED BY <1>1, <1>2, <1>5, <3>1
  <2>2. \A q, r \in reqs' : q.n = r.n => q = r
    BY <1>1, <1>3, <1>6, <1>7 DEF OpNumbers
  <2>3. \A r \in reqs' : sent'[r.n] = r.mount
    BY <1>1, <1>3, <1>5, <1>6, <1>7 DEF OpNumbers
  <2>4. ASSUME NEW r \in reqs', ~Operations!Kind(r).loads, NEW n \in 1 .. issued', sent'[n] = r.mount PROVE n <= r.n
    <3>1. CASE r = new
      BY <1>1, <1>3, <3>1
    <3>2. CASE r \in reqs
      <4>1. r.mount # slot'.mount
        BY <2>4, <3>2
      <4>2. n \in 1 .. issued
        BY <1>1, <1>5, <2>4, <4>1
      <4> QED BY <1>1, <1>5, <2>4, <3>2, <4>2 DEF OpNumbers
    <3> QED BY <1>7, <3>1, <3>2
  <2>5. \A q, r \in reqs' : q.mount = r.mount => q.kind = r.kind
    BY <1>1, <1>3, <1>7 DEF OpNumbers
  <2>6. \A r \in reqs' : r.mount = slot'.mount => r.kind = slot'.kind /\ (~Operations!Kind(r).loads => busy')
    BY <1>3, <1>7
  <2>7. slot'.mount <= issued' + 1 /\ store' \in Nat
    BY <1>1, <1>2
  <2> QED BY <1>5, <1>7, <1>8, <2>1, <2>2, <2>3, <2>4, <2>5, <2>6, <2>7 DEF OpNumbers
<1>10. Operations!OneRequestPerDialog'
  <2> SUFFICES ASSUME NEW q \in reqs', NEW r \in reqs', q.mount = r.mount, ~Operations!Kind(q).loads PROVE q = r
    BY <1>7 DEF Operations!OneRequestPerDialog
  <2>1. CASE q \in reqs /\ r \in reqs
    BY <1>1, <2>1 DEF Operations!OneRequestPerDialog
  <2>2. CASE q = new /\ r \in reqs
    BY <1>3, <1>7, <2>2 DEF Operations!Kind
  <2>3. CASE q \in reqs /\ r = new
    BY <1>3, <1>7, <2>3
  <2> QED BY <1>7, <2>1, <2>2, <2>3
<1>11. Operations!ResultIsOwn' /\ Operations!SummaryOfLastAttempt'
  <2>1. CASE result' = 0
    BY <2>1 DEF Operations!ResultIsOwn, Operations!SummaryOfLastAttempt
  <2>2. CASE result' # 0 /\ slot' = slot /\ result' = result /\ ~Operations!Dialogs[slot'.kind].resets
    <3>1. result \in 1 .. issued
      BY <1>1, <2>2 DEF OpNumbers, Operations!TypeOK
    <3> QED BY <1>1, <1>2, <1>5, <2>2, <3>1 DEF Operations!ResultIsOwn, Operations!SummaryOfLastAttempt
  <2> QED BY <2>1, <2>2
<1>12. OpFresh'
  BY <1>1, <1>7 DEF OpFresh, OpRefreshing
<1> QED BY <1>9, <1>10, <1>11, <1>12 DEF OpInv

LEMMA OpSubmitKeeps == ASSUME Operations!ConstantsOK, OpInv, Operations!Submit PROVE OpInv'
<1>1. /\ slot # Operations!None /\ ~busy /\ issued < MaxRequests /\ reqs' = reqs \cup {Operations!NewRequest(slot)} /\ issued' = issued + 1 /\ sent' = Append(sent, slot.mount)
      /\ busy' = ~Operations!Dialogs[slot.kind].loads /\ result' = (IF Operations!Dialogs[slot.kind].resets THEN 0 ELSE result)
      /\ UNCHANGED <<page, allowed, slot, filled, store, rows, fetch, acked>>
  BY DEF Operations!Submit, Operations!serverVars
<1>2. slot \in [kind : Kinds, mount : 1 .. MaxRequests + 1] /\ slot.mount <= issued + 1 /\ filled \in BOOLEAN /\ slot.kind \in Kinds
  BY <1>1 DEF OpInv, OpNumbers, Operations!TypeOK
<1>3. \A r \in reqs : r.mount = slot.mount => r.kind = slot.kind /\ Operations!Kind(r).loads
  BY <1>1 DEF OpInv, OpNumbers
<1>4. Operations!Dialogs[slot.kind].loads \in BOOLEAN /\ Operations!Dialogs[slot.kind].resets \in BOOLEAN
  BY <1>2, OpKinds
<1>5. busy' \in BOOLEAN /\ (Operations!Dialogs[slot.kind].loads \/ busy')
  BY <1>1, <1>4
<1> QED BY <1>1, <1>2, <1>3, <1>5, OpSends

LEMMA OpOpenKeeps == ASSUME Operations!ConstantsOK, OpInv, NEW k \in Kinds, Operations!Open(k) PROVE OpInv'
<1> DEFINE opened == [kind |-> k, mount |-> issued + 1]
<1>1. /\ slot = Operations!None /\ issued < MaxRequests /\ slot' = opened /\ filled' = ~Operations!Dialogs[k].blank /\ busy' = FALSE /\ result' = 0
      /\ IF Operations!Dialogs[k].loads
           THEN reqs' = reqs \cup {Operations!NewRequest(opened)} /\ issued' = issued + 1 /\ sent' = Append(sent, issued + 1)
           ELSE UNCHANGED <<reqs, issued, sent>>
      /\ UNCHANGED <<page, allowed, store, rows, fetch, acked>>
  BY DEF Operations!Open, Operations!serverVars
<1>2. OpNumbers /\ issued \in Nat /\ MaxRequests \in Nat /\ store \in Nat
  BY DEF OpInv, OpNumbers, Operations!TypeOK, Operations!ConstantsOK
<1>3. opened \in [kind : Kinds, mount : 1 .. MaxRequests + 1] /\ opened.mount = issued + 1 /\ opened.kind = k
  <2>1. issued + 1 \in 1 .. MaxRequests + 1
    BY <1>1, <1>2
  <2> QED BY <2>1
<1>4. \A r \in reqs : r.mount # issued + 1
  BY <1>2, OpFields
<1>5. filled' \in BOOLEAN /\ Operations!Dialogs[k].loads \in BOOLEAN
  BY <1>1, OpKinds
<1> HIDE DEF opened
<1>6. CASE Operations!Dialogs[k].loads
  <2>1. slot'.mount <= issued + 1 /\ busy' \in BOOLEAN /\ Operations!Dialogs[slot'.kind].loads
    <3>1. slot'.mount = issued + 1 /\ slot'.kind = k /\ busy' = FALSE
      BY <1>1, <1>3
    <3>2. slot'.mount <= issued + 1
      BY <1>2, <3>1
    <3> QED BY <1>6, <3>1, <3>2
  <2>2. \A r \in reqs : r.mount = slot'.mount => r.kind = slot'.kind /\ Operations!Kind(r).loads
    <3>1. slot'.mount = issued + 1
      BY <1>1, <1>3
    <3> QED BY <1>4, <3>1
  <2>3. reqs' = reqs \cup {Operations!NewRequest(slot')} /\ issued' = issued + 1 /\ sent' = Append(sent, slot'.mount)
    BY <1>1, <1>3, <1>6
  <2> QED BY <1>1, <1>3, <1>5, <2>1, <2>2, <2>3, OpSends
<1>7. CASE ~Operations!Dialogs[k].loads
  <2>1. UNCHANGED <<reqs, issued, sent>>
    BY <1>1, <1>7
  <2>2. Operations!TypeOK'
    <3>1. 0 \in 0 .. issued
      BY <1>2
    <3> QED BY <1>1, <1>2, <1>3, <1>5, <2>1, <3>1 DEF OpNumbers, Operations!TypeOK
  <2>3. OpNumbers'
    <3>1. slot'.mount <= issued + 1 /\ \A r \in reqs : r.mount # slot'.mount
      BY <1>1, <1>2, <1>3, <1>4
    <3> QED BY <1>1, <1>2, <2>1, <2>2, <3>1 DEF OpNumbers, Operations!Kind
  <2>4. Operations!OneRequestPerDialog' /\ Operations!ResultIsOwn' /\ Operations!SummaryOfLastAttempt' /\ OpFresh'
    BY <1>1, <2>1 DEF OpInv, Operations!OneRequestPerDialog, Operations!Kind, Operations!ResultIsOwn, Operations!SummaryOfLastAttempt, OpFresh, OpRefreshing
  <2> QED BY <2>3, <2>4 DEF OpInv
<1> QED BY <1>6, <1>7

LEMMA OpKeeps == ASSUME Operations!ConstantsOK, OpInv, [Operations!Next]_Operations!vars PROVE OpInv'
<1>1. CASE Operations!Dismiss \/ Operations!Edit \/ Operations!BootstrapServed \/ UNCHANGED Operations!vars
  BY <1>1, OpQuietKeeps
<1>2. CASE Operations!Submit
  BY <1>2, OpSubmitKeeps
<1>3. CASE Operations!BootstrapArrives
  BY <1>3, OpArrivesKeeps
<1>4. ASSUME NEW k \in Kinds, Operations!Open(k) PROVE OpInv'
  BY <1>4, OpOpenKeeps
<1>5. ASSUME NEW r \in reqs,
             Operations!Answer(r) \/ Operations!AskCode(r) \/ Operations!GiveCode(r) \/ Operations!CancelCode(r) \/ Operations!Succeeded(r) \/ Operations!Refused(r) \/ Operations!Failed(r) \/ Operations!CloseSlot(r)
      PROVE  OpInv'
  BY <1>5, OpStepKeeps
<1>6. ASSUME NEW r \in reqs, Operations!End(r) \/ Operations!Refetch(r) PROVE OpInv'
  BY <1>6, OpEndKeeps, OpRefetchKeeps
<1> QED BY <1>1, <1>2, <1>3, <1>4, <1>5, <1>6 DEF Operations!Next, Operations!Continue

LEMMA OpInvariance == ASSUME Operations!ConstantsOK PROVE Operations!Spec => []OpInv
<1>1. Operations!Init => OpInv
  BY OpInit
<1>2. OpInv /\ [Operations!Next]_Operations!vars => OpInv'
  BY OpKeeps
<1> QED BY <1>1, <1>2, PTL DEF Operations!Spec

LEMMA OpShows == ASSUME OpInv PROVE Operations!TypeOK /\ Operations!SettledRowsFresh
<1>1. Operations!TypeOK
  BY DEF OpInv, OpNumbers
<1>2. Operations!SettledRowsFresh
  <2>1. fetch.phase \in {"none", "asked", "served"}
    BY <1>1 DEF Operations!TypeOK
  <2> QED BY <2>1 DEF OpInv, OpFresh, OpRefreshing, Operations!SettledRowsFresh
<1> QED BY <1>1, <1>2

(* For any of the operations and any number of requests: what a dialog     *)
(* shows was answered to itself, the summary of an import belongs to its   *)
(* last attempt, and rows at rest hold every write the page was told of    *)
(* although refreshes cancel each other (ResourceOperationDialog).         *)
THEOREM ResultsBelongToTheirDialog ==
  ASSUME Operations!ConstantsOK PROVE Operations!Spec => [](Operations!TypeOK /\ Operations!ResultIsOwn /\ Operations!SummaryOfLastAttempt /\ Operations!SettledRowsFresh)
<1>1. OpInv => Operations!TypeOK /\ Operations!ResultIsOwn /\ Operations!SummaryOfLastAttempt /\ Operations!SettledRowsFresh
  BY OpShows DEF OpInv
<1> QED BY <1>1, OpInvariance, PTL

(* A dialog that saves has one request at a time, whatever requests of     *)
(* closed dialogs end meanwhile (setSaving of a component that is gone).   *)
THEOREM DialogsSaveInTurn == ASSUME Operations!ConstantsOK PROVE Operations!Spec => []Operations!OneRequestPerDialog
<1>1. OpInv => Operations!OneRequestPerDialog
  BY DEF OpInv
<1> QED BY <1>1, OpInvariance, PTL

-----------------------------------------------------------------------------
(***************************************************************************)
(* The DNS providers. A token is followed from the form through the        *)
(* request and the handler's copy into the store (DnsTokens); that a       *)
(* secret fits its service needs that a handler that holds a row alone     *)
(* holds it as it is (DnsCalm).                                            *)
(***************************************************************************)

(* What is known of a request: what it is about, whose token it carries, *)
(* and of which row it holds a copy.                                     *)
DnsRequestOK(r) ==
  /\ r \in Dns!Requests
  /\ r.op # "post" => r.id \in Ids
  /\ IF r.op = "post" THEN r.token = "new" ELSE r.token \in {r.id, "none"}
  /\ r.copy # Dns!NoRow => r.copy.id = r.id /\ r.copy.typed \in {r.id, "new"}
  /\ r.phase \in {"held", "saved"} => r.op # "post" /\ r.copy # Dns!NoRow

DnsFormOK ==
  /\ token = "none" \/ token = (IF editing = Dns!NoRow THEN "new" ELSE editing.id)
  /\ asking.id = "none" => asking = Dns!NoQuestion

DnsTokens ==
  /\ Dns!TypeOK /\ DnsFormOK
  /\ \A r \in reqs : DnsRequestOK(r)
  /\ \A i \in Ids : store[i] # Dns!NoRow => store[i].id = i /\ store[i].typed \in {i, "new"}

DnsHolding(r) == r.phase \in {"held", "saved"}

(* While no row was held twice, a handler's copy is what the row holds.        *)
DnsCalm ==
  \/ raced
  \/ /\ \A i \in Ids : store[i] # Dns!NoRow => store[i].secret = store[i].kind
     /\ \A r \in reqs : DnsHolding(r) => r.copy.secret = r.copy.kind
     /\ \A r \in reqs : r.phase = "held" => store[r.id] = r.copy
     /\ \A q, r \in reqs : DnsHolding(q) /\ DnsHolding(r) /\ q.id = r.id => q = r

LEMMA DnsNoRow == ASSUME Dns!ConstantsOK PROVE \A entry \in Dns!Rows : entry # Dns!NoRow /\ entry.id \in Ids
BY DEF Dns!ConstantsOK, Dns!Rows, Dns!NoRow

LEMMA DnsInit == ASSUME Dns!ConstantsOK, Dns!Init PROVE DnsTokens /\ DnsCalm
<1>1. Dns!Cloudflare \in Kinds
  BY DEF Dns!ConstantsOK, Dns!Cloudflare
<1>2. \A i \in Ids : store[i] \in Dns!Rows \cup {Dns!NoRow}
  BY <1>1 DEF Dns!Init, Dns!Rows
<1>3. store \in [Ids -> Dns!Rows \cup {Dns!NoRow}]
  BY <1>2 DEF Dns!Init
<1>4. list \subseteq Dns!Rows
  BY <1>2 DEF Dns!Init
<1>5. asking \in [id : Ids \cup {"none"}, edited : BOOLEAN] /\ asking = Dns!NoQuestion
  BY DEF Dns!Init, Dns!NoQuestion
<1>6. \A i \in Ids : store[i] # Dns!NoRow => store[i].id = i /\ store[i].typed = i /\ store[i].secret = store[i].kind
  BY DEF Dns!Init
<1>7. reqs = {} /\ issued \in 0 .. MaxRequests
  BY DEF Dns!Init, Dns!ConstantsOK
<1>8. Dns!TypeOK
  BY <1>1, <1>3, <1>4, <1>5, <1>7 DEF Dns!Init, Dns!TypeOK
<1> QED BY <1>5, <1>6, <1>7, <1>8 DEF Dns!Init, DnsTokens, DnsCalm, DnsFormOK

(* What the page sends, it sends for the row that is in the form. *)
LEMMA DnsSend ==
  ASSUME Dns!ConstantsOK, DnsTokens, NEW op \in {"post", "patch", "delete"}, NEW own \in BOOLEAN, NEW id, NEW k \in Kinds,
         NEW t, NEW edited \in BOOLEAN, Dns!Send(op, own, id, k, t, edited),
         IF op = "post" THEN id = "none" /\ t = "new" ELSE id \in Ids /\ t \in {id, "none"}
  PROVE  /\ issued' \in 0 .. MaxRequests
         /\ \A r \in reqs' : DnsRequestOK(r)
         /\ \A r \in reqs' \ reqs : r.phase = "sent"
         /\ reqs \subseteq reqs'
<1> DEFINE new == [n |-> issued + 1, op |-> op, own |-> own, id |-> id, kind |-> k,
                   token |-> t, edited |-> edited, copy |-> Dns!NoRow, rows |-> {}, phase |-> "sent"]
<1>1. issued + 1 \in 1 .. MaxRequests /\ issued' = issued + 1 /\ reqs' = reqs \cup {new}
  BY DEF DnsTokens, Dns!TypeOK, Dns!ConstantsOK, Dns!Send
<1>2. new \in Dns!Requests
  BY <1>1 DEF Dns!Requests
<1>3. DnsRequestOK(new)
  BY <1>2 DEF DnsRequestOK
<1>4. new.phase = "sent"
  OBVIOUS
<1> HIDE DEF new
<1> QED BY <1>1, <1>3, <1>4 DEF DnsTokens

(* A request moves on and keeps what is known of it. *)
LEMMA DnsTo ==
  ASSUME DnsTokens, NEW r \in reqs,
         NEW p \in {"sent", "held", "saved", "ok", "load", "loaded", "refresh", "failed"},
         p \in {"held", "saved"} => DnsHolding(r)
  PROVE  /\ DnsRequestOK([r EXCEPT !.phase = p])
         /\ [r EXCEPT !.phase = p].phase = p /\ [r EXCEPT !.phase = p].id = r.id
         /\ [r EXCEPT !.phase = p].copy = r.copy
BY DEF DnsTokens, DnsRequestOK, Dns!Requests, DnsHolding

LEMMA DnsKeeps == ASSUME Dns!ConstantsOK, DnsTokens, DnsCalm, Dns!Next PROVE DnsTokens' /\ DnsCalm'
<1>0. Dns!Cloudflare \in Kinds
  BY DEF Dns!ConstantsOK, Dns!Cloudflare
<1> USE DEF DnsHolding
<1>1. CASE Dns!CancelEdit \/ Dns!TypeToken \/ Dns!Decline \/ (\E k \in Kinds : Dns!ChooseKind(k)) \/ (\E entry \in list : Dns!EditProvider(entry) \/ Dns!AskDelete(entry))
  <2>1. UNCHANGED <<store, reqs, issued, saving, Dns!history, list>>
    BY <1>1 DEF Dns!CancelEdit, Dns!TypeToken, Dns!Decline, Dns!ChooseKind, Dns!EditProvider, Dns!AskDelete
  <2>a. (editing = Dns!NoRow \/ editing.id \in Ids) /\ \A entry \in list : entry \in Dns!Rows /\ entry.kind \in Kinds
    BY DEF DnsTokens, Dns!TypeOK, Dns!Rows
  <2>2. editing' \in Dns!Rows \cup {Dns!NoRow} /\ kind' \in Kinds /\ token' \in Ids \cup {"new", "none"}
    BY <1>0, <1>1, <2>a DEF Dns!CancelEdit, Dns!TypeToken, Dns!Decline, Dns!ChooseKind, Dns!EditProvider, Dns!AskDelete, Dns!ResetForm, Dns!form, DnsTokens, Dns!TypeOK
  <2>3. asking' \in [id : Ids \cup {"none"}, edited : BOOLEAN]
    <3>1. ASSUME NEW entry \in list, Dns!AskDelete(entry) PROVE asking' \in [id : Ids \cup {"none"}, edited : BOOLEAN]
      <4>1. entry.id \in Ids
        BY DEF DnsTokens, Dns!TypeOK, Dns!Rows
      <4>2. (editing.id = entry.id) \in BOOLEAN
        OBVIOUS
      <4> QED BY <3>1, <4>1, <4>2 DEF Dns!AskDelete
    <3>2. Dns!NoQuestion \in [id : Ids \cup {"none"}, edited : BOOLEAN]
      BY DEF Dns!NoQuestion
    <3> QED
      BY <1>1, <3>1, <3>2 DEF Dns!CancelEdit, Dns!TypeToken, Dns!Decline, Dns!ChooseKind, Dns!EditProvider, DnsTokens, Dns!TypeOK
  <2>4. DnsFormOK'
    BY <1>1, DnsNoRow DEF Dns!CancelEdit, Dns!TypeToken, Dns!Decline, Dns!ChooseKind, Dns!EditProvider, Dns!AskDelete, Dns!ResetForm, Dns!form, DnsTokens, Dns!TypeOK, DnsFormOK, Dns!NoQuestion, Dns!ConstantsOK
  <2> QED
    BY <2>1, <2>2, <2>3, <2>4 DEF DnsTokens, DnsCalm, Dns!TypeOK, Dns!history, DnsRequestOK
<1>2. CASE Dns!Submit
  <2>1. \/ editing = Dns!NoRow /\ token = "new" /\ Dns!Send("post", TRUE, "none", kind, token, FALSE)
        \/ editing # Dns!NoRow /\ editing.id \in Ids /\ Dns!Send("patch", TRUE, editing.id, kind, token, TRUE)
    BY <1>2, DnsNoRow DEF Dns!Submit, DnsTokens, DnsFormOK, Dns!TypeOK
  <2>2. /\ issued' \in 0 .. MaxRequests /\ \A r \in reqs' : DnsRequestOK(r)
        /\ \A r \in reqs' \ reqs : r.phase = "sent"
    BY <2>1, DnsSend DEF DnsTokens, Dns!TypeOK, DnsFormOK
  <2>3. UNCHANGED <<store, list, Dns!form, asking, Dns!history>> /\ saving' = TRUE
    BY <1>2 DEF Dns!Submit
  <2> QED
    BY <2>2, <2>3 DEF DnsTokens, DnsCalm, Dns!TypeOK, Dns!form, Dns!history, DnsFormOK, DnsRequestOK
<1>3. CASE Dns!Accept
  <2>1. asking.id \in Ids /\ asking.edited \in BOOLEAN
    BY <1>3 DEF Dns!Accept, DnsTokens, Dns!TypeOK, DnsFormOK
  <2>2. /\ issued' \in 0 .. MaxRequests /\ \A r \in reqs' : DnsRequestOK(r)
        /\ \A r \in reqs' \ reqs : r.phase = "sent"
    BY <1>0, <1>3, <2>1, DnsSend DEF Dns!Accept, Dns!DeletedRow
  <2>3. UNCHANGED <<store, list, Dns!form, saving, raced>> /\ asking' = Dns!NoQuestion
    BY <1>3 DEF Dns!Accept
  <2>4. accepted' \subseteq Ids /\ deleted' \subseteq Ids
    BY <1>3, <2>1 DEF Dns!Accept, Dns!DeletedRow, DnsTokens, Dns!TypeOK
  <2> QED
    BY <2>2, <2>3, <2>4 DEF DnsTokens, DnsCalm, Dns!TypeOK, Dns!form, DnsFormOK, DnsRequestOK, Dns!NoQuestion
<1>4. CASE \E i \in Ids, k \in Kinds, t \in Ids \cup {"none"} : Dns!OtherUpdate(i, k, t)
  <2> PICK i \in Ids, k \in Kinds, t \in Ids \cup {"none"} : Dns!OtherUpdate(i, k, t)
    BY <1>4
  <2>2. /\ issued' \in 0 .. MaxRequests /\ \A r \in reqs' : DnsRequestOK(r)
        /\ \A r \in reqs' \ reqs : r.phase = "sent"
    BY DnsSend DEF Dns!OtherUpdate
  <2>3. UNCHANGED <<store, list, Dns!form, asking, Dns!history, saving>>
    BY DEF Dns!OtherUpdate
  <2> QED
    BY <2>2, <2>3 DEF DnsTokens, DnsCalm, Dns!TypeOK, Dns!form, Dns!history, DnsFormOK, DnsRequestOK
<1>5. ASSUME NEW r \in reqs, Dns!Answered(r) \/ Dns!Loaded(r) \/ Dns!Done(r) \/ Dns!Failed(r) \/ Dns!Logged(r) \/ Dns!Refuse(r) \/ Dns!ServeList(r)
      PROVE  DnsTokens' /\ DnsCalm'
  <2>1. UNCHANGED <<store, asking, issued, Dns!history>>
    BY <1>5 DEF Dns!Answered, Dns!Loaded, Dns!Done, Dns!Failed, Dns!Logged, Dns!Refuse, Dns!ServeList
  <2>2. list' \subseteq Dns!Rows
    <3>1. r.rows \subseteq Dns!Rows /\ list \subseteq Dns!Rows
      BY DEF DnsTokens, Dns!TypeOK, DnsRequestOK, Dns!Requests
    <3> QED BY <1>5, <3>1 DEF Dns!Answered, Dns!Loaded, Dns!Done, Dns!Failed, Dns!Logged, Dns!Refuse, Dns!ServeList
  <2>3. saving' \in BOOLEAN
    <3>1. (saving /\ r.op = "delete") \in BOOLEAN
      OBVIOUS
    <3> QED BY <1>5, <3>1 DEF Dns!Answered, Dns!Loaded, Dns!Done, Dns!Failed, Dns!Logged, Dns!Refuse, Dns!ServeList, DnsTokens, Dns!TypeOK
  <2>4. UNCHANGED Dns!form \/ Dns!ResetForm
    BY <1>5 DEF Dns!Answered, Dns!Loaded, Dns!Done, Dns!Failed, Dns!Logged, Dns!Refuse, Dns!ServeList
  <2>5. editing' \in Dns!Rows \cup {Dns!NoRow} /\ kind' \in Kinds /\ token' \in Ids \cup {"new", "none"} /\ DnsFormOK'
    BY <1>0, <2>1, <2>4 DEF Dns!form, Dns!ResetForm, DnsTokens, Dns!TypeOK, DnsFormOK
  <2>6. {store[i] : i \in Ids} \ {Dns!NoRow} \subseteq Dns!Rows
    BY DEF DnsTokens, Dns!TypeOK
  <2>7. \A s \in reqs' : DnsRequestOK(s) /\ (s \in reqs \/ ~DnsHolding(s))
    <3>1. \E s : /\ reqs' = reqs \ {r} \/ reqs' = (reqs \ {r}) \cup {s}
                 /\ DnsRequestOK(s) /\ ~DnsHolding(s)
      <4>1. \A p \in {"ok", "load", "failed"} : DnsRequestOK([r EXCEPT !.phase = p]) /\ ~DnsHolding([r EXCEPT !.phase = p])
        BY DnsTo
      <4>2. \A R \in SUBSET Dns!Rows, p \in {"refresh", "loaded"} :
              DnsRequestOK([r EXCEPT !.phase = p, !.rows = R]) /\ ~DnsHolding([r EXCEPT !.phase = p, !.rows = R])
        <5> TAKE R \in SUBSET Dns!Rows, p \in {"refresh", "loaded"}
        <5>1. r \in Dns!Requests /\ DnsRequestOK(r)
          BY DEF DnsTokens, DnsRequestOK
        <5>2. [r EXCEPT !.phase = p, !.rows = R] \in Dns!Requests
          BY <5>1 DEF Dns!Requests
        <5>3. /\ [r EXCEPT !.phase = p, !.rows = R].op = r.op /\ [r EXCEPT !.phase = p, !.rows = R].id = r.id
              /\ [r EXCEPT !.phase = p, !.rows = R].token = r.token /\ [r EXCEPT !.phase = p, !.rows = R].copy = r.copy
              /\ [r EXCEPT !.phase = p, !.rows = R].phase = p
          BY <5>1 DEF Dns!Requests
        <5> QED BY <5>1, <5>2, <5>3 DEF DnsRequestOK
      <4> QED
        BY <1>5, <2>6, <4>1, <4>2 DEF Dns!Answered, Dns!Loaded, Dns!Done, Dns!Failed, Dns!Logged, Dns!Refuse, Dns!ServeList, Dns!To
    <3> QED BY <3>1 DEF DnsTokens
  <2>8. DnsTokens'
    BY <2>1, <2>2, <2>3, <2>5, <2>7 DEF DnsTokens, Dns!TypeOK, Dns!history, DnsRequestOK
  <2>9. DnsCalm'
    BY <2>1, <2>7 DEF DnsCalm, Dns!history
  <2> QED BY <2>8, <2>9
<1>6. ASSUME NEW r \in reqs, NEW i \in Ids, Dns!Create(r, i)
      PROVE  DnsTokens' /\ DnsCalm'
  <2>1. r.kind \in Kinds /\ r.token = "new" /\ store[i] = Dns!NoRow
    BY <1>6 DEF Dns!Create, DnsTokens, DnsRequestOK, Dns!Requests
  <2> DEFINE s == [r EXCEPT !.phase = "ok"]
             entry == [id |-> i, kind |-> r.kind, secret |-> r.kind, typed |-> r.token]
  <2>2. reqs' = (reqs \ {r}) \cup {s} /\ UNCHANGED <<list, Dns!form, saving, asking, issued, Dns!history>> /\ store' = [store EXCEPT ![i] = entry]
    BY <1>6 DEF Dns!Create, Dns!To
  <2>3. DnsRequestOK(s) /\ s.phase = "ok"
    BY DnsTo
  <2>4. entry \in Dns!Rows /\ entry.id = i /\ entry.typed \in {i, "new"} /\ entry.secret = entry.kind
    BY <2>1 DEF Dns!Rows
  <2> HIDE DEF s, entry
  <2>5. store' \in [Ids -> Dns!Rows \cup {Dns!NoRow}] /\ store'[i] = entry /\ \A j \in Ids \ {i} : store'[j] = store[j]
    BY <2>2, <2>4 DEF DnsTokens, Dns!TypeOK
  <2>6. DnsTokens'
    BY <2>2, <2>3, <2>4, <2>5 DEF DnsTokens, Dns!TypeOK, Dns!form, Dns!history, DnsFormOK, DnsRequestOK
  <2>7. DnsCalm'
    BY <2>1, <2>2, <2>3, <2>4, <2>5 DEF DnsCalm, DnsTokens, DnsRequestOK, Dns!history
  <2> QED BY <2>6, <2>7
<1>7. ASSUME NEW r \in reqs, Dns!Hold(r)
      PROVE  DnsTokens' /\ DnsCalm'
  <2> DEFINE s == [r EXCEPT !.phase = "held", !.copy = store[r.id]]
  <2>1. r \in Dns!Requests /\ DnsRequestOK(r) /\ r.id \in Ids /\ store[r.id] \in Dns!Rows /\ store[r.id] # Dns!NoRow
    BY <1>7 DEF Dns!Hold, DnsTokens, DnsRequestOK, Dns!TypeOK
  <2>2. s \in Dns!Requests /\ s.op = r.op /\ s.id = r.id /\ s.token = r.token /\ s.copy = store[r.id] /\ s.phase = "held"
    BY <2>1 DEF Dns!Requests
  <2>3. reqs' = (reqs \ {r}) \cup {s} /\ UNCHANGED <<store, list, Dns!form, saving, asking, issued, accepted, deleted>>
    BY <1>7 DEF Dns!Hold
  <2> HIDE DEF s
  <2>4. DnsRequestOK(s)
    BY <1>7, <2>1, <2>2 DEF DnsRequestOK, DnsTokens, Dns!Hold
  <2>5. raced' \in BOOLEAN /\ (raced => raced')
    <3>1. (raced \/ \E q \in reqs : q.id = r.id /\ q.phase \in {"held", "saved"}) \in BOOLEAN
      OBVIOUS
    <3> QED BY <1>7, <3>1 DEF Dns!Hold
  <2>6. DnsTokens'
    BY <2>3, <2>4, <2>5 DEF DnsTokens, Dns!TypeOK, Dns!form, DnsFormOK, DnsRequestOK
  <2>7. raced' \/ \A q \in reqs : DnsHolding(q) => q.id # r.id
    BY <1>7 DEF Dns!Hold
  <2>8. DnsCalm'
    BY <2>1, <2>2, <2>3, <2>5, <2>7 DEF DnsCalm
  <2> QED BY <2>6, <2>8
<1>8. ASSUME NEW r \in reqs, Dns!Update(r)
      PROVE  DnsTokens' /\ DnsCalm'
  <2> DEFINE s == [r EXCEPT !.phase = "saved"]
             entry == Dns!Updated(r)
  <2>1. r \in Dns!Requests /\ DnsRequestOK(r) /\ r.id \in Ids /\ r.copy \in Dns!Rows /\ store[r.id] \in Dns!Rows /\ r.phase = "held" /\ store[r.id] # Dns!NoRow /\ r.copy # Dns!NoRow
    BY <1>8 DEF Dns!Update, DnsTokens, DnsRequestOK, Dns!TypeOK, Dns!Requests
  <2>2. s \in Dns!Requests /\ s.op = r.op /\ s.id = r.id /\ s.token = r.token /\ s.copy = r.copy /\ s.phase = "saved" /\ DnsRequestOK(s)
    BY <2>1 DEF Dns!Requests, DnsRequestOK
  <2>3. reqs' = (reqs \ {r}) \cup {s} /\ UNCHANGED <<list, Dns!form, saving, asking, issued, Dns!history>> /\ store' = [store EXCEPT ![r.id] = entry]
    BY <1>8 DEF Dns!Update, Dns!To
  <2>4. entry \in Dns!Rows /\ entry.id = r.id /\ entry.typed \in {r.id, "new"}
    BY <2>1 DEF Dns!Updated, Dns!Rows, DnsRequestOK, Dns!Requests, DnsTokens
  <2>5. r.token # "none" => entry.secret = entry.kind
    BY <2>1 DEF Dns!Updated, Dns!Rows, DnsRequestOK, Dns!Requests
  <2>6. r.token = "none" => entry.secret = store[r.id].secret /\ entry.kind = r.copy.kind
    BY <1>8, <2>1 DEF Dns!Update, Dns!MayUpdate, Dns!Updated, Dns!Rows
  <2> HIDE DEF s, entry
  <2>7. store' \in [Ids -> Dns!Rows \cup {Dns!NoRow}] /\ store'[r.id] = entry /\ \A i \in Ids \ {r.id} : store'[i] = store[i]
    BY <2>1, <2>3, <2>4 DEF DnsTokens, Dns!TypeOK
  <2>8. DnsTokens'
    BY <2>2, <2>3, <2>4, <2>7 DEF DnsTokens, Dns!TypeOK, Dns!form, Dns!history, DnsFormOK, DnsRequestOK
  <2>9. DnsCalm'
    BY <2>1, <2>2, <2>3, <2>5, <2>6, <2>7 DEF DnsCalm, DnsTokens, DnsRequestOK, Dns!history
  <2> QED BY <2>8, <2>9
<1>9. ASSUME NEW r \in reqs, Dns!Delete(r) \/ Dns!PutBack(r)
      PROVE  DnsTokens' /\ DnsCalm'
  <2>1. r \in Dns!Requests /\ r.id \in Ids /\ r.copy \in Dns!Rows /\ DnsHolding(r) /\ r.copy # Dns!NoRow /\ r.copy.id = r.id /\ r.copy.typed \in {r.id, "new"}
    BY <1>9 DEF Dns!Delete, Dns!PutBack, DnsTokens, DnsRequestOK, Dns!Requests
  <2>2. PICK s, entry : /\ reqs' = (reqs \ {r}) \cup {s} \/ reqs' = reqs \ {r}
                      /\ DnsRequestOK(s) /\ s.id = r.id /\ s.copy = r.copy /\ s.phase \in {"saved", "failed"}
                      /\ entry \in {Dns!NoRow, r.copy} /\ store' = [store EXCEPT ![r.id] = entry]
    <3>1. \A p \in {"saved", "failed"} :
            /\ DnsRequestOK([r EXCEPT !.phase = p]) /\ [r EXCEPT !.phase = p].phase = p
            /\ [r EXCEPT !.phase = p].id = r.id /\ [r EXCEPT !.phase = p].copy = r.copy
      <4> TAKE p \in {"saved", "failed"}
      <4>1. p \in {"sent", "held", "saved", "ok", "load", "loaded", "refresh", "failed"}
        OBVIOUS
      <4> QED BY <2>1, <4>1, DnsTo
    <3>2. CASE Dns!Delete(r)
      <4> WITNESS [r EXCEPT !.phase = "saved"], Dns!NoRow
      <4> QED BY <3>1, <3>2 DEF Dns!Delete, Dns!To
    <3>3. CASE Dns!PutBack(r)
      <4> WITNESS [r EXCEPT !.phase = "failed"], r.copy
      <4> QED BY <3>1, <3>3 DEF Dns!PutBack, Dns!To
    <3> QED BY <1>9, <3>2, <3>3
  <2>3. UNCHANGED <<list, Dns!form, saving, asking, issued, Dns!history>>
    BY <1>9 DEF Dns!Delete, Dns!PutBack
  <2>4. store' \in [Ids -> Dns!Rows \cup {Dns!NoRow}] /\ store'[r.id] = entry /\ \A j \in Ids \ {r.id} : store'[j] = store[j]
    BY <2>1, <2>2 DEF DnsTokens, Dns!TypeOK
  <2>5. DnsTokens'
    BY <2>1, <2>2, <2>3, <2>4 DEF DnsTokens, Dns!TypeOK, Dns!form, Dns!history, DnsFormOK, DnsRequestOK
  <2>6. DnsCalm'
    BY <2>1, <2>2, <2>3, <2>4 DEF DnsCalm, DnsTokens, DnsRequestOK, Dns!history
  <2> QED BY <2>5, <2>6
<1> QED BY <1>1, <1>2, <1>3, <1>4, <1>5, <1>6, <1>7, <1>8, <1>9 DEF Dns!Next

(* Deletions were confirmed, whatever else is going on. *)
LEMMA DnsDeletes == ASSUME Dns!DeletedWereConfirmed, [Dns!Next]_Dns!vars PROVE Dns!DeletedWereConfirmed'
<1>1. CASE Dns!Accept
  BY <1>1 DEF Dns!Accept, Dns!DeletedWereConfirmed, Dns!DeletedRow
<1>2. CASE UNCHANGED <<accepted, deleted>>
  BY <1>2 DEF Dns!DeletedWereConfirmed
<1>3. Dns!Accept \/ UNCHANGED <<accepted, deleted>>
  BY DEF Dns!Next, Dns!vars, Dns!history, Dns!CancelEdit, Dns!TypeToken, Dns!Submit, Dns!Decline, Dns!ChooseKind, Dns!EditProvider, Dns!AskDelete, Dns!OtherUpdate,
         Dns!Answered, Dns!Loaded, Dns!Done, Dns!Failed, Dns!Hold, Dns!Update, Dns!Delete, Dns!Logged, Dns!PutBack, Dns!Refuse, Dns!ServeList, Dns!Create
<1> QED BY <1>1, <1>2, <1>3

DnsInv == DnsTokens /\ DnsCalm /\ Dns!DeletedWereConfirmed

LEMMA DnsStarts == ASSUME Dns!ConstantsOK, Dns!Init PROVE DnsInv
<1>1. Dns!DeletedWereConfirmed
  BY DEF Dns!Init, Dns!DeletedWereConfirmed
<1> QED BY <1>1, DnsInit DEF DnsInv

LEMMA DnsSteps == ASSUME Dns!ConstantsOK, DnsInv, [Dns!Next]_Dns!vars PROVE DnsInv'
<1>1. CASE UNCHANGED Dns!vars
  <2>1. DnsTokens' /\ DnsCalm'
    BY <1>1 DEF DnsInv, Dns!vars, Dns!form, Dns!history, DnsTokens, DnsCalm, Dns!TypeOK, DnsFormOK, DnsRequestOK, DnsHolding
  <2> QED BY <2>1, DnsDeletes DEF DnsInv
<1>2. CASE Dns!Next
  BY <1>2, DnsKeeps, DnsDeletes DEF DnsInv
<1> QED BY <1>1, <1>2

LEMMA DnsInvariance == ASSUME Dns!ConstantsOK PROVE Dns!Spec => []DnsInv
<1>1. Dns!Init => DnsInv
  BY DnsStarts
<1>2. DnsInv /\ [Dns!Next]_Dns!vars => DnsInv'
  BY DnsSteps
<1> QED BY <1>1, <1>2, PTL DEF Dns!Spec

LEMMA DnsShows == ASSUME DnsInv PROVE Dns!TypeOK /\ Dns!TokenOfItsProvider /\ Dns!SecretFitsUnlessRaced /\ Dns!DeletedWereConfirmed
<1>1. Dns!TypeOK /\ Dns!TokenOfItsProvider
  BY DEF DnsInv, DnsTokens, Dns!TokenOfItsProvider
<1>2. Dns!SecretFitsUnlessRaced
  BY DEF DnsInv, DnsCalm, Dns!SecretFitsUnlessRaced
<1> QED BY <1>1, <1>2 DEF DnsInv

(* For any number of providers, services and requests: a token typed for *)
(* one provider is stored for no other, however editing, saving and      *)
(* loading overlap (the form of DNSProviderDialog and updateProvider).   *)
THEOREM TokensStayWithTheirProvider == ASSUME Dns!ConstantsOK PROVE Dns!Spec => [](Dns!TypeOK /\ Dns!TokenOfItsProvider)
<1>1. DnsInv => Dns!TypeOK /\ Dns!TokenOfItsProvider
  BY DnsShows
<1> QED BY <1>1, DnsInvariance, PTL

(* While no two handlers hold a row its secret is one for the service it *)
(* names, and only providers whose deletion was confirmed are deleted    *)
(* (handleCertificateDNSProviderItem, deleteProvider).                   *)
THEOREM SecretsFitTheirService == ASSUME Dns!ConstantsOK PROVE Dns!Spec => [](Dns!SecretFitsUnlessRaced /\ Dns!DeletedWereConfirmed)
<1>1. DnsInv => Dns!SecretFitsUnlessRaced /\ Dns!DeletedWereConfirmed
  BY DnsShows
<1> QED BY <1>1, DnsInvariance, PTL

-----------------------------------------------------------------------------
(***************************************************************************)
(* The file panels, in each of their three forms. Besides the properties   *)
(* themselves the invariant says that only the storage dialog has a path   *)
(* typed by hand.                                                          *)
(***************************************************************************)

(* Only the storage dialog has a path field. *)
FilesInv ==
  /\ Panels!TypeOK /\ (Panel # "storage" => ~byHand)
  /\ Panels!TextOfItsFile /\ Panels!OperatesWhereShown /\ Panels!OverwriteWasTicked /\ Panels!OneFormAtATime /\ Panels!DeletedWereConfirmed

FileForm == [mode : Panels!Modes \cup {"none"}, src : Files \cup {"none"}, overwrite : BOOLEAN, ticked : Files \cup {"none"}]
FileActions == [Panels!Forms -> FileForm]
Honest(v) == v.overwrite => v.ticked = v.src

(* One form may change when what it becomes has no tick for another source. *)
LEMMA FilesForm ==
  ASSUME NEW old \in FileActions, \A i \in Panels!Forms : Honest(old[i]),
         NEW k \in Panels!Forms, NEW v \in FileForm, Honest(v)
  PROVE  /\ [old EXCEPT ![k] = v] \in FileActions
         /\ \A i \in Panels!Forms : Honest([old EXCEPT ![k] = v][i])
         /\ [old EXCEPT ![k] = v][k] = v
<1>1. /\ [old EXCEPT ![k] = v] \in FileActions /\ [old EXCEPT ![k] = v][k] = v
      /\ \A i \in Panels!Forms : i # k => [old EXCEPT ![k] = v][i] = old[i]
  BY DEF FileActions
<1> QED BY <1>1

LEMMA FilesTyped ==
  ASSUME Panels!TypeOK, Panels!OverwriteWasTicked
  PROVE  action \in FileActions /\ \A i \in Panels!Forms : Honest(action[i])
BY DEF Panels!TypeOK, Panels!OverwriteWasTicked, FileActions, FileForm, Honest

LEMMA FilesOther ==
  ASSUME Panels!TypeOK, Panels!OverwriteWasTicked
  PROVE  /\ Panels!OtherForm \in FileActions /\ \A i \in Panels!Forms : Honest(Panels!OtherForm[i])
         /\ Panel = "ssh" => Panels!OtherForm["sftp"].mode = "none"
<1>1. action \in FileActions /\ \A i \in Panels!Forms : Honest(action[i])
  BY FilesTyped
<1>2. CASE Panel = "ssh"
  <2> DEFINE v == [action["sftp"] EXCEPT !.mode = "none"]
  <2>1. "sftp" \in Panels!Forms
    BY <1>2 DEF Panels!Forms
  <2>2. action["sftp"] \in FileForm
    BY <1>1, <2>1 DEF FileActions
  <2>3. v \in FileForm /\ v.mode = "none" /\ v.overwrite = action["sftp"].overwrite /\ v.ticked = action["sftp"].ticked /\ v.src = action["sftp"].src
    BY <2>2 DEF FileForm
  <2>4. Honest(v)
    BY <1>1, <2>1, <2>3 DEF Honest
  <2>5. Panels!OtherForm = [action EXCEPT !["sftp"] = v]
    BY <1>2 DEF Panels!OtherForm
  <2> HIDE DEF v
  <2> QED BY <1>1, <2>1, <2>3, <2>4, <2>5, FilesForm
<1>3. CASE Panel # "ssh"
  BY <1>1, <1>3 DEF Panels!OtherForm
<1> QED BY <1>2, <1>3

LEMMA FilesEmpty ==
  ASSUME NEW k \in Panels!Forms
  PROVE  Panels!NoAction(k) \in FileForm /\ Honest(Panels!NoAction(k)) /\ (Panel = "ssh" => Panels!NoAction(k).mode = "none")
<1>1. Panel = "storage" => k \in Panels!Modes
  BY DEF Panels!Forms
<1>2. (IF Panel = "storage" THEN k ELSE "none") \in Panels!Modes \cup {"none"}
  BY <1>1
<1> QED BY <1>2 DEF Panels!NoAction, FileForm, Honest

LEMMA FilesInit == ASSUME Panels!ConstantsOK, Panels!Init PROVE FilesInv
<1>1. editor = [file |-> "none", from |-> "none", retyped |-> FALSE] /\ action = [form \in Panels!Forms |-> Panels!NoAction(form)]
  BY DEF Panels!Init, Panels!Closed
<1>2. issued = 1 /\ 1 \in 0 .. MaxRequests
  BY DEF Panels!Init, Panels!ConstantsOK
<1>3. reqs \subseteq [n : 1 .. issued, op : Panels!Ops, file : Files \cup {"none"}, folder : Folders, phase : {"sent", "reload"}]
  BY <1>2 DEF Panels!Init, Panels!ConstantsOK, Panels!Ops
<1>4. editor \in [file : Files \cup {"none"}, from : Files \cup {"none", "typed"}, retyped : BOOLEAN]
  BY <1>1
<1>5. action \in FileActions /\ \A i \in Panels!Forms : Honest(action[i])
  BY <1>1, FilesEmpty DEF FileActions
<1>6. Panels!TypeOK
  BY <1>2, <1>3, <1>4, <1>5 DEF Panels!Init, Panels!TypeOK, Panels!ConstantsOK, FileActions, FileForm
<1>7. Panels!OverwriteWasTicked
  BY <1>5 DEF Panels!OverwriteWasTicked, Honest
<1> QED
  BY <1>1, <1>6, <1>7 DEF Panels!Init, Panels!Closed, Panels!ConstantsOK, FilesInv, Panels!TextOfItsFile, Panels!OperatesWhereShown, Panels!OneFormAtATime, Panels!DeletedWereConfirmed

LEMMA FilesSend ==
  ASSUME Panels!ConstantsOK, Panels!TypeOK, NEW op \in Panels!Ops, NEW file \in Files \cup {"none"}, NEW folder \in Folders, Panels!Send(op, file, folder)
  PROVE  /\ issued' \in 0 .. MaxRequests
         /\ reqs' \subseteq [n : 1 .. issued', op : Panels!Ops, file : Files \cup {"none"}, folder : Folders, phase : {"sent", "reload"}]
<1> DEFINE new == [n |-> issued + 1, op |-> op, file |-> file, folder |-> folder, phase |-> "sent"]
           All(k) == [n : 1 .. k, op : Panels!Ops, file : Files \cup {"none"}, folder : Folders, phase : {"sent", "reload"}]
<1>1. issued \in Nat /\ issued' = issued + 1 /\ issued' \in 0 .. MaxRequests /\ reqs' = reqs \cup {new} /\ reqs \subseteq All(issued)
  BY DEF Panels!Send, Panels!TypeOK, Panels!ConstantsOK
<1>2. new \in All(issued')
  BY <1>1
<1>3. All(issued) \subseteq All(issued')
  BY <1>1
<1> HIDE DEF new
<1> QED BY <1>1, <1>2, <1>3

LEMMA FilesMoves ==
  ASSUME Panels!TypeOK, NEW r \in reqs
  PROVE  /\ r.op \in Panels!Ops /\ r.file \in Files \cup {"none"} /\ r.folder \in Folders
         /\ \A R : R \in {reqs \ {r}, Panels!To(r, "reload")} => R \subseteq [n : 1 .. issued, op : Panels!Ops, file : Files \cup {"none"}, folder : Folders, phase : {"sent", "reload"}]
BY DEF Panels!TypeOK, Panels!To

LEMMA FilesKeeps == ASSUME Panels!ConstantsOK, FilesInv, Panels!Next PROVE FilesInv'
<1> USE DEF FilesInv
<1>t. /\ "list" \in Panels!Ops /\ "edit" \in Panels!Ops /\ "write" \in Panels!Ops /\ "mkdir" \in Panels!Ops /\ "upload" \in Panels!Ops /\ Panels!Modes \subseteq Panels!Ops /\ "delete" \in Panels!Ops
      /\ path \in Folders /\ editor.file \in Files \cup {"none"} /\ asking \in Files \cup {"none"}
  BY DEF Panels!TypeOK, Panels!Ops, Panels!Modes
<1>a. action \in FileActions /\ \A i \in Panels!Forms : Honest(action[i]) /\ action[i] \in FileForm
  BY FilesTyped DEF FileActions
<1>f. ASSUME action' \in FileActions, \A i \in Panels!Forms : Honest(action'[i])
      PROVE  Panels!OverwriteWasTicked' /\ action' \in [Panels!Forms -> [mode : Panels!Modes \cup {"none"}, src : Files \cup {"none"}, overwrite : BOOLEAN, ticked : Files \cup {"none"}]]
  BY <1>f DEF FileActions, FileForm, Honest, Panels!OverwriteWasTicked
<1>c. Panels!Closed \in [file : Files \cup {"none"}, from : Files \cup {"none", "typed"}, retyped : BOOLEAN] /\ Panels!Closed.from = "none"
  BY DEF Panels!Closed
<1>1. CASE Panels!ClearEditor
  BY <1>1, <1>c DEF Panels!ClearEditor, Panels!TypeOK, Panels!TextOfItsFile, Panels!OperatesWhereShown, Panels!OverwriteWasTicked, Panels!OneFormAtATime, Panels!DeletedWereConfirmed, Panels!place, Panels!forms, Panels!counters, Panels!history, Panels!ConstantsOK
<1>2. CASE Panels!WriteFile \/ Panels!UploadFile \/ Panels!CreateFolder \/ (\E f \in Files : Panels!EditEntry(f)) \/ (\E i \in Panels!Forms : Panels!RunAction(i))
  <2>1. /\ issued' \in 0 .. MaxRequests
        /\ reqs' \subseteq [n : 1 .. issued', op : Panels!Ops, file : Files \cup {"none"}, folder : Folders, phase : {"sent", "reload"}]
    <3>1. ASSUME NEW i \in Panels!Forms, Panels!RunAction(i)
          PROVE  action[i].mode \in Panels!Ops /\ action[i].src \in Files \cup {"none"}
      BY <1>a, <1>t, <3>1 DEF Panels!RunAction, FileForm
    <3>2. CASE \E i \in Panels!Forms : Panels!RunAction(i)
      BY <1>t, <3>1, <3>2, FilesSend DEF Panels!RunAction
    <3>3. CASE Panels!WriteFile \/ Panels!UploadFile \/ Panels!CreateFolder \/ (\E f \in Files : Panels!EditEntry(f))
      BY <3>3, <1>t, FilesSend DEF Panels!WriteFile, Panels!UploadFile, Panels!CreateFolder, Panels!EditEntry
    <3> QED BY <1>2, <3>2, <3>3
  <2>2. UNCHANGED <<Panels!place, editor, action, asking, Panels!history>>
    BY <1>2 DEF Panels!WriteFile, Panels!RunAction, Panels!UploadFile, Panels!CreateFolder, Panels!EditEntry, Panels!text, Panels!forms
  <2>3. fetching' \in Files \cup {"none"}
    BY <1>2 DEF Panels!WriteFile, Panels!RunAction, Panels!UploadFile, Panels!CreateFolder, Panels!EditEntry, Panels!text, Panels!TypeOK
  <2>4. (Panel = "ssh") \in BOOLEAN /\ (Panel # "storage") \in BOOLEAN
    OBVIOUS
  <2>5. saving' \in BOOLEAN /\ running' \in BOOLEAN /\ uploading' \in BOOLEAN
    BY <1>2, <2>4 DEF Panels!WriteFile, Panels!RunAction, Panels!UploadFile, Panels!CreateFolder, Panels!EditEntry, Panels!text, Panels!forms, Panels!TypeOK
  <2> QED
    BY <2>1, <2>2, <2>3, <2>5 DEF Panels!TypeOK, Panels!TextOfItsFile, Panels!OperatesWhereShown, Panels!OverwriteWasTicked, Panels!OneFormAtATime, Panels!DeletedWereConfirmed, Panels!place, Panels!history
<1>d. CASE \E f \in Files : Panels!DeleteDriveEntry(f)
  <2>1. /\ issued' \in 0 .. MaxRequests
        /\ reqs' \subseteq [n : 1 .. issued', op : Panels!Ops, file : Files \cup {"none"}, folder : Folders, phase : {"sent", "reload"}]
    BY <1>d, <1>t, FilesSend DEF Panels!DeleteDriveEntry
  <2>2. Panel = "drive" /\ accepted' = accepted /\ deleted' \subseteq Files
    BY <1>d DEF Panels!DeleteDriveEntry, Panels!TypeOK
  <2> QED
    BY <1>d, <2>1, <2>2 DEF Panels!DeleteDriveEntry, Panels!TypeOK, Panels!TextOfItsFile, Panels!OperatesWhereShown, Panels!OverwriteWasTicked, Panels!OneFormAtATime, Panels!DeletedWereConfirmed, Panels!place, Panels!text, Panels!forms
<1>3. ASSUME NEW i \in Panels!Forms,
             Panels!TickOverwrite(i) \/ Panels!CancelAction(i) \/ \E f \in Files \cup {"none"} : Panels!TypeSource(i, f)
      PROVE  FilesInv'
  <2>1. action[i] \in FileForm /\ Honest(action[i])
    BY <1>a
  <2>2. PICK v \in FileForm : Honest(v) /\ action' = [action EXCEPT ![i] = v] /\ (v.mode # "none" => action[i].mode # "none")
    <3>1. CASE Panels!TickOverwrite(i)
      <4> DEFINE v == [action[i] EXCEPT !.overwrite = ~action[i].overwrite, !.ticked = IF action[i].overwrite THEN "none" ELSE action[i].src]
      <4>1. v \in FileForm /\ v.mode = action[i].mode /\ Honest(v)
        BY <2>1 DEF FileForm, Honest
      <4>2. action' = [action EXCEPT ![i] = v]
        BY <1>a, <3>1 DEF Panels!TickOverwrite, FileActions, FileForm
      <4> HIDE DEF v
      <4> QED BY <4>1, <4>2
    <3>2. CASE Panels!CancelAction(i)
      <4> DEFINE v == [action[i] EXCEPT !.mode = "none"]
      <4>1. v \in FileForm /\ v.mode = "none" /\ Honest(v)
        BY <2>1 DEF FileForm, Honest
      <4>2. action' = [action EXCEPT ![i] = v]
        BY <1>a, <3>2 DEF Panels!CancelAction, FileActions, FileForm
      <4> HIDE DEF v
      <4> QED BY <4>1, <4>2
    <3>3. ASSUME NEW f \in Files \cup {"none"}, Panels!TypeSource(i, f)
          PROVE  \E v \in FileForm : Honest(v) /\ action' = [action EXCEPT ![i] = v] /\ (v.mode # "none" => action[i].mode # "none")
      <4> DEFINE v == [action[i] EXCEPT !.src = f, !.ticked = IF action[i].overwrite THEN f ELSE "none"]
      <4>1. v \in FileForm /\ v.mode = action[i].mode /\ Honest(v)
        BY <2>1 DEF FileForm, Honest
      <4>2. action' = [action EXCEPT ![i] = v]
        BY <1>a, <3>3 DEF Panels!TypeSource, FileActions, FileForm
      <4> HIDE DEF v
      <4> QED BY <4>1, <4>2
    <3> QED BY <1>3, <3>1, <3>2, <3>3
  <2>3. action' \in FileActions /\ (\A k \in Panels!Forms : Honest(action'[k])) /\ action'[i] = v
    BY <1>a, <2>2, FilesForm
  <2>4. /\ UNCHANGED <<path, shown, byHand, editor, fetching, saving, running, uploading, asking, reqs, issued, accepted, deleted>>
    BY <1>3 DEF Panels!TickOverwrite, Panels!CancelAction, Panels!TypeSource, Panels!place, Panels!text, Panels!counters, Panels!history
  <2>5. Panels!OneFormAtATime'
    <3>1. CASE Panel = "ssh"
      <4>1. i = "sftp"
        BY <3>1 DEF Panels!Forms
      <4> QED BY <2>2, <2>3, <2>4, <4>1 DEF Panels!OneFormAtATime
    <3> QED BY <3>1 DEF Panels!OneFormAtATime
  <2> QED
    BY <1>f, <2>3, <2>4, <2>5 DEF Panels!TypeOK, Panels!TextOfItsFile, Panels!OperatesWhereShown, Panels!DeletedWereConfirmed
<1>4. CASE Panels!Accept
  <2>1. /\ issued' \in 0 .. MaxRequests
        /\ reqs' \subseteq [n : 1 .. issued', op : Panels!Ops, file : Files \cup {"none"}, folder : Folders, phase : {"sent", "reload"}]
    BY <1>4, <1>t, FilesSend DEF Panels!Accept, Panels!ConfirmedFile
  <2> QED
    BY <1>4, <1>t, <2>1 DEF Panels!Accept, Panels!ConfirmedFile, Panels!TypeOK, Panels!TextOfItsFile, Panels!OperatesWhereShown, Panels!OverwriteWasTicked, Panels!OneFormAtATime, Panels!DeletedWereConfirmed, Panels!place, Panels!text, Panels!forms
<1>5. CASE Panels!Decline \/ \E f \in Files : Panels!AskDelete(f)
  BY <1>5 DEF Panels!Decline, Panels!AskDelete, Panels!TypeOK, Panels!TextOfItsFile, Panels!OperatesWhereShown, Panels!OverwriteWasTicked, Panels!OneFormAtATime, Panels!DeletedWereConfirmed, Panels!place, Panels!text, Panels!forms, Panels!counters, Panels!history
<1>6. ASSUME NEW folder \in Folders, Panels!OpenFolder(folder) PROVE FilesInv'
  <2>1. /\ issued' \in 0 .. MaxRequests
        /\ reqs' \subseteq [n : 1 .. issued', op : Panels!Ops, file : Files \cup {"none"}, folder : Folders, phase : {"sent", "reload"}]
    BY <1>6, <1>t, FilesSend DEF Panels!OpenFolder
  <2>2. path' \in Folders /\ shown' \in Folders \cup {"none"} /\ byHand' \in BOOLEAN
    BY <1>6 DEF Panels!OpenFolder, Panels!TypeOK, Panels!place
  <2>3. Panels!OperatesWhereShown' /\ (Panel # "storage" => ~byHand')
    BY <1>6 DEF Panels!OpenFolder, Panels!OperatesWhereShown, Panels!place
  <2> QED
    BY <1>6, <2>1, <2>2, <2>3 DEF Panels!OpenFolder, Panels!TypeOK, Panels!TextOfItsFile, Panels!OverwriteWasTicked, Panels!OneFormAtATime, Panels!DeletedWereConfirmed, Panels!text, Panels!forms, Panels!history
<1>7. ASSUME NEW folder \in Folders, Panels!TypePath(folder) PROVE FilesInv'
  BY <1>7 DEF Panels!TypePath, Panels!TypeOK, Panels!TextOfItsFile, Panels!OperatesWhereShown, Panels!OverwriteWasTicked, Panels!OneFormAtATime, Panels!DeletedWereConfirmed, Panels!place, Panels!text, Panels!forms, Panels!counters, Panels!history
<1>8. ASSUME NEW f \in Files, Panels!NameFile(f) PROVE FilesInv'
  <2>1. action' \in FileActions /\ (\A i \in Panels!Forms : Honest(action'[i])) /\ (Panel = "ssh" => action'["sftp"].mode = "none")
    BY <1>8, FilesOther DEF Panels!NameFile
  <2>2. editor' \in [file : Files \cup {"none"}, from : Files \cup {"none", "typed"}, retyped : BOOLEAN] /\ Panels!TextOfItsFile'
    <3>1. CASE Panel = "ssh"
      <4>1. [file |-> f, from |-> "typed", retyped |-> FALSE] \in [file : Files \cup {"none"}, from : Files \cup {"none", "typed"}, retyped : BOOLEAN]
        OBVIOUS
      <4>2. editor' = [file |-> f, from |-> "typed", retyped |-> FALSE] /\ editor'.from \notin Files
        BY <1>8, <3>1 DEF Panels!NameFile, Panels!ConstantsOK
      <4> QED BY <4>1, <4>2 DEF Panels!TextOfItsFile
    <3>2. CASE Panel # "ssh"
      <4>1. [editor EXCEPT !.file = f, !.retyped = TRUE] \in [file : Files \cup {"none"}, from : Files \cup {"none", "typed"}, retyped : BOOLEAN]
            /\ [editor EXCEPT !.file = f, !.retyped = TRUE].retyped
        BY DEF Panels!TypeOK
      <4> QED BY <1>8, <3>2, <4>1 DEF Panels!NameFile, Panels!TextOfItsFile
    <3> QED BY <3>1, <3>2
  <2> QED
    BY <1>8, <1>f, <2>1, <2>2 DEF Panels!NameFile, Panels!TypeOK, Panels!OperatesWhereShown, Panels!OneFormAtATime, Panels!DeletedWereConfirmed, Panels!place, Panels!counters, Panels!history
<1>9. ASSUME NEW f \in Files, NEW mode \in Panels!Modes, Panels!BeginAction(mode, f) PROVE FilesInv'
  <2> DEFINE v == [mode |-> mode, src |-> f, overwrite |-> FALSE, ticked |-> "none"]
  <2>1. Panel # "drive" /\ Panels!FormOf(mode) \in Panels!Forms
    BY <1>9 DEF Panels!BeginAction, Panels!HasEditor, Panels!FormOf, Panels!Forms, Panels!ConstantsOK
  <2>2. v \in FileForm /\ Honest(v) /\ action' = [action EXCEPT ![Panels!FormOf(mode)] = v]
    BY <1>9 DEF FileForm, Honest, Panels!BeginAction, Panels!Begun
  <2> HIDE DEF v
  <2>3. action' \in FileActions /\ (\A i \in Panels!Forms : Honest(action'[i]))
    BY <1>a, <2>1, <2>2, FilesForm
  <2>4. editor' \in [file : Files \cup {"none"}, from : Files \cup {"none", "typed"}, retyped : BOOLEAN] /\ Panels!TextOfItsFile' /\ (Panel = "ssh" => editor' = Panels!Closed)
    BY <1>9, <1>c DEF Panels!BeginAction, Panels!TypeOK, Panels!TextOfItsFile, Panels!ConstantsOK
  <2>5. Panels!OneFormAtATime' /\ UNCHANGED <<path, shown, byHand, fetching, saving, running, uploading, asking, reqs, issued, accepted, deleted>>
    BY <1>9, <2>4 DEF Panels!BeginAction, Panels!Closed, Panels!OneFormAtATime, Panels!place, Panels!counters, Panels!history
  <2> QED BY <1>f, <2>3, <2>4, <2>5 DEF Panels!TypeOK, Panels!OperatesWhereShown, Panels!DeletedWereConfirmed
<1>10. ASSUME NEW r \in reqs, Panels!Listed(r) PROVE FilesInv'
  <2>1. r.folder \in Folders /\ path \in Folders /\ shown \in Folders \cup {"none"} /\ byHand \in BOOLEAN
    BY FilesMoves DEF Panels!TypeOK
  <2>2. path' \in Folders /\ shown' \in Folders \cup {"none"} /\ byHand' \in BOOLEAN
    BY <1>10, <2>1 DEF Panels!Listed
  <2>3. Panels!OperatesWhereShown' /\ (Panel # "storage" => ~byHand')
    BY <1>10, <2>1 DEF Panels!Listed, Panels!OperatesWhereShown
  <2> QED
    BY <1>10, <2>2, <2>3, FilesMoves DEF Panels!Listed, Panels!TypeOK, Panels!TextOfItsFile, Panels!OverwriteWasTicked, Panels!OneFormAtATime, Panels!DeletedWereConfirmed, Panels!text, Panels!forms, Panels!history
<1>11. ASSUME NEW r \in reqs, Panels!TextArrives(r) PROVE FilesInv'
  <2>1. action' \in FileActions /\ (\A i \in Panels!Forms : Honest(action'[i])) /\ (Panel = "ssh" => action'["sftp"].mode = "none")
    BY <1>11, FilesOther DEF Panels!TextArrives
  <2>2. editor' \in [file : Files \cup {"none"}, from : Files \cup {"none", "typed"}, retyped : BOOLEAN] /\ Panels!TextOfItsFile'
    BY <1>11, FilesMoves DEF Panels!TextArrives, Panels!Opened, Panels!TextOfItsFile
  <2> QED
    BY <1>11, <1>f, <2>1, <2>2, FilesMoves DEF Panels!TextArrives, Panels!TypeOK, Panels!OperatesWhereShown, Panels!OneFormAtATime, Panels!DeletedWereConfirmed, Panels!place, Panels!history
<1>12. ASSUME NEW r \in reqs, Panels!Succeeded(r) PROVE FilesInv'
  <2>1. action' = [i \in Panels!Forms |-> IF r.op \in Panels!Modes /\ i = Panels!FormOf(r.op) THEN Panels!NoAction(i) ELSE action[i]]
    BY <1>12 DEF Panels!Succeeded
  <2>2. action' \in FileActions /\ (\A i \in Panels!Forms : Honest(action'[i]))
    BY <1>a, <2>1, FilesEmpty DEF FileActions
  <2>3. Panels!OneFormAtATime'
    <3>1. CASE Panel = "ssh"
      <4>1. "sftp" \in Panels!Forms
        BY <3>1 DEF Panels!Forms
      <4>2. action'["sftp"] = action["sftp"] \/ action'["sftp"].mode = "none"
        BY <2>1, <3>1, <4>1, FilesEmpty
      <4> QED BY <1>12, <4>2 DEF Panels!Succeeded, Panels!OneFormAtATime, Panels!Closed
    <3> QED BY <3>1 DEF Panels!OneFormAtATime
  <2>4. editor' \in [file : Files \cup {"none"}, from : Files \cup {"none", "typed"}, retyped : BOOLEAN] /\ Panels!TextOfItsFile'
    BY <1>12, <1>c DEF Panels!Succeeded, Panels!TypeOK, Panels!TextOfItsFile, Panels!ConstantsOK
  <2> QED
    BY <1>12, <1>f, <2>2, <2>3, <2>4, FilesMoves DEF Panels!Succeeded, Panels!TypeOK, Panels!OperatesWhereShown, Panels!DeletedWereConfirmed, Panels!place, Panels!history
<1>13. ASSUME NEW r \in reqs, Panels!Reloaded(r) \/ Panels!Failed(r) PROVE FilesInv'
  <2>1. (saving /\ r.op # "write") \in BOOLEAN /\ (running /\ r.op \notin Panels!Modes) \in BOOLEAN /\ (uploading /\ r.op # "upload") \in BOOLEAN
    OBVIOUS
  <2>2. saving' \in BOOLEAN /\ running' \in BOOLEAN /\ uploading' \in BOOLEAN
    BY <1>13, <2>1 DEF Panels!Reloaded, Panels!Failed
  <2>3. /\ path' \in Folders /\ shown' \in Folders \cup {"none"} /\ byHand' \in BOOLEAN /\ Panels!OperatesWhereShown'
        /\ Panel # "storage" => ~byHand'
    <3>1. r.folder \in Folders /\ path \in Folders /\ shown \in Folders \cup {"none"} /\ byHand \in BOOLEAN
      BY FilesMoves DEF Panels!TypeOK
    <3>2. CASE UNCHANGED Panels!place
      BY <3>1, <3>2 DEF Panels!place, Panels!OperatesWhereShown
    <3>3. CASE Panel = "storage" /\ path' = r.folder /\ shown' = r.folder /\ byHand' = FALSE
      BY <3>1, <3>3 DEF Panels!OperatesWhereShown
    <3>4. CASE Panel # "storage" /\ shown' = path /\ UNCHANGED <<path, byHand>>
      BY <3>1, <3>4 DEF Panels!OperatesWhereShown
    <3> QED BY <1>13, <3>2, <3>3, <3>4 DEF Panels!Reloaded, Panels!Failed
  <2> QED
    BY <1>13, <2>2, <2>3, FilesMoves DEF Panels!Reloaded, Panels!Failed, Panels!TypeOK, Panels!TextOfItsFile, Panels!OverwriteWasTicked, Panels!OneFormAtATime, Panels!DeletedWereConfirmed, Panels!history
<1> QED
  BY <1>1, <1>2, <1>3, <1>4, <1>5, <1>6, <1>7, <1>8, <1>9, <1>10, <1>11, <1>12, <1>13, <1>d DEF Panels!Next

LEMMA FilesSteps == ASSUME Panels!ConstantsOK, FilesInv, [Panels!Next]_Panels!vars PROVE FilesInv'
<1>1. CASE UNCHANGED Panels!vars
  BY <1>1 DEF Panels!vars, Panels!place, Panels!text, Panels!forms, Panels!counters, Panels!history, FilesInv, Panels!TypeOK, Panels!TextOfItsFile, Panels!OperatesWhereShown, Panels!OverwriteWasTicked, Panels!OneFormAtATime, Panels!DeletedWereConfirmed
<1> QED BY <1>1, FilesKeeps

LEMMA FilesInvariance == ASSUME Panels!ConstantsOK PROVE Panels!Spec => []FilesInv
<1>1. Panels!Init => FilesInv
  BY FilesInit
<1>2. FilesInv /\ [Panels!Next]_Panels!vars => FilesInv'
  BY FilesSteps
<1> QED BY <1>1, <1>2, PTL DEF Panels!Spec

(* For each of the three panels and any files, folders and requests: the   *)
(* text in the editor is that of the file it will be saved to, whatever    *)
(* file was opened while it was loading (editTextEntry, saveTextFile).     *)
THEOREM TextsStayWithTheirFile == ASSUME Panels!ConstantsOK PROVE Panels!Spec => [](Panels!TypeOK /\ Panels!TextOfItsFile)
<1>1. FilesInv => Panels!TypeOK /\ Panels!TextOfItsFile
  BY DEF FilesInv
<1> QED BY <1>1, FilesInvariance, PTL

(* Uploads and new folders go to the folder on display, the program never  *)
(* carries a tick to overwrite over from one file to another (the user may *)
(* retype the source under a tick), the storage dialog and the SFTP panel  *)
(* delete only what was confirmed, and the SFTP panel has one form at a    *)
(* time (createFolder, uploadSelectedFile, deleteEntry, runFileAction).    *)
THEOREM FilesGoWhereShown ==
  ASSUME Panels!ConstantsOK PROVE Panels!Spec => [](Panels!OperatesWhereShown /\ Panels!OverwriteWasTicked /\ Panels!DeletedWereConfirmed /\ Panels!OneFormAtATime)
<1>1. FilesInv => Panels!OperatesWhereShown /\ Panels!OverwriteWasTicked /\ Panels!DeletedWereConfirmed /\ Panels!OneFormAtATime
  BY DEF FilesInv
<1> QED BY <1>1, FilesInvariance, PTL

-----------------------------------------------------------------------------
(***************************************************************************)
(* Servers and credentials. The properties are about records two requests  *)
(* make one after the other, the first of which may be taken back: the     *)
(* invariant says which numbers are settled (AssetServers), what a request *)
(* has done so far (AssetStored), what can no longer be taken back         *)
(* (AssetReported) and who answers for a server the list does not show yet *)
(* (AssetListed).                                                          *)
(***************************************************************************)

AssetRequests ==
  [n : 1 .. issued, op : {"server", "credential"}, save : {"server", "credential"},
   phase : {"sent", "stored", "checked", "done", "refresh", "failed"}, server : 0 .. issued,
   os : Assets!Systems, type : Assets!Types, with : BOOLEAN, mount : 1 .. mount]

(* Requests have numbers of their own, and a dialog has one of them.       *)
AssetShapes ==
  /\ Assets!TypeOK /\ issued \in 0 .. MaxRequests /\ mount \in 0 .. MaxOpens
  /\ reqs \subseteq AssetRequests
  /\ modal.type = "none" => modal = Assets!NoModal
  /\ modal.type = "server" => modal.server = 0
  /\ modal # Assets!NoModal => mount # 0
  /\ \A q, r \in reqs : q.n = r.n \/ q.mount = r.mount => q = r
  /\ \A r \in reqs : r.op = "server" => r.save = "server" /\ r.phase # "checked" /\ (r.phase = "refresh" => ~r.with)
  /\ \A r \in reqs : r.op = "credential" => r.with /\ r.phase # "stored"

(* A number is settled once no request can store a server under it.        *)
AssetSettled(i) == i \in 1 .. issued /\ \A q \in reqs : q.op = "server" /\ q.phase = "sent" => q.n # i
AssetKnown == servers \cup shown \cup load.servers

(* Servers are never stored twice, and leave only when their log fails.    *)
AssetServers ==
  /\ \A s \in AssetKnown : AssetSettled(s.id) /\ (s \in servers \/ s.id \in removed)
  /\ \A s, t \in AssetKnown : s.id = t.id => s = t
  /\ \A s \in servers : s.id \notin removed
  /\ \A i \in removed : AssetSettled(i)

(* A credential's type fits every server of that number the page or the    *)
(* store has.                                                              *)
AssetFits ==
  /\ modal # Assets!NoModal => credentialType \in Assets!Offered(os)
  /\ modal.type = "credential" => AssetSettled(modal.server) /\ \A s \in AssetKnown : s.id = modal.server => s.os = os
  /\ \A r \in reqs : r.op = "server" => r.type \in Assets!Offered(r.os)
  /\ \A r \in reqs : r.op = "credential" => AssetSettled(r.server) /\ \A s \in AssetKnown : s.id = r.server => r.type \in Assets!Offered(s.os)

AssetThere(i) == \E s \in servers : s.id = i
AssetFree(i) == \A q \in reqs : q.op = "server" => q.n # i

(* What a request has done so far is in the store. *)
AssetStored ==
  /\ \A r \in reqs : r.op = "server" /\ r.phase \in {"stored", "done", "refresh"} => [id |-> r.n, os |-> r.os] \in servers
  /\ \A r \in reqs : r.op = "credential" /\ r.save = "server" => AssetThere(r.server) /\ AssetFree(r.server)
  /\ \A r \in reqs : r.op = "credential" /\ r.phase \in {"checked", "done", "refresh"} => r.server \in removed \/ AssetThere(r.server)
  /\ \A r \in reqs : r.op = "credential" /\ r.phase \in {"done", "refresh"} => \E c \in credentials : c.id = r.n /\ c.server = r.server
  /\ \A c \in credentials : c.server \in removed \/ AssetThere(c.server)

(* What was reported has no request left that could take it back. *)
AssetReported ==
  \A d \in reported :
    /\ d.save = "server" => LET i == IF d.with THEN d.server ELSE d.n IN AssetThere(i) /\ AssetFree(i)
    /\ d.with => \E c \in credentials : c.id = d.n /\ c.server = d.server

(* A stored server is on display, on its way there, or still in the hands  *)
(* of its request.                                                         *)
AssetHeld(s) == \E r \in reqs : r.save = "server" /\ r.phase # "refresh" /\ s.id = (IF r.op = "server" THEN r.n ELSE r.server)
AssetListed ==
  /\ load.phase = "none" => load = Assets!NoLoad
  /\ load.phase = "served" => servers \cap shown \subseteq load.servers
  /\ \A s \in servers : \/ half \/ s \in shown \/ load.phase = "sent"
                        \/ (load.phase = "served" /\ s \in load.servers)
                        \/ AssetHeld(s)

AssetInv == AssetShapes /\ AssetServers /\ AssetFits /\ AssetStored /\ AssetReported /\ AssetListed /\ Assets!BusyIsTrue

LEMMA AssetInit == ASSUME Assets!ConstantsOK, Assets!Init PROVE AssetInv
<1>1. modal = Assets!NoModal /\ load = Assets!NoLoad /\ reqs = {} /\ servers = {} /\ shown = {} /\ load.servers = {} /\ removed = {} /\ credentials = {} /\ reported = {}
      /\ modal.type = "none" /\ modal.server = 0 /\ load.phase = "none"
  BY DEF Assets!Init, Assets!NoModal, Assets!NoLoad
<1>2. modal \in [type : {"none", "server", "credential"}, server : Assets!Ids \cup {0}] /\ load \in [phase : {"none", "sent", "served"}, servers : SUBSET Assets!Servers]
  BY <1>1 DEF Assets!NoModal, Assets!NoLoad
<1>3. AssetShapes
  <2>1. issued = 0 /\ mount = 0 /\ 0 \in 0 .. MaxRequests /\ 0 \in 0 .. MaxOpens
    BY DEF Assets!Init, Assets!ConstantsOK
  <2>2. Assets!TypeOK
    BY <1>1, <1>2 DEF Assets!Init, Assets!TypeOK, Assets!Systems, Assets!Types
  <2> QED BY <1>1, <2>1, <2>2 DEF AssetShapes
<1> QED
  BY <1>1, <1>3 DEF AssetInv, AssetServers, AssetKnown, AssetFits, AssetStored, AssetReported, AssetListed, Assets!BusyIsTrue

LEMMA AssetFields ==
  ASSUME Assets!ConstantsOK, AssetShapes, NEW r \in reqs
  PROVE  /\ r \in AssetRequests /\ r.n \in 1 .. issued /\ r.op \in {"server", "credential"} /\ r.save \in {"server", "credential"}
         /\ r.phase \in {"sent", "stored", "checked", "done", "refresh", "failed"} /\ r.server \in 0 .. issued
         /\ r.os \in Assets!Systems /\ r.type \in Assets!Types /\ r.with \in BOOLEAN /\ r.mount \in 1 .. mount
         /\ issued \in Nat /\ mount \in Nat /\ r.n \in Assets!Ids /\ r.n \in Nat
<1>1. r \in AssetRequests /\ issued \in Nat /\ issued <= MaxRequests /\ mount \in Nat /\ MaxRequests \in Nat
  BY DEF AssetShapes, Assets!ConstantsOK
<1>2. r.n \in 1 .. issued /\ r.server \in 0 .. issued /\ r.mount \in 1 .. mount
  BY <1>1 DEF AssetRequests
<1>3. r.op \in {"server", "credential"} /\ r.save \in {"server", "credential"}
      /\ r.phase \in {"sent", "stored", "checked", "done", "refresh", "failed"}
      /\ r.os \in Assets!Systems /\ r.type \in Assets!Types /\ r.with \in BOOLEAN
  BY <1>1 DEF AssetRequests
<1>4. r.n \in Assets!Ids /\ r.n \in Nat
  BY <1>1, <1>2 DEF Assets!Ids
<1> QED BY <1>1, <1>2, <1>3, <1>4

(* Steps that change only the form of a dialog. *)
LEMMA AssetFormKeeps ==
  ASSUME Assets!ConstantsOK, AssetInv,
         \/ Assets!OpenServer \/ Assets!Close
         \/ \E s \in shown : Assets!OpenCredential(s)
         \/ \E system \in Assets!Systems : Assets!OnOSChange(system)
         \/ \E type \in Assets!Types : Assets!ChooseType(type)
  PROVE  AssetInv'
<1>1. UNCHANGED <<Assets!stored, shown, reqs, load, issued, Assets!history>>
  BY DEF Assets!OpenServer, Assets!Close, Assets!OpenCredential, Assets!OnOSChange, Assets!ChooseType
<1>2. AssetServers' /\ AssetStored' /\ AssetReported' /\ AssetListed'
  BY <1>1 DEF Assets!stored, Assets!history, AssetInv, AssetServers, AssetKnown, AssetSettled, AssetStored, AssetThere, AssetFree, AssetReported, AssetListed, AssetHeld
<1>s. \A s \in shown : s.id \in Assets!Ids /\ s.os \in Assets!Systems /\ s \in AssetKnown /\ AssetSettled(s.id)
  BY DEF AssetInv, AssetShapes, Assets!TypeOK, Assets!Servers, AssetKnown, AssetServers
<1>d. \A system \in Assets!Systems : Assets!Default(system) \in Assets!Types /\ Assets!Default(system) \in Assets!Offered(system)
  BY DEF Assets!Systems, Assets!Types, Assets!Default, Assets!Offered
<1>3. /\ modal' \in [type : {"none", "server", "credential"}, server : Assets!Ids \cup {0}] /\ (modal'.type = "none" => modal' = Assets!NoModal) /\ (modal'.type = "server" => modal'.server = 0)
  BY <1>s DEF Assets!OpenServer, Assets!Close, Assets!OpenCredential, Assets!OnOSChange, Assets!ChooseType, Assets!NoModal, AssetInv, AssetShapes, Assets!TypeOK
<1>4. os' \in Assets!Systems /\ credentialType' \in Assets!Types /\ submitting' \in BOOLEAN
  BY <1>s, <1>d DEF Assets!OpenServer, Assets!Close, Assets!OpenCredential, Assets!OnOSChange, Assets!ChooseType, Assets!TypeFor, AssetInv, AssetShapes, Assets!TypeOK, Assets!Systems, Assets!Types
<1>5. mount' \in 0 .. MaxOpens /\ mount' >= mount /\ (modal' # Assets!NoModal => mount' # 0)
  BY DEF Assets!OpenServer, Assets!Close, Assets!OpenCredential, Assets!OnOSChange, Assets!ChooseType, Assets!ConstantsOK, AssetInv, AssetShapes
<1>6. AssetShapes'
  <2>1. AssetRequests \subseteq AssetRequests'
    BY <1>1, <1>5 DEF AssetRequests, AssetInv, AssetShapes, Assets!ConstantsOK
  <2> QED BY <1>1, <1>3, <1>4, <1>5, <2>1 DEF Assets!stored, AssetInv, AssetShapes, Assets!TypeOK
<1>7. AssetFits'
  <2>1. CASE \E s \in shown : Assets!OpenCredential(s)
    <3> PICK s \in shown : Assets!OpenCredential(s)
      BY <2>1
    <3>1. modal'.server = s.id /\ os' = s.os /\ credentialType' = Assets!Default(s.os)
      BY DEF Assets!OpenCredential
    <3>2. \A t \in AssetKnown : t.id = s.id => t = s
      BY <1>s DEF AssetInv, AssetServers
    <3> QED BY <1>1, <1>s, <1>d, <3>1, <3>2 DEF Assets!stored, AssetInv, AssetFits, AssetSettled, AssetKnown
  <2>2. CASE Assets!OpenServer \/ Assets!Close \/ (\E system \in Assets!Systems : Assets!OnOSChange(system)) \/ (\E type \in Assets!Types : Assets!ChooseType(type))
    <3>1. modal' # Assets!NoModal => credentialType' \in Assets!Offered(os')
      BY <1>d, <2>2 DEF Assets!OpenServer, Assets!Close, Assets!OnOSChange, Assets!ChooseType, Assets!TypeFor, AssetInv, AssetFits, Assets!NoModal, Assets!Systems, Assets!Offered
    <3>2. modal'.type = "credential" => modal' = modal /\ os' = os
      BY <2>2 DEF Assets!OpenServer, Assets!Close, Assets!OnOSChange, Assets!ChooseType, Assets!NoModal
    <3> QED BY <1>1, <3>1, <3>2 DEF Assets!stored, AssetInv, AssetFits, AssetSettled, AssetKnown
  <2> QED BY <2>1, <2>2
<1>8. Assets!BusyIsTrue'
  <2>1. CASE UNCHANGED <<mount, submitting>> /\ (modal' = Assets!NoModal \/ modal # Assets!NoModal)
    BY <1>1, <2>1 DEF AssetInv, Assets!BusyIsTrue
  <2>2. CASE mount' = mount + 1 /\ submitting' = FALSE
    <3>1. \A r \in reqs : r.mount # mount + 1
      BY AssetFields DEF AssetInv
    <3> QED BY <1>1, <2>2, <3>1 DEF Assets!BusyIsTrue
  <2> QED BY <2>1, <2>2 DEF Assets!OpenServer, Assets!Close, Assets!OpenCredential, Assets!OnOSChange, Assets!ChooseType, Assets!NoModal
<1> QED BY <1>2, <1>6, <1>7, <1>8 DEF AssetInv

LEMMA AssetSubmitKeeps == ASSUME Assets!ConstantsOK, AssetInv, NEW b \in BOOLEAN, Assets!Submit(b) PROVE AssetInv'
<1> DEFINE new == [n |-> issued + 1, op |-> modal.type, save |-> modal.type, phase |-> "sent",
                   server |-> modal.server, os |-> os, type |-> credentialType, with |-> b, mount |-> mount]
<1>1. /\ modal # Assets!NoModal /\ ~submitting /\ submitting' = TRUE /\ issued' = issued + 1 /\ reqs' = reqs \cup {new}
      /\ modal.type = "credential" => b
      /\ UNCHANGED <<Assets!stored, shown, modal, mount, os, credentialType, load, Assets!history>>
  BY DEF Assets!Submit
<1>2. issued \in Nat /\ issued + 1 \in 0 .. MaxRequests /\ mount \in Nat /\ issued' \in Nat
  BY DEF Assets!Submit, Assets!ConstantsOK, AssetInv, AssetShapes
<1>3. modal.type \in {"server", "credential"} /\ os \in Assets!Systems /\ credentialType \in Assets!Types
  BY <1>1 DEF AssetInv, AssetShapes, Assets!TypeOK
<1>4. modal.server \in 0 .. issued' /\ mount \in 1 .. mount
  <2>1. modal.type = "credential" => modal.server \in 1 .. issued
    BY DEF AssetInv, AssetFits, AssetSettled
  <2>2. mount # 0 /\ (modal.type = "server" => modal.server = 0)
    BY <1>1 DEF AssetInv, AssetShapes
  <2> QED BY <1>1, <1>2, <1>3, <2>1, <2>2
<1>5. new \in AssetRequests'
  BY <1>1, <1>2, <1>3, <1>4 DEF AssetRequests
<1>6. new.n = issued + 1 /\ new.op = modal.type /\ new.save = modal.type /\ new.phase = "sent" /\ new.server = modal.server
      /\ new.os = os /\ new.type = credentialType /\ new.with = b /\ new.mount = mount
  OBVIOUS
<1> HIDE DEF new
<1>7. \A r \in reqs : r.n \in 1 .. issued /\ r.mount # mount
  BY <1>1, AssetFields DEF AssetInv, Assets!BusyIsTrue
<1>8. AssetShapes'
  <2>1. AssetRequests \subseteq AssetRequests'
    BY <1>1, <1>2 DEF AssetRequests
  <2>2. Assets!TypeOK'
    <3>1. \A r \in reqs' : r.type \in Assets!Types /\ r.server \in Assets!Ids \cup {0} /\ issued' >= r.n
      BY <1>1, <1>2, <1>3, <1>6, AssetFields DEF AssetInv, AssetShapes, Assets!TypeOK
    <3> QED BY <1>1, <3>1 DEF AssetInv, AssetShapes, Assets!TypeOK, Assets!stored
  <2>3. \A q, r \in reqs' : q.n = r.n \/ q.mount = r.mount => q = r
    BY <1>1, <1>2, <1>6, <1>7 DEF AssetInv, AssetShapes
  <2> QED BY <1>1, <1>2, <1>3, <1>5, <1>6, <2>1, <2>2, <2>3 DEF AssetInv, AssetShapes
<1>9. \A i \in 1 .. issued : AssetSettled(i) => AssetSettled(i)'
  BY <1>1, <1>2, <1>6 DEF AssetSettled
<1>10. \A i \in 1 .. issued : AssetFree(i) => AssetFree(i)'
  BY <1>1, <1>2, <1>6 DEF AssetFree
<1>11. AssetKnown' = AssetKnown /\ \A i : AssetThere(i)' <=> AssetThere(i)
  BY <1>1 DEF AssetKnown, AssetThere, Assets!stored
<1>12. AssetServers'
  BY <1>1, <1>9, <1>11 DEF AssetInv, AssetServers, AssetSettled, Assets!stored, Assets!history
<1>13. AssetFits'
  BY <1>1, <1>3, <1>6, <1>9, <1>11 DEF AssetInv, AssetFits, AssetSettled, Assets!stored, Assets!history
<1>14. AssetStored'
  <2>1. \A r \in reqs : r.op = "credential" => r.server \in 1 .. issued
    BY DEF AssetInv, AssetFits, AssetSettled
  <2> QED BY <1>1, <1>3, <1>6, <1>10, <1>11, <2>1 DEF AssetInv, AssetStored, Assets!stored, Assets!history
<1>15. AssetReported'
  <2>1. \A i : AssetThere(i) => i \in 1 .. issued
    BY DEF AssetThere, AssetInv, AssetServers, AssetKnown, AssetSettled
  <2> QED BY <1>1, <1>10, <1>11, <2>1 DEF AssetInv, AssetReported, Assets!stored, Assets!history
<1>16. AssetListed'
  <2>1. \A s \in servers : AssetHeld(s) => AssetHeld(s)'
    BY <1>1 DEF AssetHeld
  <2> QED BY <1>1, <2>1 DEF AssetInv, AssetListed, Assets!stored, Assets!history
<1>17. Assets!BusyIsTrue'
  BY <1>1, <1>6 DEF Assets!BusyIsTrue
<1> QED BY <1>8, <1>12, <1>13, <1>14, <1>15, <1>16, <1>17 DEF AssetInv

(* What replacing a request by itself in another phase comes to. *)
AssetMoved(r, p, m) ==
  /\ m.n = r.n /\ m.op = r.op /\ m.save = r.save /\ m.phase = p /\ m.server = r.server /\ m.os = r.os
  /\ m.type = r.type /\ m.with = r.with /\ m.mount = r.mount
  /\ reqs' = (reqs \ {r}) \cup {m}
  /\ (servers' \subseteq Assets!Servers /\ shown' \subseteq Assets!Servers
      /\ credentials' \subseteq [id : Assets!Ids, server : Assets!Ids, type : Assets!Types]
      /\ load' \in [phase : {"none", "sent", "served"}, servers : SUBSET Assets!Servers]) => AssetShapes'
  /\ \A i : AssetSettled(i) => AssetSettled(i)'
  /\ \A i : AssetFree(i) => AssetFree(i)'
  /\ Assets!BusyIsTrue'

(* A request moves on: it is replaced by itself in another phase. *)
LEMMA AssetMoves ==
  ASSUME Assets!ConstantsOK, AssetInv, NEW r \in reqs, NEW p \in {"stored", "checked", "done", "refresh", "failed"}, Assets!To(r, p),
         UNCHANGED <<mount, os, credentialType, submitting, issued>>, modal' \in {modal, Assets!NoModal},
         r.op = "server" => p # "checked" /\ (p = "refresh" => ~r.with),
         r.op = "credential" => p # "stored"
  PROVE  \E m : AssetMoved(r, p, m)
<1> DEFINE m == [r EXCEPT !.phase = p]
<1>0. r \in AssetRequests
  BY AssetFields DEF AssetInv
<1>1. m.n = r.n /\ m.op = r.op /\ m.save = r.save /\ m.phase = p /\ m.server = r.server /\ m.os = r.os
      /\ m.type = r.type /\ m.with = r.with /\ m.mount = r.mount /\ m \in AssetRequests
  BY <1>0 DEF AssetRequests
<1>2. reqs' = (reqs \ {r}) \cup {m}
  BY DEF Assets!To
<1> HIDE DEF m
<1>3. AssetRequests' = AssetRequests
  BY DEF AssetRequests
<1>4. reqs' \subseteq AssetRequests'
  BY <1>1, <1>2, <1>3 DEF AssetInv, AssetShapes
<1>5. \A x, y \in reqs' : x.n = y.n \/ x.mount = y.mount => x = y
  BY <1>1, <1>2 DEF AssetInv, AssetShapes
<1>6. \A x \in reqs' : x.type \in Assets!Types /\ x.server \in Assets!Ids \cup {0} /\ issued' >= x.n
  BY <1>1, <1>2 DEF AssetInv, AssetShapes, Assets!TypeOK
<1>7. modal' \in [type : {"none", "server", "credential"}, server : Assets!Ids \cup {0}] /\ (modal'.type = "none" => modal' = Assets!NoModal)
      /\ (modal'.type = "server" => modal'.server = 0) /\ (modal' # Assets!NoModal => modal' = modal)
  BY DEF AssetInv, AssetShapes, Assets!TypeOK, Assets!NoModal
<1>8. Assets!TypeOK' <=> /\ servers' \subseteq Assets!Servers /\ shown' \subseteq Assets!Servers
                         /\ credentials' \subseteq [id : Assets!Ids, server : Assets!Ids, type : Assets!Types]
                         /\ load' \in [phase : {"none", "sent", "served"}, servers : SUBSET Assets!Servers]
  <2>1. os' \in Assets!Systems /\ credentialType' \in Assets!Types /\ submitting' \in BOOLEAN
    BY DEF AssetInv, AssetShapes, Assets!TypeOK
  <2> QED BY <1>6, <1>7, <2>1 DEF Assets!TypeOK
<1>9. Assets!TypeOK' => AssetShapes'
  <2>1. \A x \in reqs' : x.op = "server" => x.save = "server" /\ x.phase # "checked" /\ (x.phase = "refresh" => ~x.with)
    BY <1>1, <1>2 DEF AssetInv, AssetShapes
  <2>2. \A x \in reqs' : x.op = "credential" => x.with /\ x.phase # "stored"
    BY <1>1, <1>2 DEF AssetInv, AssetShapes
  <2> QED BY <1>4, <1>5, <1>7, <2>1, <2>2 DEF AssetInv, AssetShapes
<1>10. \A i : AssetSettled(i) => AssetSettled(i)'
  BY <1>1, <1>2 DEF AssetSettled
<1>11. \A i : AssetFree(i) => AssetFree(i)'
  BY <1>1, <1>2 DEF AssetFree
<1>12. Assets!BusyIsTrue'
  BY <1>1, <1>2, <1>7 DEF AssetInv, Assets!BusyIsTrue
<1>13. AssetMoved(r, p, m)
  BY <1>1, <1>2, <1>8, <1>9, <1>10, <1>11, <1>12 DEF AssetMoved
<1> QED BY <1>13

(* The steps of a request that leave the store as it is. *)
LEMMA AssetWaitKeeps ==
  ASSUME Assets!ConstantsOK, AssetInv, NEW r \in reqs,
         Assets!CheckCredential(r) \/ Assets!Lost(r) \/ Assets!LogServer(r, TRUE) \/ Assets!StoreCredential(r, FALSE)
  PROVE  AssetInv'
<1>1. PICK p \in {"checked", "done", "failed"} :
        /\ Assets!To(r, p) /\ UNCHANGED <<Assets!stored, shown, Assets!dialog, load, issued, Assets!history>>
        /\ p = "checked" => r.op = "credential" /\ AssetThere(r.server)
        /\ p = "done" => r.op = "server" /\ r.phase = "stored"
  <2>1. CASE Assets!CheckCredential(r)
    BY <2>1 DEF Assets!CheckCredential, Assets!Accepts, AssetThere
  <2>2. CASE Assets!Lost(r)
    BY <2>2 DEF Assets!Lost
  <2>3. CASE Assets!LogServer(r, TRUE)
    BY <2>3 DEF Assets!LogServer, Assets!stored, Assets!history
  <2>4. CASE Assets!StoreCredential(r, FALSE)
    BY <2>4 DEF Assets!StoreCredential, Assets!Answer, Assets!stored
  <2> QED BY <2>1, <2>2, <2>3, <2>4
<1>2. PICK m : AssetMoved(r, p, m)
  <2>1. p \in {"stored", "checked", "done", "refresh", "failed"} /\ modal' \in {modal, Assets!NoModal} /\ UNCHANGED <<mount, os, credentialType, submitting, issued>>
    BY <1>1 DEF Assets!dialog
  <2> QED BY <1>1, <2>1, AssetMoves
<1>3. m.n = r.n /\ m.op = r.op /\ m.save = r.save /\ m.phase = p /\ m.server = r.server /\ m.os = r.os /\ m.type = r.type /\ m.with = r.with
      /\ reqs' = (reqs \ {r}) \cup {m} /\ (\A i : AssetSettled(i) => AssetSettled(i)') /\ (\A i : AssetFree(i) => AssetFree(i)') /\ Assets!BusyIsTrue'
  BY <1>2 DEF AssetMoved
<1>4. AssetShapes'
  BY <1>1, <1>2 DEF AssetMoved, Assets!stored, AssetInv, AssetShapes, Assets!TypeOK
<1>5. AssetKnown' = AssetKnown /\ (\A i : AssetThere(i)' <=> AssetThere(i)) /\ removed' = removed /\ servers' = servers /\ credentials' = credentials
  BY <1>1 DEF AssetKnown, AssetThere, Assets!stored, Assets!history
<1>6. AssetServers'
  BY <1>3, <1>5 DEF AssetInv, AssetServers
<1>7. AssetFits'
  BY <1>1, <1>3, <1>5 DEF AssetInv, AssetFits, Assets!dialog
<1>8. AssetStored'
  BY <1>1, <1>3, <1>5 DEF AssetInv, AssetStored
<1>9. AssetReported'
  BY <1>1, <1>3, <1>5 DEF AssetInv, AssetReported, Assets!history
<1>10. AssetListed'
  <2>1. \A s \in servers : AssetHeld(s) => AssetHeld(s)'
    BY <1>3 DEF AssetHeld
  <2> QED BY <1>1, <1>5, <2>1 DEF AssetInv, AssetListed, Assets!history
<1> QED BY <1>3, <1>4, <1>6, <1>7, <1>8, <1>9, <1>10 DEF AssetInv

(* A server is stored under a number nobody has used. *)
LEMMA AssetStoreServerKeeps == ASSUME Assets!ConstantsOK, AssetInv, NEW r \in reqs, Assets!StoreServer(r) PROVE AssetInv'
<1> DEFINE new == [id |-> r.n, os |-> r.os]
<1>1. r.op = "server" /\ r.phase = "sent" /\ servers' = servers \cup {new} /\ Assets!To(r, "stored")
      /\ UNCHANGED <<credentials, shown, Assets!dialog, load, issued, Assets!history>>
  BY DEF Assets!StoreServer
<1>2. PICK m : AssetMoved(r, "stored", m)
  <2>1. modal' \in {modal, Assets!NoModal} /\ UNCHANGED <<mount, os, credentialType, submitting, issued>>
    BY <1>1 DEF Assets!dialog
  <2> QED BY <1>1, <2>1, AssetMoves
<1>3. m.n = r.n /\ m.op = r.op /\ m.save = r.save /\ m.phase = "stored" /\ m.server = r.server /\ m.os = r.os /\ m.type = r.type /\ m.with = r.with
      /\ reqs' = (reqs \ {r}) \cup {m} /\ (\A i : AssetSettled(i) => AssetSettled(i)') /\ (\A i : AssetFree(i) => AssetFree(i)') /\ Assets!BusyIsTrue'
  BY <1>2 DEF AssetMoved
<1>4. new.id = r.n /\ new.os = r.os /\ new \in Assets!Servers /\ r.n \in 1 .. issued
  <2>1. r.n \in Assets!Ids /\ r.os \in Assets!Systems /\ r.n \in 1 .. issued
    BY AssetFields DEF AssetInv
  <2> QED BY <2>1 DEF Assets!Servers
<1> HIDE DEF new
<1>5. AssetShapes'
  BY <1>1, <1>2, <1>4 DEF AssetMoved, AssetInv, AssetShapes, Assets!TypeOK
<1>6. /\ AssetKnown' = AssetKnown \cup {new} /\ removed' = removed /\ credentials' = credentials
      /\ \A i : AssetThere(i) => AssetThere(i)'
  BY <1>1 DEF AssetKnown, AssetThere, Assets!history
<1>7. ~AssetSettled(r.n) /\ AssetSettled(r.n)'
  <2>1. \A q \in reqs : q.n = r.n => q = r
    BY DEF AssetInv, AssetShapes
  <2> QED BY <1>1, <1>3, <1>4, <2>1 DEF AssetSettled
<1>8. AssetServers'
  <2>1. \A s \in AssetKnown : s.id # r.n
    BY <1>7 DEF AssetInv, AssetServers
  <2>2. r.n \notin removed
    BY <1>7 DEF AssetInv, AssetServers
  <2> QED BY <1>1, <1>3, <1>4, <1>6, <1>7, <2>1, <2>2 DEF AssetInv, AssetServers
<1>9. AssetFits'
  <2>1. modal.type = "credential" => modal.server # r.n
    BY <1>7 DEF AssetInv, AssetFits
  <2>2. \A q \in reqs : q.op = "credential" => q.server # r.n
    BY <1>7 DEF AssetInv, AssetFits
  <2> QED BY <1>1, <1>3, <1>4, <1>6, <2>1, <2>2 DEF AssetInv, AssetFits, Assets!dialog
<1>10. AssetStored'
  BY <1>1, <1>3, <1>6 DEF AssetInv, AssetStored, new
<1>11. AssetReported'
  BY <1>1, <1>3, <1>6 DEF AssetInv, AssetReported, Assets!history
<1>12. AssetListed'
  <2>1. \A s \in servers : AssetHeld(s) => AssetHeld(s)'
    BY <1>3 DEF AssetHeld
  <2>2. AssetHeld(new)'
    <3>1. r.save = "server"
      BY <1>1 DEF AssetInv, AssetShapes
    <3> QED BY <1>1, <1>3, <1>4, <3>1 DEF AssetHeld
  <2>3. new \notin shown
    BY <1>4, <1>7 DEF AssetInv, AssetServers, AssetKnown
  <2> QED BY <1>1, <2>1, <2>2, <2>3 DEF AssetInv, AssetListed, Assets!history
<1> QED BY <1>3, <1>5, <1>8, <1>9, <1>10, <1>11, <1>12 DEF AssetInv

(* A server whose log failed leaves the store. *)
LEMMA AssetRollBackKeeps == ASSUME Assets!ConstantsOK, AssetInv, NEW r \in reqs, Assets!LogServer(r, FALSE) PROVE AssetInv'
<1> DEFINE old == [id |-> r.n, os |-> r.os]
<1>1. r.op = "server" /\ r.phase = "stored" /\ servers' = servers \ {old} /\ Assets!To(r, "failed") /\ removed' = removed \cup {r.n}
      /\ UNCHANGED <<credentials, shown, Assets!dialog, load, issued, reported, half>>
  BY DEF Assets!LogServer, Assets!RolledBack
<1>2. PICK m : AssetMoved(r, "failed", m)
  <2>1. modal' \in {modal, Assets!NoModal} /\ UNCHANGED <<mount, os, credentialType, submitting, issued>>
    BY <1>1 DEF Assets!dialog
  <2> QED BY <1>1, <2>1, AssetMoves
<1>3. m.n = r.n /\ m.op = r.op /\ m.save = r.save /\ m.phase = "failed" /\ m.server = r.server /\ m.os = r.os /\ m.type = r.type /\ m.with = r.with
      /\ reqs' = (reqs \ {r}) \cup {m} /\ (\A i : AssetSettled(i) => AssetSettled(i)') /\ (\A i : AssetFree(i) => AssetFree(i)') /\ Assets!BusyIsTrue'
  BY <1>2 DEF AssetMoved
<1>4. old.id = r.n /\ old \in servers
  BY <1>1 DEF AssetInv, AssetStored
<1> HIDE DEF old
<1>5. AssetShapes'
  BY <1>1, <1>2 DEF AssetMoved, AssetInv, AssetShapes, Assets!TypeOK
<1>6. \A s \in AssetKnown : s.id = r.n => s = old
  BY <1>4 DEF AssetInv, AssetServers, AssetKnown
<1>7. /\ AssetKnown' \subseteq AssetKnown /\ credentials' = credentials
      /\ \A i : AssetThere(i) => i = r.n \/ AssetThere(i)'
  BY <1>1, <1>4 DEF AssetKnown, AssetThere
<1>8. AssetSettled(r.n)
  BY <1>4 DEF AssetInv, AssetServers, AssetKnown
<1>9. AssetServers'
  <2>1. \A s \in servers' : s.id # r.n
    BY <1>1, <1>6 DEF AssetKnown
  <2>2. \A s \in AssetKnown' : s \in servers' \/ s.id \in removed'
    BY <1>1, <1>4, <1>7 DEF AssetInv, AssetServers
  <2> QED BY <1>1, <1>3, <1>7, <1>8, <2>1, <2>2 DEF AssetInv, AssetServers
<1>10. AssetFits'
  BY <1>1, <1>3, <1>7 DEF AssetInv, AssetFits, Assets!dialog
<1>11. AssetStored'
  <2>1. \A q \in reqs : q # r => q.n # r.n
    BY DEF AssetInv, AssetShapes
  <2>2. \A q \in reqs' : q.op = "server" /\ q.phase \in {"stored", "done", "refresh"} => [id |-> q.n, os |-> q.os] \in servers'
    BY <1>1, <1>3, <1>4, <2>1 DEF AssetInv, AssetStored
  <2>3. \A q \in reqs' : q.op = "credential" => q \in reqs
    BY <1>1, <1>3
  <2>4. \A i : AssetFree(i) => i # r.n
    BY <1>1 DEF AssetFree
  <2> QED BY <1>1, <1>3, <1>7, <2>2, <2>3, <2>4 DEF AssetInv, AssetStored
<1>12. AssetReported'
  <2>4. \A i : AssetFree(i) => i # r.n
    BY <1>1 DEF AssetFree
  <2> QED BY <1>1, <1>3, <1>7, <2>4 DEF AssetInv, AssetReported
<1>13. AssetListed'
  <2>1. \A s \in servers : AssetHeld(s) => AssetHeld(s)'
    BY <1>3 DEF AssetHeld
  <2> QED BY <1>1, <2>1 DEF AssetInv, AssetListed
<1> QED BY <1>3, <1>5, <1>9, <1>10, <1>11, <1>12, <1>13 DEF AssetInv

(* A credential is stored for a server that was there when it was checked. *)
LEMMA AssetStoreCredentialKeeps == ASSUME Assets!ConstantsOK, AssetInv, NEW r \in reqs, Assets!StoreCredential(r, TRUE) PROVE AssetInv'
<1> DEFINE new == [id |-> r.n, server |-> r.server, type |-> r.type]
<1>1. r.op = "credential" /\ r.phase = "checked" /\ credentials' = credentials \cup {new} /\ Assets!To(r, "done")
      /\ UNCHANGED <<servers, shown, Assets!dialog, load, issued, Assets!history>>
  BY DEF Assets!StoreCredential, Assets!Answer
<1>2. PICK m : AssetMoved(r, "done", m)
  <2>1. modal' \in {modal, Assets!NoModal} /\ UNCHANGED <<mount, os, credentialType, submitting, issued>>
    BY <1>1 DEF Assets!dialog
  <2> QED BY <1>1, <2>1, AssetMoves
<1>3. m.n = r.n /\ m.op = r.op /\ m.save = r.save /\ m.phase = "done" /\ m.server = r.server /\ m.os = r.os /\ m.type = r.type /\ m.with = r.with
      /\ reqs' = (reqs \ {r}) \cup {m} /\ (\A i : AssetSettled(i) => AssetSettled(i)') /\ (\A i : AssetFree(i) => AssetFree(i)') /\ Assets!BusyIsTrue'
  BY <1>2 DEF AssetMoved
<1>4. new.id = r.n /\ new.server = r.server /\ new \in [id : Assets!Ids, server : Assets!Ids, type : Assets!Types]
  <2>1. r.server \in 1 .. issued /\ issued \in 0 .. MaxRequests
    BY <1>1 DEF AssetInv, AssetFits, AssetSettled, AssetShapes
  <2>2. r.server \in Assets!Ids /\ r.n \in Assets!Ids /\ r.type \in Assets!Types
    BY <2>1, AssetFields DEF AssetInv, Assets!Ids, Assets!ConstantsOK
  <2> QED BY <2>2
<1> HIDE DEF new
<1>5. AssetShapes'
  BY <1>1, <1>2, <1>4 DEF AssetMoved, AssetInv, AssetShapes, Assets!TypeOK
<1>6. AssetKnown' = AssetKnown /\ removed' = removed /\ servers' = servers /\ (\A i : AssetThere(i)' <=> AssetThere(i))
  BY <1>1 DEF AssetKnown, AssetThere, Assets!history
<1>7. AssetServers'
  BY <1>3, <1>6 DEF AssetInv, AssetServers
<1>8. AssetFits'
  BY <1>1, <1>3, <1>6 DEF AssetInv, AssetFits, Assets!dialog
<1>9. AssetStored'
  <2>1. r.server \in removed \/ AssetThere(r.server)
    BY <1>1 DEF AssetInv, AssetStored
  <2> QED BY <1>1, <1>3, <1>4, <1>6, <2>1 DEF AssetInv, AssetStored
<1>10. AssetReported'
  BY <1>1, <1>3, <1>6 DEF AssetInv, AssetReported, Assets!history
<1>11. AssetListed'
  <2>1. \A s \in servers : AssetHeld(s) => AssetHeld(s)'
    BY <1>3 DEF AssetHeld
  <2> QED BY <1>1, <1>6, <2>1 DEF AssetInv, AssetListed, Assets!history
<1> QED BY <1>3, <1>5, <1>7, <1>8, <1>9, <1>10, <1>11 DEF AssetInv

(* A save is done: its dialog closes and the page is refreshed. *)
LEMMA AssetSavedKeeps == ASSUME Assets!ConstantsOK, AssetInv, NEW r \in reqs, Assets!Saved(r) PROVE AssetInv'
<1>1. r.phase = "done" /\ (r.op = "credential" \/ ~r.with) /\ modal' = Assets!NoModal /\ Assets!To(r, "refresh") /\ load' = [phase |-> "sent", servers |-> {}]
      /\ UNCHANGED <<Assets!stored, shown, mount, os, credentialType, submitting, issued, Assets!history>>
  BY DEF Assets!Saved
<1>2. PICK m : AssetMoved(r, "refresh", m)
  <2>1. r.op = "server" \/ r.op = "credential"
    BY AssetFields DEF AssetInv
  <2>2. (r.op = "server" => ~r.with) /\ modal' \in {modal, Assets!NoModal}
    BY <1>1
  <2> QED BY <1>1, <2>2, AssetMoves
<1>3. m.n = r.n /\ m.op = r.op /\ m.save = r.save /\ m.phase = "refresh" /\ m.server = r.server /\ m.os = r.os /\ m.type = r.type /\ m.with = r.with
      /\ reqs' = (reqs \ {r}) \cup {m} /\ (\A i : AssetSettled(i) => AssetSettled(i)') /\ (\A i : AssetFree(i) => AssetFree(i)') /\ Assets!BusyIsTrue'
  BY <1>2 DEF AssetMoved
<1>4. load'.phase = "sent" /\ load'.servers = {} /\ load' \in [phase : {"none", "sent", "served"}, servers : SUBSET Assets!Servers]
  BY <1>1
<1>5. AssetShapes'
  BY <1>1, <1>2, <1>4 DEF AssetMoved, Assets!stored, AssetInv, AssetShapes, Assets!TypeOK
<1>6. AssetKnown' \subseteq AssetKnown /\ removed' = removed /\ servers' = servers /\ credentials' = credentials /\ (\A i : AssetThere(i)' <=> AssetThere(i))
  BY <1>1, <1>4 DEF AssetKnown, AssetThere, Assets!stored, Assets!history
<1>7. AssetServers'
  BY <1>3, <1>6 DEF AssetInv, AssetServers
<1>8. AssetFits'
  <2>1. modal'.type = "none"
    BY <1>1 DEF Assets!NoModal
  <2> QED BY <1>1, <1>3, <1>6, <2>1 DEF AssetInv, AssetFits
<1>9. AssetStored'
  BY <1>1, <1>3, <1>6 DEF AssetInv, AssetStored
<1>10. AssetReported'
  BY <1>1, <1>3, <1>6 DEF AssetInv, AssetReported, Assets!history
<1>11. AssetListed'
  BY <1>4 DEF AssetListed
<1> QED BY <1>3, <1>5, <1>7, <1>8, <1>9, <1>10, <1>11 DEF AssetInv

(* The credential of a new server takes over from its request. *)
LEMMA AssetThenKeeps == ASSUME Assets!ConstantsOK, AssetInv, NEW r \in reqs, Assets!ThenCredential(r) PROVE AssetInv'
<1> DEFINE m == [r EXCEPT !.n = issued + 1, !.op = "credential", !.phase = "sent", !.server = r.n]
<1>1. r.op = "server" /\ r.phase = "done" /\ r.with /\ issued < MaxRequests /\ issued' = issued + 1 /\ reqs' = (reqs \ {r}) \cup {m}
      /\ UNCHANGED <<Assets!stored, shown, Assets!dialog, load, Assets!history>>
  BY DEF Assets!ThenCredential
<1>2. r \in AssetRequests /\ r.n \in 1 .. issued /\ r.n \in Assets!Ids /\ issued \in Nat /\ mount \in Nat /\ issued + 1 \in 0 .. MaxRequests
      /\ r.type \in Assets!Types /\ r.save = "server" /\ r.type \in Assets!Offered(r.os)
  <2>1. issued \in 0 .. MaxRequests /\ r.save = "server" /\ r.type \in Assets!Offered(r.os)
    BY <1>1 DEF AssetInv, AssetShapes, AssetFits
  <2> QED BY <1>1, <2>1, AssetFields DEF AssetInv, Assets!ConstantsOK
<1>3. m.n = issued + 1 /\ m.op = "credential" /\ m.save = "server" /\ m.phase = "sent" /\ m.server = r.n /\ m.os = r.os
      /\ m.type = r.type /\ m.with = r.with /\ m.mount = r.mount
  BY <1>2 DEF AssetRequests
<1>4. m \in AssetRequests' /\ AssetRequests \subseteq AssetRequests'
  <2>1. issued + 1 \in 1 .. issued' /\ r.n \in 0 .. issued' /\ mount' = mount
    BY <1>1, <1>2 DEF Assets!dialog
  <2>2. AssetRequests \subseteq AssetRequests'
    BY <1>1, <1>2, <2>1 DEF AssetRequests
  <2>3. m \in AssetRequests'
    BY <1>1, <1>2, <2>1 DEF AssetRequests
  <2> QED BY <2>2, <2>3
<1> HIDE DEF m
<1>5. [id |-> r.n, os |-> r.os] \in servers
  BY <1>1 DEF AssetInv, AssetStored
<1>6. \A q \in reqs : q.n \in 1 .. issued /\ (q.n = r.n \/ q.mount = r.mount => q = r)
  BY AssetFields DEF AssetInv, AssetShapes
<1>7. AssetSettled(r.n) /\ AssetThere(r.n) /\ (\A s \in AssetKnown : s.id = r.n => s.os = r.os)
  <2> DEFINE t == [id |-> r.n, os |-> r.os]
  <2>1. t \in AssetKnown /\ t.id = r.n /\ t.os = r.os /\ t \in servers
    BY <1>5 DEF AssetKnown
  <2> HIDE DEF t
  <2> QED BY <2>1 DEF AssetInv, AssetServers, AssetThere
<1>8. AssetShapes'
  <2>1. Assets!TypeOK'
    <3>1. \A q \in reqs' : q.type \in Assets!Types /\ q.server \in Assets!Ids \cup {0} /\ issued' >= q.n
      BY <1>1, <1>2, <1>3, <1>6 DEF AssetInv, AssetShapes, Assets!TypeOK
    <3> QED BY <1>1, <3>1 DEF AssetInv, AssetShapes, Assets!TypeOK, Assets!stored, Assets!dialog
  <2>2. \A x, y \in reqs' : x.n = y.n \/ x.mount = y.mount => x = y
    BY <1>1, <1>2, <1>3, <1>6 DEF AssetInv, AssetShapes
  <2>3. reqs' \subseteq AssetRequests'
    BY <1>1, <1>4 DEF AssetInv, AssetShapes
  <2>4. \A x \in reqs' : x.op = "server" => x.save = "server" /\ x.phase # "checked" /\ (x.phase = "refresh" => ~x.with)
    BY <1>1, <1>3 DEF AssetInv, AssetShapes
  <2>5. \A x \in reqs' : x.op = "credential" => x.with /\ x.phase # "stored"
    BY <1>1, <1>3 DEF AssetInv, AssetShapes
  <2> QED BY <1>1, <1>2, <2>1, <2>2, <2>3, <2>4, <2>5 DEF AssetInv, AssetShapes, Assets!dialog
<1>9. \A i : AssetSettled(i) => AssetSettled(i)'
  BY <1>1, <1>2, <1>3 DEF AssetSettled
<1>10. (\A i : AssetFree(i) => AssetFree(i)') /\ AssetFree(r.n)'
  BY <1>1, <1>3, <1>6 DEF AssetFree
<1>11. AssetKnown' = AssetKnown /\ removed' = removed /\ servers' = servers /\ credentials' = credentials /\ (\A i : AssetThere(i)' <=> AssetThere(i))
  BY <1>1 DEF AssetKnown, AssetThere, Assets!stored, Assets!history
<1>12. AssetServers'
  BY <1>9, <1>11 DEF AssetInv, AssetServers
<1>13. AssetFits'
  BY <1>1, <1>2, <1>3, <1>7, <1>9, <1>11 DEF AssetInv, AssetFits, Assets!dialog
<1>14. AssetStored'
  BY <1>1, <1>3, <1>7, <1>10, <1>11 DEF AssetInv, AssetStored
<1>15. AssetReported'
  BY <1>1, <1>10, <1>11 DEF AssetInv, AssetReported, Assets!history
<1>16. AssetListed'
  <2>1. \A s \in servers : AssetHeld(s) => AssetHeld(s)'
    BY <1>1, <1>3 DEF AssetHeld
  <2> QED BY <1>1, <1>11, <2>1 DEF AssetInv, AssetListed, Assets!history
<1>17. Assets!BusyIsTrue'
  BY <1>1, <1>3 DEF AssetInv, Assets!BusyIsTrue, Assets!dialog
<1> QED BY <1>8, <1>12, <1>13, <1>14, <1>15, <1>16, <1>17 DEF AssetInv

(* Requests that are over leave the rest as it is. *)
LEMMA AssetFewer ==
  ASSUME Assets!ConstantsOK, AssetInv, reqs' \subseteq reqs, UNCHANGED <<servers, credentials, modal, mount, os, credentialType, issued, removed>>,
         shown' \subseteq Assets!Servers, submitting' \in BOOLEAN,
         load' \in [phase : {"none", "sent", "served"}, servers : SUBSET Assets!Servers], AssetKnown' \subseteq AssetKnown
  PROVE  AssetShapes' /\ AssetServers' /\ AssetFits' /\ AssetStored' /\ (\A i : AssetFree(i) => AssetFree(i)') /\ (\A i : AssetThere(i)' <=> AssetThere(i))
<1>1. AssetShapes'
  <2>1. Assets!TypeOK'
    BY DEF AssetInv, AssetShapes, Assets!TypeOK
  <2>2. AssetRequests' = AssetRequests
    BY DEF AssetRequests
  <2> QED BY <2>1, <2>2 DEF AssetInv, AssetShapes
<1>2. (\A i : AssetSettled(i) => AssetSettled(i)') /\ (\A i : AssetFree(i) => AssetFree(i)') /\ (\A i : AssetThere(i)' <=> AssetThere(i))
  BY DEF AssetSettled, AssetFree, AssetThere
<1>3. AssetServers'
  BY <1>2 DEF AssetInv, AssetServers
<1>4. AssetFits'
  BY <1>2 DEF AssetInv, AssetFits
<1>5. AssetStored'
  BY <1>2 DEF AssetInv, AssetStored
<1> QED BY <1>1, <1>2, <1>3, <1>4, <1>5

LEMMA AssetFailedKeeps == ASSUME Assets!ConstantsOK, AssetInv, NEW r \in reqs, Assets!Failed(r) PROVE AssetInv'
<1>1. /\ r.phase = "failed" /\ reqs' = reqs \ {r} /\ submitting' = Assets!Idle(r)
      /\ half' = (half \/ (r.save = "server" /\ (r.op = "credential" \/ \E s \in servers : s.id = r.n)))
      /\ UNCHANGED <<Assets!stored, shown, modal, mount, os, credentialType, load, issued, reported, removed>>
  BY DEF Assets!Failed
<1>2. submitting' \in BOOLEAN
  BY <1>1 DEF Assets!Idle
<1>3. AssetShapes' /\ AssetServers' /\ AssetFits' /\ AssetStored' /\ (\A i : AssetFree(i) => AssetFree(i)') /\ (\A i : AssetThere(i)' <=> AssetThere(i))
  <2>1. AssetKnown' = AssetKnown /\ shown' \subseteq Assets!Servers /\ load' \in [phase : {"none", "sent", "served"}, servers : SUBSET Assets!Servers]
    BY <1>1 DEF AssetKnown, Assets!stored, AssetInv, AssetShapes, Assets!TypeOK
  <2> QED BY <1>1, <1>2, <2>1, AssetFewer DEF Assets!stored
<1>4. AssetReported'
  BY <1>1, <1>3 DEF AssetInv, AssetReported, Assets!stored
<1>5. AssetListed'
  <2>1. \A s \in servers : AssetHeld(s) => AssetHeld(s)' \/ half'
    <3> SUFFICES ASSUME NEW s \in servers, AssetHeld(s) PROVE AssetHeld(s)' \/ half'
      OBVIOUS
    <3>1. PICK q \in reqs : q.save = "server" /\ q.phase # "refresh" /\ s.id = (IF q.op = "server" THEN q.n ELSE q.server)
      BY DEF AssetHeld
    <3>2. CASE q # r
      BY <1>1, <3>1, <3>2 DEF AssetHeld
    <3>3. CASE q = r
      <4>1. r.op \in {"server", "credential"}
        BY AssetFields DEF AssetInv
      <4> QED BY <1>1, <3>1, <3>3, <4>1
    <3> QED BY <3>2, <3>3
  <2> QED BY <1>1, <2>1 DEF AssetInv, AssetListed, Assets!stored
<1>6. Assets!BusyIsTrue'
  <2>1. \A q \in reqs : q.mount = r.mount => q = r
    BY DEF AssetInv, AssetShapes
  <2> QED BY <1>1, <2>1 DEF AssetInv, Assets!BusyIsTrue, Assets!Idle, Assets!Mounted
<1> QED BY <1>3, <1>4, <1>5, <1>6 DEF AssetInv

LEMMA AssetServeKeeps == ASSUME Assets!ConstantsOK, AssetInv, Assets!ServeBootstrap PROVE AssetInv'
<1>1. load' = [phase |-> "served", servers |-> servers] /\ UNCHANGED <<Assets!stored, shown, Assets!dialog, reqs, issued, Assets!history>>
  BY DEF Assets!ServeBootstrap
<1>2. load'.phase = "served" /\ load'.servers = servers /\ load' \in [phase : {"none", "sent", "served"}, servers : SUBSET Assets!Servers]
  BY <1>1 DEF AssetInv, AssetShapes, Assets!TypeOK
<1>3. AssetShapes' /\ AssetServers' /\ AssetFits' /\ AssetStored' /\ (\A i : AssetFree(i) => AssetFree(i)') /\ (\A i : AssetThere(i)' <=> AssetThere(i))
  <2>1. AssetKnown' \subseteq AssetKnown /\ shown' \subseteq Assets!Servers /\ submitting' \in BOOLEAN
    BY <1>1, <1>2 DEF AssetKnown, Assets!stored, Assets!dialog, AssetInv, AssetShapes, Assets!TypeOK
  <2> QED BY <1>1, <1>2, <2>1, AssetFewer DEF Assets!stored, Assets!dialog, Assets!history
<1>4. AssetReported'
  BY <1>1, <1>3 DEF AssetInv, AssetReported, Assets!stored, Assets!history
<1>5. AssetListed'
  BY <1>1, <1>2 DEF AssetInv, AssetListed, Assets!stored, Assets!history
<1>6. Assets!BusyIsTrue'
  BY <1>1 DEF AssetInv, Assets!BusyIsTrue, Assets!dialog
<1> QED BY <1>3, <1>4, <1>5, <1>6 DEF AssetInv

LEMMA AssetRefreshedKeeps == ASSUME Assets!ConstantsOK, AssetInv, Assets!Refreshed PROVE AssetInv'
<1> DEFINE over == {r \in reqs : r.phase = "refresh"}
           told == {[save |-> r.save, with |-> r.with, n |-> r.n, server |-> r.server] : r \in over}
<1>1. /\ load.phase = "served" /\ load' = Assets!NoLoad /\ shown' = load.servers /\ reqs' = reqs \ over /\ reported' = reported \cup told
      /\ submitting' = (submitting /\ ~\E r \in over : Assets!Mounted(r))
      /\ UNCHANGED <<Assets!stored, modal, mount, os, credentialType, issued, half, removed>>
  BY DEF Assets!Refreshed, Assets!Shown
<1>2. load'.phase = "none" /\ load'.servers = {} /\ load' \in [phase : {"none", "sent", "served"}, servers : SUBSET Assets!Servers]
  BY <1>1 DEF Assets!NoLoad
<1>3. AssetShapes' /\ AssetServers' /\ AssetFits' /\ AssetStored' /\ (\A i : AssetFree(i) => AssetFree(i)') /\ (\A i : AssetThere(i)' <=> AssetThere(i))
  <2>1. AssetKnown' \subseteq AssetKnown /\ shown' \subseteq Assets!Servers
    BY <1>1, <1>2 DEF AssetKnown, Assets!stored, AssetInv, AssetShapes, Assets!TypeOK
  <2>2. submitting' \in BOOLEAN
    BY <1>1
  <2> QED BY <1>1, <1>2, <2>1, <2>2, AssetFewer DEF Assets!stored
<1>4. AssetReported'
  <2> SUFFICES ASSUME NEW d \in reported'
               PROVE  /\ d.save = "server" => LET i == IF d.with THEN d.server ELSE d.n IN AssetThere(i)' /\ AssetFree(i)'
                      /\ d.with => \E c \in credentials' : c.id = d.n /\ c.server = d.server
    BY DEF AssetReported
  <2>1. CASE d \in reported
    BY <1>1, <1>3, <2>1 DEF AssetInv, AssetReported, Assets!stored
  <2>2. CASE d \in told
    <3>1. PICK r \in over : d = [save |-> r.save, with |-> r.with, n |-> r.n, server |-> r.server]
      BY <2>2
    <3>2. d.save = r.save /\ d.with = r.with /\ d.n = r.n /\ d.server = r.server /\ r \in reqs /\ r.phase = "refresh"
      BY <3>1
    <3>3. CASE r.op = "server"
      <4>1. ~r.with /\ (\A q \in reqs : q.n = r.n => q = r)
        BY <3>2, <3>3 DEF AssetInv, AssetShapes
      <4>2. [id |-> r.n, os |-> r.os] \in servers
        BY <3>2, <3>3 DEF AssetInv, AssetStored
      <4>3. AssetThere(r.n)' /\ AssetFree(r.n)'
        BY <1>1, <3>2, <4>1, <4>2 DEF AssetThere, AssetFree, Assets!stored
      <4> QED BY <3>2, <4>1, <4>3
    <3>4. CASE r.op = "credential"
      <4>1. r.with /\ (r.save = "server" => AssetThere(r.server) /\ AssetFree(r.server)) /\ \E c \in credentials : c.id = r.n /\ c.server = r.server
        BY <3>2, <3>4 DEF AssetInv, AssetShapes, AssetStored
      <4> QED BY <1>1, <1>3, <3>2, <4>1 DEF Assets!stored
    <3> QED BY <3>2, <3>3, <3>4, AssetFields DEF AssetInv
  <2> QED BY <1>1, <2>1, <2>2
<1>5. AssetListed'
  <2>1. \A s \in servers : AssetHeld(s) => AssetHeld(s)'
    BY <1>1 DEF AssetHeld
  <2> QED BY <1>1, <1>2, <2>1 DEF AssetInv, AssetListed, Assets!stored
<1>6. Assets!BusyIsTrue'
  <2>1. \A q, r \in reqs : q.mount = r.mount => q = r
    BY DEF AssetInv, AssetShapes
  <2> QED BY <1>1, <2>1 DEF AssetInv, Assets!BusyIsTrue, Assets!Mounted
<1> QED BY <1>3, <1>4, <1>5, <1>6 DEF AssetInv

LEMMA AssetKeeps == ASSUME Assets!ConstantsOK, AssetInv, [Assets!Next]_Assets!vars PROVE AssetInv'
<1>1. CASE UNCHANGED Assets!vars
  <2>1. UNCHANGED <<servers, credentials, shown, modal, mount, os, credentialType, submitting, reqs, load, issued, reported, half, removed>>
    BY <1>1 DEF Assets!vars, Assets!stored, Assets!dialog, Assets!history
  <2>2. AssetShapes' <=> AssetShapes
    BY <2>1 DEF AssetShapes, Assets!TypeOK, AssetRequests
  <2>3. AssetServers' /\ AssetFits'
    BY <2>1 DEF AssetInv, AssetServers, AssetKnown, AssetSettled, AssetFits
  <2>4. AssetStored' /\ AssetReported'
    BY <2>1 DEF AssetInv, AssetStored, AssetReported, AssetThere, AssetFree
  <2>5. AssetListed' /\ Assets!BusyIsTrue'
    BY <2>1 DEF AssetInv, AssetListed, AssetHeld, Assets!BusyIsTrue
  <2> QED BY <2>2, <2>3, <2>4, <2>5 DEF AssetInv
<1>2. CASE Assets!Next
  <2>1. CASE \/ Assets!OpenServer \/ Assets!Close
             \/ \E s \in shown : Assets!OpenCredential(s)
             \/ \E system \in Assets!Systems : Assets!OnOSChange(system)
             \/ \E type \in Assets!Types : Assets!ChooseType(type)
    BY <2>1, AssetFormKeeps
  <2>2. CASE \E b \in BOOLEAN : Assets!Submit(b)
    BY <2>2, AssetSubmitKeeps
  <2>3. CASE Assets!ServeBootstrap
    BY <2>3, AssetServeKeeps
  <2>4. CASE Assets!Refreshed
    BY <2>4, AssetRefreshedKeeps
  <2>5. ASSUME NEW r \in reqs, Assets!CheckCredential(r) \/ Assets!Lost(r) \/ Assets!LogServer(r, TRUE) \/ Assets!StoreCredential(r, FALSE) PROVE AssetInv'
    BY <2>5, AssetWaitKeeps
  <2>6. ASSUME NEW r \in reqs, Assets!StoreServer(r) \/ Assets!ThenCredential(r) \/ Assets!Saved(r) \/ Assets!Failed(r) PROVE AssetInv'
    BY <2>6, AssetStoreServerKeeps, AssetThenKeeps, AssetSavedKeeps, AssetFailedKeeps
  <2>7. ASSUME NEW r \in reqs, Assets!LogServer(r, FALSE) \/ Assets!StoreCredential(r, TRUE) PROVE AssetInv'
    BY <2>7, AssetRollBackKeeps, AssetStoreCredentialKeeps
  <2> QED BY <1>2, <2>1, <2>2, <2>3, <2>4, <2>5, <2>6, <2>7 DEF Assets!Next
<1> QED BY <1>1, <1>2

LEMMA AssetInvariance == ASSUME Assets!ConstantsOK PROVE Assets!Spec => []AssetInv
<1>1. Assets!Init => AssetInv
  BY AssetInit
<1>2. AssetInv /\ [Assets!Next]_Assets!vars => AssetInv'
  BY AssetKeeps
<1> QED BY <1>1, <1>2, PTL DEF Assets!Spec

LEMMA AssetShows == ASSUME AssetInv PROVE Assets!TypeOK /\ Assets!ReportedIsStored /\ Assets!SentTypeFits /\ Assets!CredentialsHaveServers /\ Assets!BusyIsTrue /\ Assets!ListEndsAsStored
<1>1. Assets!ReportedIsStored
  BY DEF AssetInv, AssetReported, Assets!ReportedIsStored, AssetThere
<1>2. Assets!SentTypeFits
  BY DEF AssetInv, AssetFits, AssetKnown, Assets!SentTypeFits
<1>3. Assets!CredentialsHaveServers
  BY DEF AssetInv, AssetStored, AssetServers, AssetThere, Assets!CredentialsHaveServers
<1>4. Assets!ListEndsAsStored
  <2>1. ASSUME reqs = {}, load = Assets!NoLoad, ~half PROVE servers \subseteq shown
    BY <2>1 DEF AssetInv, AssetListed, AssetHeld, Assets!NoLoad
  <2>2. \A s \in shown : s \in servers \/ s.id \in removed
    BY DEF AssetInv, AssetServers, AssetKnown
  <2> QED BY <2>1, <2>2 DEF Assets!ListEndsAsStored
<1> QED BY <1>1, <1>2, <1>3, <1>4 DEF AssetInv, AssetShapes

(* For any number of requests and openings: what the page reported as      *)
(* added is stored, with the credential typed for it, and a list at rest   *)
(* is what is stored unless a save failed half way (handleCreateServer,    *)
(* handleCreateCredential and the refreshes of ServerDialog).              *)
THEOREM AddedAssetsAreStored == ASSUME Assets!ConstantsOK PROVE Assets!Spec => [](Assets!TypeOK /\ Assets!ReportedIsStored /\ Assets!ListEndsAsStored)
<1>1. AssetInv => Assets!TypeOK /\ Assets!ReportedIsStored /\ Assets!ListEndsAsStored
  BY AssetShows
<1> QED BY <1>1, AssetInvariance, PTL

(* A credential has its server and is of a type that one takes, also when  *)
(* the second of two requests fails or the first is rolled back, and the   *)
(* button is disabled exactly while this dialog saves.                     *)
THEOREM CredentialsFitTheirServer ==
  ASSUME Assets!ConstantsOK PROVE Assets!Spec => [](Assets!SentTypeFits /\ Assets!CredentialsHaveServers /\ Assets!BusyIsTrue)
<1>1. AssetInv => Assets!SentTypeFits /\ Assets!CredentialsHaveServers /\ Assets!BusyIsTrue
  BY AssetShows
<1> QED BY <1>1, AssetInvariance, PTL
=============================================================================
