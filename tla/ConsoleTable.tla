---------------------------- MODULE ConsoleTable ----------------------------
(***************************************************************************)
(* A collection page of the console (PlatformTablePage): its table of      *)
(* rows, the selection, the one form dialog for new and edited records,    *)
(* single and bulk deletion, and the refresh after a change; with the      *)
(* handler of the platform records behind it, which reads the record,      *)
(* writes it, writes an operation log and restores the record it read when *)
(* the log cannot be written.  Any answer may be lost.  Another            *)
(* administrator uses the same handler.                                    *)
(*                                                                         *)
(* A record is a text field, the type of an OIDC client and its secret;    *)
(* the form shows no secret, it only may send a new one or ask to clear    *)
(* it.  The user may do everything here: permissions are in Permissions.   *)
(***************************************************************************)
EXTENDS Naturals, FiniteSets

CONSTANTS Ids,          \* record ids
          Texts,        \* what a user may type in the text field; "" empties it
          Types,        \* the types the form offers
          Secrets,      \* secrets a user may type
          MaxRequests   \* bound on the requests of one behaviour

(* What the values of the constants satisfy. *)
ConstantsOK ==
  /\ "none" \notin Ids /\ MaxRequests \in Nat
  /\ Types \subseteq {"confidential", "public"} /\ "confidential" \in Types
  /\ {"none", ""} \cap Secrets = {}

VARIABLES
  stored,    \* the server's records
  rows,      \* the page's copy
  fetch,     \* the bootstrap request under way
  selected,  \* selectedIDs
  dialog,    \* formOpen and editing
  form, saving,
  asking,    \* the ids the confirm dialog asks about
  reqs, issued,
  doomed,    \* history: ids whose deletion was confirmed or asked for elsewhere
  announced, \* history: ids the page has reported as deleted
  saved,     \* history: the save reported last
  behind,    \* history: a change the page was not told of
  raced      \* history: ids that two handlers worked on at a time

server == <<stored, issued>>
pageVars == <<selected, dialog, form, saving, asking>>
history == <<doomed, announced, saved, behind, raced>>
vars == <<server, rows, fetch, pageVars, reqs, history>>

Gone == [text |-> "", type |-> "gone", secret |-> "none"]
Records == [text : {""} \cup Texts, type : Types, secret : {"none"} \cup Secrets]
Present(t) == {i \in Ids : t[i] # Gone}

(* initialForm. *)
Blank == [text |-> "", type |-> "confidential", typed |-> "", clear |-> FALSE, set |-> FALSE]
Forms == [text : {""} \cup Texts, type : Types, typed : {""} \cup Secrets, clear : BOOLEAN, set : BOOLEAN]
Closed == [open |-> FALSE, editing |-> "none"]
Unsaved == [id |-> "none", form |-> Blank]
NoFetch == [phase |-> "none", seen |-> [i \in Ids |-> Gone]]
Phases == {"send", "read", "wrote", "done", "failed", "refresh", "fetching"}

TypeOK ==
  /\ stored \in [Ids -> Records \cup {Gone}] /\ rows \in [Ids -> Records \cup {Gone}]
  /\ fetch.phase \in {"none", "asked", "served"}
  /\ selected \subseteq Ids /\ asking \subseteq Ids /\ saving \in BOOLEAN
  /\ dialog \in [open : BOOLEAN, editing : Ids \cup {"none"}] /\ form \in Forms
  /\ issued \in 0 .. MaxRequests
  /\ \A r \in reqs : /\ r.op \in {"create", "update", "delete"} /\ r.phase \in Phases
                     /\ r.todo \subseteq Ids /\ r.id \in Ids \cup {"none"} /\ r.form \in Forms

(* The page opens on fresh data. *)
Init ==
  /\ stored \in [Ids -> {Gone} \cup [text : Texts \ {""}, type : {"confidential"},
                                     secret : {"none"} \cup Secrets]]
  /\ rows = stored /\ fetch = NoFetch
  /\ selected = {} /\ dialog = Closed /\ form = Blank /\ saving = FALSE /\ asking = {}
  /\ reqs = {} /\ issued = 0
  /\ doomed = {} /\ announced = {} /\ saved = Unsaved /\ behind = FALSE /\ raced = {}

Request(by, op, id, f, todo) ==
  [n |-> issued + 1, by |-> by, op |-> op, id |-> id, form |-> f, todo |-> todo, of |-> todo,
   phase |-> "send", previous |-> Gone]

To(r, phase) == (reqs \ {r}) \cup {[r EXCEPT !.phase = phase]}
Free == asking = {} /\ ~dialog.open

(***************************************************************************)
(* The form                                                                *)
(***************************************************************************)

StartCreate ==
  /\ Free
  /\ dialog' = [open |-> TRUE, editing |-> "none"] /\ form' = Blank
  /\ UNCHANGED <<server, rows, fetch, selected, saving, asking, reqs, history>>

(* formFromPlatformItem: passwords are left blank. *)
FormFromPlatformItem(item) ==
  [text |-> item.text, type |-> item.type, typed |-> "", clear |-> FALSE, set |-> item.secret # "none"]

StartEdit(i) ==
  /\ Free /\ rows[i] # Gone
  /\ dialog' = [open |-> TRUE, editing |-> i] /\ form' = FormFromPlatformItem(rows[i])
  /\ UNCHANGED <<server, rows, fetch, selected, saving, asking, reqs, history>>

(* onOpenChange(false), also while a save is under way. *)
CloseForm ==
  /\ dialog.open /\ dialog' = Closed
  /\ UNCHANGED <<server, rows, fetch, selected, form, saving, asking, reqs, history>>

Typed(f) ==
  /\ dialog.open /\ form' = f /\ form' # form
  /\ UNCHANGED <<server, rows, fetch, selected, dialog, saving, asking, reqs, history>>

TypeText(t) == Typed([form EXCEPT !.text = t])

ChosenType(t) ==
  [form EXCEPT !.type = t, !.typed = IF t = "public" THEN "" ELSE form.typed,
               !.clear = IF t = "public" THEN FALSE ELSE form.clear]

ChooseType(t) == Typed(ChosenType(t))

TypeSecret(s) == form.type # "public" /\ Typed([form EXCEPT !.typed = s, !.clear = FALSE])

(* Mutant: ticking leaves the secret that was typed. *)
TickedKept(c) == [form EXCEPT !.clear = c]

Ticked(c) == [form EXCEPT !.clear = c, !.typed = IF c THEN "" ELSE form.typed]

TickClear(c) ==
  /\ dialog.editing # "none" /\ form.type # "public" /\ form.set
  /\ Typed(Ticked(c))

(* save up to the request.  Metadata that is no JSON throws before it and  *)
(* nothing changes.                                                        *)
Save ==
  /\ dialog.open /\ ~saving /\ issued < MaxRequests
  /\ saving' = TRUE /\ issued' = issued + 1
  /\ reqs' = reqs \cup
       {Request("page", IF dialog.editing = "none" THEN "create" ELSE "update", dialog.editing, form, {})}
  /\ UNCHANGED <<stored, rows, fetch, selected, dialog, form, asking, history>>

(***************************************************************************)
(* Selection and deletion                                                  *)
(***************************************************************************)

(* A row's check box, or the one in the header for all rows of the page;   *)
(* the page is the one DataTable shows.                                    *)
Select(S) ==
  /\ Free /\ S \subseteq Present(rows) /\ S # selected
  /\ selected' = S
  /\ UNCHANGED <<server, rows, fetch, dialog, form, saving, asking, reqs, history>>

(* remove and bulkDelete up to the question, with the items captured. *)
AskDelete(S) ==
  /\ Free /\ asking' = S
  /\ UNCHANGED <<server, rows, fetch, selected, dialog, form, saving, reqs, history>>

AskRemove(i) == rows[i] # Gone /\ AskDelete({i})
AskBulkDelete == selected \cap Present(rows) # {} /\ AskDelete(selected \cap Present(rows))

Decline ==
  /\ asking # {} /\ asking' = {}
  /\ UNCHANGED <<server, rows, fetch, selected, dialog, form, saving, reqs, history>>

(* Mutant: the rows on display are deleted. *)
TargetsShown == Present(rows)

(* The items captured before the question. *)
Targets == asking

Accept ==
  /\ asking # {} /\ asking' = {} /\ issued < MaxRequests
  /\ issued' = issued + 1 /\ doomed' = doomed \cup asking
  /\ reqs' = reqs \cup {Request("page", "delete", "none", Blank, Targets)}
  /\ UNCHANGED <<stored, rows, fetch, selected, dialog, form, saving, announced, saved, behind, raced>>

(* The other administrator's save or deletion. *)
OtherUpdates(i, t) ==
  /\ issued < MaxRequests /\ issued' = issued + 1
  /\ reqs' = reqs \cup {Request("other", "update", i, [Blank EXCEPT !.text = t], {})}
  /\ UNCHANGED <<stored, rows, fetch, pageVars, history>>

OtherDeletes(i) ==
  /\ issued < MaxRequests /\ issued' = issued + 1 /\ doomed' = doomed \cup {i}
  /\ reqs' = reqs \cup {Request("other", "delete", "none", Blank, {i})}
  /\ UNCHANGED <<stored, rows, fetch, pageVars, announced, saved, behind, raced>>

(***************************************************************************)
(* The handler                                                             *)
(***************************************************************************)

AtWork(i) == {q \in reqs : q.id = i /\ q.phase \in {"read", "wrote", "done"}}

(* GetPlatformItem: the record to restore, and the one to change.  A bulk  *)
(* deletion sends its requests one after the other, in the order of rows.  *)
Read(r) ==
  /\ r.phase = "send" /\ r.op # "create"
  /\ \E i \in IF r.op = "delete" THEN r.todo ELSE {r.id} :
       /\ stored[i] # Gone
       /\ reqs' = (reqs \ {r}) \cup {[r EXCEPT !.id = i, !.phase = "read", !.previous = stored[i]]}
       /\ raced' = IF AtWork(i) = {} THEN raced ELSE raced \cup {i}
  /\ UNCHANGED <<server, rows, fetch, pageVars, doomed, announced, saved, behind>>

(* Mutant: the wish to clear is not read. *)
NewSecretKeeps(old, f) == IF f.typed # "" THEN f.typed ELSE old

(* applyOIDCClientPlatformSecret. *)
NewSecret(old, f) ==
  IF f.clear \/ f.type = "public" THEN "none" ELSE IF f.typed # "" THEN f.typed ELSE old

(* Mutant: a request without a secret removes the saved one. *)
UpdatedRecordForgets(old, f) ==
  [text |-> IF f.text = "" THEN old.text ELSE f.text, type |-> f.type,
   secret |-> IF f.typed # "" THEN f.typed ELSE "none"]

(* UpdatePlatformItem: an empty field of the request leaves the field. *)
UpdatedRecord(old, f) ==
  [text |-> IF f.text = "" THEN old.text ELSE f.text, type |-> f.type, secret |-> NewSecret(old.secret, f)]

(* UpdatePlatformItem and DeletePlatformItem; the row is inserted again    *)
(* when it has gone since it was read.                                     *)
Write(r) ==
  /\ r.phase = "read"
  /\ r.op = "delete" => stored[r.id] # Gone
  /\ stored' = [stored EXCEPT ![r.id] = IF r.op = "delete" THEN Gone ELSE UpdatedRecord(r.previous, r.form)]
  /\ reqs' = To(r, "wrote")
  /\ behind' = (behind \/ r.by = "other")
  /\ saved' = IF saved.id = r.id THEN Unsaved ELSE saved
  /\ UNCHANGED <<issued, rows, fetch, pageVars, doomed, announced, raced>>

(* CreatePlatformItem under a new id. *)
Create(r, i) ==
  /\ r.phase = "send" /\ r.op = "create" /\ stored[i] = Gone /\ i \notin doomed
  /\ \A q \in reqs : q.id # i
  /\ stored' = [stored EXCEPT ![i] = [text |-> r.form.text, type |-> r.form.type,
                                      secret |-> NewSecret("none", r.form)]]
  /\ reqs' = (reqs \ {r}) \cup {[r EXCEPT !.id = i, !.phase = "wrote"]}
  /\ behind' = (behind \/ r.by = "other")
  /\ UNCHANGED <<issued, rows, fetch, pageVars, doomed, announced, saved, raced>>

(* createPlatformMutationOperationLog succeeds and the client is answered. *)
Log(r) ==
  /\ r.phase = "wrote"
  /\ reqs' = IF r.by = "other" THEN reqs \ {r} ELSE To(r, "done")
  /\ UNCHANGED <<server, rows, fetch, pageVars, history>>

(* It fails: the record that was read is saved again, a created one is     *)
(* deleted.                                                                *)
Restore(r) ==
  /\ r.phase = "wrote"
  /\ stored' = [stored EXCEPT ![r.id] = r.previous]
  /\ reqs' = To(r, "failed")
  /\ behind' = (behind \/ r.by = "other" \/ rows[r.id] # r.previous \/ fetch.phase = "served")
  /\ saved' = IF saved.id = r.id THEN Unsaved ELSE saved
  /\ UNCHANGED <<issued, rows, fetch, pageVars, doomed, announced, raced>>

(* The restoring save or deletion fails as well: what was written stays,   *)
(* and the request is answered with an error.                              *)
RestoreFails(r) ==
  /\ r.phase = "wrote" /\ reqs' = To(r, "failed")
  /\ behind' = TRUE
  /\ UNCHANGED <<server, rows, fetch, pageVars, doomed, announced, saved, raced>>

(* A request is lost, or refused: validation, a record that is not there. *)
Refuse(r) ==
  /\ r.phase \in {"send", "read"} /\ reqs' = To(r, "failed")
  /\ UNCHANGED <<server, rows, fetch, pageVars, history>>

(***************************************************************************)
(* The page's continuations                                                *)
(***************************************************************************)

(* save closes the form dialog, whichever record it is on by now. *)
Saved(r) ==
  /\ r.phase = "done" /\ r.op # "delete"
  /\ form' = Blank /\ dialog' = Closed /\ reqs' = To(r, "refresh")
  /\ saved' = IF r.id \notin raced THEN [id |-> r.id, form |-> r.form] ELSE saved
  /\ UNCHANGED <<server, rows, fetch, selected, saving, asking, doomed, announced, behind, raced>>

(* Mutant: the loop ends after its first item. *)
NextTargetsFirst(r) == {}

(* The loop of bulkDelete; remove has one item. *)
NextTargets(r) == r.todo \ {r.id}

DeletedOne(r) ==
  /\ r.phase = "done" /\ r.op = "delete" /\ NextTargets(r) # {}
  /\ reqs' = (reqs \ {r}) \cup {[r EXCEPT !.todo = NextTargets(r), !.id = "none", !.phase = "send"]}
  /\ UNCHANGED <<server, rows, fetch, pageVars, history>>

(* Mutant: the page reports without loading its rows again. *)
RefreshedSkip(r) == reqs \ {r}

Refreshed(r) == To(r, "refresh")

(* bulkDelete clears the selection; remove does not. *)
DeletedAll(r) ==
  /\ r.phase = "done" /\ r.op = "delete" /\ NextTargets(r) = {}
  /\ selected' = IF Cardinality(r.of) > 1 THEN {} ELSE selected
  /\ reqs' = Refreshed(r) /\ announced' = announced \cup r.of
  /\ UNCHANGED <<server, rows, fetch, dialog, form, saving, asking, doomed, saved, behind, raced>>

(* app.refresh: after the configuration the bootstrap request starts, or   *)
(* starts again.                                                           *)
StartFetch(r) ==
  /\ r.phase = "refresh"
  /\ fetch' = [NoFetch EXCEPT !.phase = "asked"] /\ reqs' = To(r, "fetching")
  /\ UNCHANGED <<server, rows, pageVars, history>>

Refresh ==
  /\ Free /\ issued < MaxRequests /\ issued' = issued + 1
  /\ fetch' = [NoFetch EXCEPT !.phase = "asked"]
  /\ UNCHANGED <<stored, rows, pageVars, reqs, history>>

ServeFetch ==
  /\ fetch.phase = "asked" /\ fetch' = [phase |-> "served", seen |-> stored]
  /\ behind' = FALSE
  /\ UNCHANGED <<server, rows, pageVars, reqs, doomed, announced, saved, raced>>

(* The continuation of a handler once its refresh is over. *)
Finish(waiting) ==
  /\ reqs' = reqs \ waiting
  /\ saving' = (saving /\ \A r \in waiting : r.op = "delete")

(* Mutant: the effect on rows is missing. *)
KeptSelection(seen) == selected

(* The effect on rows removes what is gone from the selection. *)
Selection(seen) == selected \cap Present(seen)

Fetched ==
  /\ fetch.phase = "served" /\ fetch' = NoFetch
  /\ rows' = fetch.seen /\ selected' = Selection(fetch.seen)
  /\ Finish({r \in reqs : r.phase = "fetching"})
  /\ UNCHANGED <<server, dialog, form, asking, history>>

(* invalidateQueries does not throw. *)
FetchFails ==
  /\ fetch.phase # "none" /\ fetch' = NoFetch
  /\ Finish({r \in reqs : r.phase = "fetching"})
  /\ behind' = TRUE
  /\ UNCHANGED <<server, rows, selected, dialog, form, asking, doomed, announced, saved, raced>>

(* Mutant: saving is only reset after success. *)
SavingAfterFailureKept(r) == saving

SavingAfterFailure(r) == saving /\ (r.by = "other" \/ r.op = "delete")

(* handleApiError; no handler refreshes, also when some of the items of a  *)
(* bulk deletion are gone.                                                 *)
Failed(r) ==
  /\ r.phase = "failed" /\ reqs' = reqs \ {r}
  /\ saving' = SavingAfterFailure(r)
  /\ behind' = (behind \/ r.by = "other" \/ r.todo # r.of)
  /\ UNCHANGED <<server, rows, fetch, selected, dialog, form, asking, doomed, announced, saved, raced>>

(* The connection breaks before the answer: to the page that is an error,  *)
(* and the handler does what is left of its work on its own, as if it had  *)
(* another client.                                                         *)
LoseAnswer(r) ==
  /\ r.by = "page" /\ r.phase \in {"send", "read", "wrote", "done"}
  /\ reqs' = (reqs \ {r}) \cup (IF r.phase = "done" THEN {} ELSE {[r EXCEPT !.by = "other"]})
  /\ saving' = SavingAfterFailure(r) /\ behind' = TRUE
  /\ UNCHANGED <<server, rows, fetch, selected, dialog, form, asking, doomed, announced, saved, raced>>

Next ==
  \/ StartCreate \/ CloseForm \/ Save \/ AskBulkDelete \/ Decline \/ Accept
  \/ Refresh \/ ServeFetch \/ Fetched \/ FetchFails
  \/ \E i \in Ids : \/ StartEdit(i) \/ AskRemove(i) \/ OtherDeletes(i)
                    \/ \E t \in Texts : OtherUpdates(i, t)
  \/ \E t \in Texts : TypeText(t)
  \/ \E t \in Types : ChooseType(t)
  \/ \E s \in Secrets : TypeSecret(s)
  \/ \E c \in BOOLEAN : TickClear(c)
  \/ \E S \in SUBSET Ids : Select(S)
  \/ \E r \in reqs : \/ Read(r) \/ Write(r) \/ Log(r) \/ Restore(r) \/ RestoreFails(r)
                     \/ Refuse(r) \/ LoseAnswer(r)
                     \/ Saved(r) \/ DeletedOne(r) \/ DeletedAll(r) \/ StartFetch(r) \/ Failed(r)
                     \/ \E i \in Ids : Create(r, i)

Spec == Init /\ [][Next]_vars

(***************************************************************************)
(* Properties                                                              *)
(***************************************************************************)

(* A record disappears only after a deletion of that very record was       *)
(* confirmed here or asked for elsewhere, though rows and selection change *)
(* while the question is open; or when its creation is undone.             *)
OnlyConfirmedGo ==
  \A i \in Ids : stored[i] # Gone /\ stored'[i] = Gone =>
       i \in doomed \/ \E r \in reqs : r.op = "create" /\ r.id = i /\ r.phase = "wrote"

(* The form never wants a secret both set and cleared, and a public client *)
(* neither, in whatever order type, secret and check box are changed.      *)
OneSecretWish ==
  /\ ~(form.clear /\ form.typed # "")
  /\ form.type = "public" => ~form.clear /\ form.typed = ""

(* What the page reported as saved is stored: every field that is not      *)
(* empty, the secret that was typed, and none when it was cleared.         *)
SavedIsStoredUnlessEmpty ==
  saved # Unsaved =>
    LET item == stored[saved.id]  f == saved.form IN
    /\ item.type = f.type /\ (f.text # "" => item.text = f.text)
    /\ f.typed # "" => item.secret = f.typed
    /\ (f.clear \/ f.type = "public") => item.secret = "none"

(* A saved secret only changes when a request carries another, clears it   *)
(* or makes the client public, or the record is restored or deleted.       *)
SecretsAreKept ==
  \A i \in Ids : stored[i] # Gone /\ stored'[i] # Gone /\ stored[i].secret # stored'[i].secret =>
       \E r \in reqs : r.id = i /\ \/ r.form.typed # "" \/ r.form.clear \/ r.form.type = "public"
                                   \/ r.phase = "wrote" \/ i \in raced

(* Rows at rest are the stored ones, unless since they were last served a  *)
(* change was made elsewhere, a bulk deletion stopped half-way, the answer *)
(* to a save or a deletion was lost, the undoing of one failed or changed  *)
(* the record again, or the rows could not be loaded: save, remove and     *)
(* bulkDelete report an error without loading the rows.                    *)
RowsShowStored ==
  reqs = {} /\ fetch.phase = "none" /\ ~behind => rows = stored

(* Only rows on display are selected, so that the bulk buttons mean them.  *)
SelectionIsShown == selected \subseteq Present(rows)

(* The save button is disabled exactly while a save is under way.          *)
SavingIsTrue == saving = (\E r \in reqs : r.by = "page" /\ r.op # "delete")

(* What the page reported as deleted stays gone, unless another handler    *)
(* worked on the record at the same time.                                  *)
ReportedAreGone == \A i \in announced \ raced : stored[i] = Gone

=============================================================================
