---------------------------- MODULE DnsProviders ----------------------------
(***************************************************************************)
(* The credentials of DNS providers, which ACME DNS-01 challenges use: the *)
(* dialog that lists, edits and deletes them (CertificateDNSProviderDialog *)
(* and useConfirmDialog) and the server's handlers                         *)
(* (handleCertificateDNSProviders, handleCertificateDNSProviderItem).      *)
(*                                                                         *)
(* A token is typed for one provider and one kind of service.  The update  *)
(* handler checks a copy of the row; the store writes the copy's metadata  *)
(* but keeps the secret the row holds at that moment.                      *)
(***************************************************************************)
EXTENDS Naturals, FiniteSets

CONSTANTS Ids,           \* rows the store can hold
          Kinds,         \* cloudflare, alidns, dnspod
          MaxRequests    \* bound on the requests of one behaviour

(* What the values of the constants satisfy. *)
ConstantsOK ==
  MaxRequests \in Nat /\ Kinds # {} /\ "none" \notin Ids /\ "new" \notin Ids

VARIABLES
  store,      \* store[i]: the row of provider i
  list,       \* the rows the dialog shows
  editing,    \* the row its form edits, NoRow for a new provider
  kind,       \* the form's provider field
  token,      \* the form's token field: whose secret was typed, "none" for ''
  saving,
  asking,     \* the deletion the confirm dialog asks about, and whether the form edits that row
  reqs,       \* requests of this dialog and of other administrators
  issued,
  accepted,   \* history: the deletions the user confirmed
  deleted,    \* history: the deletions this dialog sent
  raced       \* history: two handlers held copies of one row

form == <<editing, kind, token>>
history == <<accepted, deleted, raced>>
vars == <<store, list, form, saving, asking, reqs, issued, history>>

(* secret and typed: the service the stored token was entered for, and the *)
(* provider it was typed for.                                              *)
Rows == [id : Ids, kind : Kinds, secret : Kinds, typed : Ids \cup {"new"}]
NoRow == [id |-> "none"]
NoQuestion == [id |-> "none", edited |-> FALSE]

Requests == [n : 1 .. MaxRequests, op : {"post", "patch", "delete"}, own : BOOLEAN,
             id : Ids \cup {"none"}, kind : Kinds, token : Ids \cup {"new", "none"},
             edited : BOOLEAN, copy : Rows \cup {NoRow}, rows : SUBSET Rows,
             phase : {"sent", "held", "saved", "ok", "load", "loaded", "refresh", "failed"}]

TypeOK ==
  /\ store \in [Ids -> Rows \cup {NoRow}] /\ list \subseteq Rows
  /\ editing \in Rows \cup {NoRow} /\ kind \in Kinds /\ token \in Ids \cup {"new", "none"}
  /\ saving \in BOOLEAN /\ asking \in [id : Ids \cup {"none"}, edited : BOOLEAN]
  /\ \A r \in reqs : r \in Requests
  /\ issued \in 0 .. MaxRequests
  /\ accepted \subseteq Ids /\ deleted \subseteq Ids /\ raced \in BOOLEAN

Cloudflare == CHOOSE k \in Kinds : TRUE

Init ==
  /\ store \in [Ids -> {NoRow}] \cup {[i \in Ids |-> [id |-> i, kind |-> Cloudflare,
                                                     secret |-> Cloudflare, typed |-> i]]}
  /\ list = {store[i] : i \in Ids} \ {NoRow}
  /\ editing = NoRow /\ kind = Cloudflare /\ token = "none"
  /\ saving = FALSE /\ asking = NoQuestion
  /\ reqs = {} /\ issued = 0
  /\ accepted = {} /\ deleted = {} /\ raced = FALSE

Send(op, own, id, k, t, edited) ==
  /\ issued < MaxRequests /\ issued' = issued + 1
  /\ reqs' = reqs \cup {[n |-> issued + 1, op |-> op, own |-> own, id |-> id, kind |-> k,
                         token |-> t, edited |-> edited, copy |-> NoRow,
                         rows |-> {}, phase |-> "sent"]}

To(r, phase) == (reqs \ {r}) \cup {[r EXCEPT !.phase = phase]}

(***************************************************************************)
(* The dialog                                                              *)
(***************************************************************************)

(* Mutant: the token typed for the row before stays in the form. *)
EditProviderKeepingToken(row) ==
  /\ row \in list
  /\ editing' = row /\ kind' = row.kind
  /\ UNCHANGED <<store, list, token, saving, asking, reqs, issued, history>>

EditProvider(row) ==
  /\ row \in list
  /\ editing' = row /\ kind' = row.kind /\ token' = "none"
  /\ UNCHANGED <<store, list, saving, asking, reqs, issued, history>>

ResetForm == editing' = NoRow /\ kind' = Cloudflare /\ token' = "none"

CancelEdit ==
  /\ editing # NoRow /\ ResetForm
  /\ UNCHANGED <<store, list, saving, asking, reqs, issued, history>>

TypeToken ==
  /\ token' = (IF editing = NoRow THEN "new" ELSE editing.id)
  /\ UNCHANGED <<store, list, editing, kind, saving, asking, reqs, issued, history>>

ChooseKind(k) ==
  /\ kind' = k
  /\ UNCHANGED <<store, list, editing, token, saving, asking, reqs, issued, history>>

(* submit: a new provider needs a token, and so does another kind of       *)
(* service than the copy being edited has.                                 *)
Submit ==
  /\ ~saving
  /\ token # "none" \/ (editing # NoRow /\ kind = editing.kind)
  /\ IF editing = NoRow THEN Send("post", TRUE, "none", kind, token, FALSE)
                        ELSE Send("patch", TRUE, editing.id, kind, token, TRUE)
  /\ saving' = TRUE
  /\ UNCHANGED <<store, list, form, asking, history>>

(* deleteProvider: a question that is still open is answered with false;   *)
(* the closure holds the row that is being edited at this moment.          *)
AskDelete(row) ==
  /\ row \in list
  /\ asking' = [id |-> row.id, edited |-> editing.id = row.id]
  /\ UNCHANGED <<store, list, form, saving, reqs, issued, history>>

Decline ==
  /\ asking # NoQuestion /\ asking' = NoQuestion
  /\ UNCHANGED <<store, list, form, saving, reqs, issued, history>>

(* Mutant: the deletion goes to the row that is being edited. *)
DeletedRowOfForm == editing.id

DeletedRow == asking.id

Accept ==
  /\ asking # NoQuestion /\ asking' = NoQuestion
  /\ Send("delete", TRUE, DeletedRow, Cloudflare, "none", asking.edited)
  /\ accepted' = accepted \cup {asking.id} /\ deleted' = deleted \cup {DeletedRow}
  /\ UNCHANGED <<store, list, form, saving, raced>>

(* The write succeeded: loadProviders. *)
Answered(r) ==
  /\ r.own /\ r.phase = "ok"
  /\ reqs' = To(r, "load")
  /\ UNCHANGED <<store, list, form, saving, asking, issued, history>>

(* The list arrives as the server read it; the page's data is refreshed. *)
Loaded(r) ==
  /\ r.phase = "loaded"
  /\ list' = r.rows /\ reqs' = (reqs \ {r}) \cup {[r EXCEPT !.phase = "refresh", !.rows = {}]}
  /\ UNCHANGED <<store, form, saving, asking, issued, history>>

(* submit resets the form, whatever it edits by now; deleteProvider resets *)
(* it if it edited the row when the button was pressed.                    *)
Done(r) ==
  /\ r.phase = "refresh"
  /\ reqs' = reqs \ {r}
  /\ IF r.op = "delete" THEN saving' = saving /\ (IF r.edited THEN ResetForm ELSE UNCHANGED form)
                        ELSE saving' = FALSE /\ ResetForm
  /\ UNCHANGED <<store, list, asking, issued, history>>

Failed(r) ==
  /\ r.own /\ r.phase = "failed"
  /\ reqs' = reqs \ {r} /\ saving' = (saving /\ r.op = "delete")
  /\ UNCHANGED <<store, list, form, asking, issued, history>>

(***************************************************************************)
(* The server                                                              *)
(***************************************************************************)

(* Another administrator's dialog updates a row, from a list of any age. *)
OtherUpdate(i, k, t) ==
  /\ t \in {i, "none"}
  /\ Send("patch", FALSE, i, k, t, FALSE)
  /\ UNCHANGED <<store, list, form, saving, asking, history>>

(* POST: a row is created with its token, and its log is written. *)
Create(r, i) ==
  /\ r.op = "post" /\ r.phase = "sent" /\ store[i] = NoRow
  /\ store' = [store EXCEPT ![i] = [id |-> i, kind |-> r.kind, secret |-> r.kind, typed |-> r.token]]
  /\ reqs' = To(r, "ok")
  /\ UNCHANGED <<list, form, saving, asking, issued, history>>

(* The handler of an existing row reads it. *)
Hold(r) ==
  /\ r.op \in {"patch", "delete"} /\ r.phase = "sent" /\ store[r.id] # NoRow
  /\ reqs' = (reqs \ {r}) \cup {[r EXCEPT !.phase = "held", !.copy = store[r.id]]}
  /\ raced' = (raced \/ \E q \in reqs : q.id = r.id /\ q.phase \in {"held", "saved"})
  /\ UNCHANGED <<store, list, form, saving, asking, issued, accepted, deleted>>

(* Mutant: the form's own check is relied on. *)
MayUpdateUnchecked(r) == TRUE

(* "a new token or secret is required when changing DNS provider type". *)
MayUpdate(r) == r.kind = r.copy.kind \/ r.token # "none"

(* UpdatePlatformItem: the metadata is the copy's with the new kind; the   *)
(* secret is the request's, or the one the row holds now.                  *)
Updated(r) ==
  IF r.token # "none" THEN [r.copy EXCEPT !.kind = r.kind, !.secret = r.kind, !.typed = r.token]
                      ELSE [store[r.id] EXCEPT !.kind = r.kind]

Update(r) ==
  /\ r.op = "patch" /\ r.phase = "held" /\ MayUpdate(r) /\ store[r.id] # NoRow
  /\ store' = [store EXCEPT ![r.id] = Updated(r)]
  /\ reqs' = To(r, "saved")
  /\ UNCHANGED <<list, form, saving, asking, issued, history>>

(* No certificate uses the provider: the row is deleted. *)
Delete(r) ==
  /\ r.op = "delete" /\ r.phase = "held"
  /\ store' = [store EXCEPT ![r.id] = NoRow]
  /\ reqs' = To(r, "saved")
  /\ UNCHANGED <<list, form, saving, asking, issued, history>>

Logged(r) ==
  /\ r.phase = "saved"
  /\ reqs' = IF r.own THEN To(r, "ok") ELSE reqs \ {r}
  /\ UNCHANGED <<store, list, form, saving, asking, issued, history>>

(* The operation log fails: the row that was read is put back. *)
PutBack(r) ==
  /\ r.phase = "saved"
  /\ store' = [store EXCEPT ![r.id] = r.copy]
  /\ reqs' = IF r.own THEN To(r, "failed") ELSE reqs \ {r}
  /\ UNCHANGED <<list, form, saving, asking, issued, history>>

(* The row is gone, the request is invalid, a certificate uses the         *)
(* provider, or the store or the network fails.                            *)
Refuse(r) ==
  /\ r.phase \in {"sent", "held", "load"}
  /\ reqs' = IF r.own THEN To(r, "failed") ELSE reqs \ {r}
  /\ UNCHANGED <<store, list, form, saving, asking, issued, history>>

ServeList(r) ==
  /\ r.phase = "load"
  /\ reqs' = (reqs \ {r}) \cup {[r EXCEPT !.phase = "loaded", !.rows = {store[i] : i \in Ids} \ {NoRow}]}
  /\ UNCHANGED <<store, list, form, saving, asking, issued, history>>

Next ==
  \/ CancelEdit \/ TypeToken \/ Submit \/ Decline \/ Accept
  \/ \E k \in Kinds : ChooseKind(k)
  \/ \E row \in list : EditProvider(row) \/ AskDelete(row)
  \/ \E i \in Ids, k \in Kinds, t \in Ids \cup {"none"} : OtherUpdate(i, k, t)
  \/ \E r \in reqs : \/ Answered(r) \/ Loaded(r) \/ Done(r) \/ Failed(r)
                     \/ Hold(r) \/ Update(r) \/ Delete(r) \/ Logged(r) \/ PutBack(r)
                     \/ Refuse(r) \/ ServeList(r)
                     \/ \E i \in Ids : Create(r, i)

Spec == Init /\ [][Next]_vars

(***************************************************************************)
(* Properties                                                              *)
(***************************************************************************)

(* A token typed while one provider was in the form is never stored for    *)
(* another one, however editing, saving and loading overlap.               *)
TokenOfItsProvider ==
  \A i \in Ids : store[i] # NoRow => store[i].typed \in {i, "new"}

(* Only providers whose deletion the user confirmed are deleted. *)
DeletedWereConfirmed == deleted \subseteq accepted

(* While no two handlers hold one row, a stored token was entered for the  *)
(* kind of service the row names: the check the dialog makes on an old     *)
(* copy is made again by the server.                                       *)
SecretFitsUnlessRaced ==
  raced \/ \A i \in Ids : store[i] # NoRow => store[i].secret = store[i].kind
=============================================================================
