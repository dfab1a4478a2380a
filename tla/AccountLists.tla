---------------------------- MODULE AccountLists ----------------------------
(***************************************************************************)
(* The lists of the settings page: passkeys and SSH keys of the account,   *)
(* login policies and login locks.  A list has a busy flag for all its     *)
(* buttons, and every handler ends by loading it again.  Keys are deleted  *)
(* after a question, policies and locks at once.                           *)
(*                                                                         *)
(* A passkey is registered in three steps: options from the server, the    *)
(* browser's authenticator, and the verification, which counts the keys of *)
(* the account and then creates one.  Another tab may do the same.         *)
(***************************************************************************)
EXTENDS Naturals, FiniteSets

CONSTANTS Lists,        \* the lists on the page
          Ids,          \* items
          Limit,        \* maxPasskeysPerUser
          MaxRequests   \* bound on the requests of one behaviour

Passkeys == [creates |-> TRUE, asks |-> TRUE, toggles |-> FALSE, first |-> "options"]
SSHPublicKeys == [creates |-> TRUE, asks |-> TRUE, toggles |-> FALSE, first |-> "send"]
LoginPolicies == [creates |-> TRUE, asks |-> FALSE, toggles |-> TRUE, first |-> "send"]
LoginLocks == [creates |-> FALSE, asks |-> FALSE, toggles |-> FALSE, first |-> "send"]

Kind == [passkeys |-> Passkeys, ssh |-> SSHPublicKeys, policies |-> LoginPolicies, locks |-> LoginLocks]

(* What the values of the constants satisfy. *)
ConstantsOK ==
  /\ Lists \subseteq DOMAIN Kind /\ Limit \in Nat /\ MaxRequests \in Nat
  /\ "none" \notin Ids /\ IsFiniteSet(Ids)

VARIABLES
  items,     \* the server's items: "gone", "on" or "off", by list and id
  list,      \* what the page shows of them
  busy, reqs, issued,
  asking,    \* the deletion the one confirm dialog asks about
  other,     \* the other tab's registration: "idle", or "checked" between count and create
  accepted,  \* history: deletions confirmed
  stale,     \* history: lists whose page may be behind: a failure, an overlap, another tab
  overlap    \* history: two registrations were between count and create

server == <<items, other>>
history == <<accepted, stale, overlap>>
vars == <<server, list, busy, reqs, issued, asking, history>>

States == {"gone", "on", "off"}
Nothing == [list |-> "none", id |-> "none"]
Present(l) == {i \in Ids : items[l][i] # "gone"}

TypeOK ==
  /\ items \in [Lists -> [Ids -> States]] /\ list \in [Lists -> [Ids -> States]]
  /\ busy \subseteq Lists /\ stale \subseteq Lists /\ issued \in 0 .. MaxRequests
  /\ asking \in {Nothing} \cup [list : Lists, id : Ids]
  /\ other \in {"idle", "checked"} /\ overlap \in BOOLEAN
  /\ \A r \in reqs : r.list \in Lists /\ r.id \in Ids \cup {"none"} /\ r.to \in States

Request(l, op, id, to, phase) ==
  [list |-> l, op |-> op, id |-> id, to |-> to, phase |-> phase, seen |-> [i \in Ids |-> "gone"]]

(* The page loads every list when it mounts. *)
Init ==
  /\ items \in [Lists -> {[i \in Ids |-> IF i \in S THEN "on" ELSE "gone"] : S \in SUBSET Ids}]
  /\ \A l \in Lists \cap {"passkeys"} : Cardinality(Present(l)) <= Limit
  /\ list = [l \in Lists |-> [i \in Ids |-> "gone"]]
  /\ busy = {} /\ issued = 0 /\ asking = Nothing /\ other = "idle"
  /\ reqs = {Request(l, "mount", "none", "gone", "load") : l \in Lists}
  /\ accepted = {} /\ stale = {} /\ overlap = FALSE

To(r, phase) == (reqs \ {r}) \cup {[r EXCEPT !.phase = phase]}

(***************************************************************************)
(* The user                                                                *)
(***************************************************************************)

(* The confirm dialog is modal: other buttons wait for its answer. *)
Free(l) == l \notin busy /\ asking = Nothing

Begin(l, op, id, to, phase) ==
  /\ issued < MaxRequests /\ issued' = issued + 1
  /\ busy' = busy \cup {l}
  /\ reqs' = reqs \cup {Request(l, op, id, to, phase)}
  /\ stale' = IF \E r \in reqs : r.list = l THEN stale \cup {l} ELSE stale
  /\ UNCHANGED <<server, list, overlap>>

(* registerPasskey, registerSSHPublicKey and createLoginPolicy; the        *)
(* passkey button counts the keys on display.                              *)
Register(l) ==
  /\ Kind[l].creates /\ Free(l)
  /\ l = "passkeys" => Cardinality({i \in Ids : list[l][i] # "gone"}) < Limit
  /\ Begin(l, "create", "none", "on", Kind[l].first)
  /\ UNCHANGED <<asking, accepted>>

(* toggleLoginPolicy writes the opposite of what is on display. *)
ToggleLoginPolicy(l, i) ==
  /\ Kind[l].toggles /\ Free(l) /\ list[l][i] # "gone"
  /\ Begin(l, "toggle", i, IF list[l][i] = "on" THEN "off" ELSE "on", "send")
  /\ UNCHANGED <<asking, accepted>>

(* deletePasskey and deleteSSHPublicKey up to the question. *)
AskDelete(l, i) ==
  /\ Kind[l].asks /\ Free(l) /\ list[l][i] # "gone"
  /\ asking' = [list |-> l, id |-> i]
  /\ UNCHANGED <<server, list, busy, reqs, issued, history>>

Decline ==
  /\ asking # Nothing /\ asking' = Nothing
  /\ UNCHANGED <<server, list, busy, reqs, issued, history>>

(* Mutant: any item on display may be meant. *)
ConfirmedShown == CHOOSE i \in Ids : list[asking.list][i] # "gone" \/ i = asking.id

(* The item the handler closed over. *)
Confirmed == asking.id

Accept ==
  /\ asking # Nothing /\ asking' = Nothing
  /\ Begin(asking.list, "delete", Confirmed, "gone", "send")
  /\ accepted' = accepted \cup {asking}

(* deleteLoginPolicy and unlockLoginLock do not ask. *)
DeleteAtOnce(l, i) ==
  /\ ~Kind[l].asks /\ Free(l) /\ list[l][i] # "gone"
  /\ Begin(l, "delete", i, "gone", "send")
  /\ UNCHANGED <<asking, accepted>>

(***************************************************************************)
(* The server                                                              *)
(***************************************************************************)

(* handlePasskeyRegisterOptions refuses a full account. *)
Options(r) ==
  /\ r.phase = "options" /\ Cardinality(Present("passkeys")) < Limit
  /\ reqs' = To(r, "authenticator")
  /\ UNCHANGED <<server, list, busy, issued, asking, history>>

(* navigator.credentials.create, external. *)
Authenticator(r) ==
  /\ r.phase = "authenticator" /\ reqs' = To(r, "verify")
  /\ UNCHANGED <<server, list, busy, issued, asking, history>>

(* Mutant: the keys are not counted again. *)
MayRegisterUnchecked == TRUE

(* handlePasskeyRegisterVerify counts the keys before it creates one. *)
MayRegister == Cardinality(Present("passkeys")) < Limit

Verify(r) ==
  /\ r.phase = "verify" /\ MayRegister
  /\ reqs' = To(r, "send")
  /\ overlap' = (overlap \/ other = "checked")
  /\ UNCHANGED <<server, list, busy, issued, asking, accepted, stale>>

Written(r, l) == [items[l] EXCEPT ![r.id] = r.to]

(* The change itself.  An update or deletion of what is gone is refused. *)
Write(r) ==
  /\ r.phase = "send"
  /\ IF r.op = "create"
     THEN \E i \in Ids \ Present(r.list) : items' = [items EXCEPT ![r.list][i] = "on"]
     ELSE items[r.list][r.id] # "gone" /\ items' = [items EXCEPT ![r.list] = Written(r, r.list)]
  /\ reqs' = To(r, "load")
  /\ UNCHANGED <<list, busy, issued, asking, other, history>>

Serve(r) ==
  /\ r.phase = "load"
  /\ reqs' = (reqs \ {r}) \cup {[r EXCEPT !.phase = "served", !.seen = items[r.list]]}
  /\ UNCHANGED <<server, list, busy, issued, asking, history>>

(* The other tab's verification. *)
OtherVerifies ==
  /\ "passkeys" \in Lists /\ other = "idle" /\ MayRegister /\ issued < MaxRequests
  /\ issued' = issued + 1 /\ other' = "checked"
  /\ overlap' = (overlap \/ \E r \in reqs : r.list = "passkeys" /\ r.op = "create" /\ r.phase = "send")
  /\ UNCHANGED <<items, list, busy, reqs, asking, accepted, stale>>

OtherCreates ==
  /\ other = "checked" /\ other' = "idle"
  /\ \E i \in Ids \ Present("passkeys") : items' = [items EXCEPT !["passkeys"][i] = "on"]
  /\ stale' = stale \cup {"passkeys"}
  /\ UNCHANGED <<list, busy, reqs, issued, asking, accepted, overlap>>

(***************************************************************************)
(* The handlers' ends                                                      *)
(***************************************************************************)

(* Mutant: the list is not set. *)
LoadedListKept(r) == list

LoadedList(r) == [list EXCEPT ![r.list] = r.seen]

(* loadPasskeys, loadSSHPublicKeys, loadLoginPolicies, loadLoginLocks. *)
Loaded(r) ==
  /\ r.phase = "served"
  /\ list' = LoadedList(r)
  /\ reqs' = reqs \ {r} /\ busy' = IF r.op = "mount" THEN busy ELSE busy \ {r.list}
  /\ UNCHANGED <<server, issued, asking, history>>

(* Mutant: the busy flag is only reset after success. *)
FailBusy(r) ==
  /\ reqs' = reqs \ {r} /\ stale' = stale \cup {r.list}
  /\ UNCHANGED <<server, list, busy, issued, asking, accepted, overlap>>

Fail(r) ==
  /\ reqs' = reqs \ {r} /\ busy' = IF r.op = "mount" THEN busy ELSE busy \ {r.list}
  /\ stale' = stale \cup {r.list}
  /\ UNCHANGED <<server, list, issued, asking, accepted, overlap>>

Next ==
  \/ Decline \/ Accept \/ OtherVerifies \/ OtherCreates
  \/ \E l \in Lists : \/ Register(l)
                      \/ \E i \in Ids : ToggleLoginPolicy(l, i) \/ AskDelete(l, i) \/ DeleteAtOnce(l, i)
  \/ \E r \in reqs : \/ Options(r) \/ Authenticator(r) \/ Verify(r) \/ Write(r)
                     \/ Serve(r) \/ Loaded(r) \/ Fail(r)

Spec == Init /\ [][Next]_vars

(***************************************************************************)
(* Properties                                                              *)
(***************************************************************************)

(* A key disappears from the server only after a deletion of that very key *)
(* was confirmed, though the lists share the confirm dialog and change     *)
(* while it is open.                                                       *)
OnlyConfirmedGo ==
  \A l \in {q \in Lists : Kind[q].asks}, i \in Ids :
       items[l][i] # "gone" /\ items'[l][i] = "gone" => [list |-> l, id |-> i] \in accepted

(* A list at rest shows the server's items, unless a request of it failed, *)
(* overlapped with another or another tab acted.                           *)
ListsShowStored ==
  \A l \in Lists \ stale : (\A r \in reqs : r.list # l) => list[l] = items[l]

(* A list's buttons are disabled exactly while one of its handlers runs,   *)
(* also when the deletion was asked about before.                          *)
BusyIsTrue == busy = {r.list : r \in {q \in reqs : q.op # "mount"}}

(* The account has no more passkeys than allowed, also when tabs take      *)
(* turns, unless two verifications overlapped.                             *)
PasskeyLimitInTurn == "passkeys" \in Lists /\ ~overlap => Cardinality(Present("passkeys")) <= Limit

=============================================================================
