---------------------------- MODULE AssetDialogs ----------------------------
(***************************************************************************)
(* The dialogs that add a server, with or without a first credential, and  *)
(* a credential for a server already shown (ServerDialog, CredentialDialog)*)
(* against handleCreateServer and handleCreateCredential, which store a    *)
(* record, log it and remove it again when the log cannot be written.  One *)
(* press of the save button is up to two requests and a refresh; the       *)
(* dialog may be closed and another one opened under any of them.          *)
(***************************************************************************)
EXTENDS Naturals, FiniteSets

CONSTANTS MaxRequests,  \* bound on the requests of one behaviour
          MaxOpens      \* bound on the dialogs opened

(* What the values of the constants satisfy. *)
ConstantsOK == MaxRequests \in Nat /\ MaxOpens \in Nat

VARIABLES
  servers, credentials,  \* stored records; an id is the number of its request
  shown,                 \* app.data.servers
  modal,                 \* the dialog that is open, and the server it is for
  mount,                 \* number of the dialog
  os, credentialType, submitting,
  reqs,                  \* requests of the dialogs
  load,                  \* bootstrap request under way
  issued,
  reported,              \* history: saves the page reported as done
  half,                  \* history: a save failed for the page after its server was stored
  removed                \* history: servers removed because of their log

stored == <<servers, credentials>>
dialog == <<modal, mount, os, credentialType, submitting>>
history == <<reported, half, removed>>
vars == <<stored, shown, dialog, reqs, load, issued, history>>

Systems == {"linux", "windows"}
Types == {"ssh_password", "ssh_key", "rdp_password"}
Ids == 1 .. MaxRequests
Servers == [id : Ids, os : Systems]
NoModal == [type |-> "none", server |-> 0]
NoLoad == [phase |-> "none", servers |-> {}]

TypeOK ==
  /\ servers \subseteq Servers /\ shown \subseteq Servers
  /\ credentials \subseteq [id : Ids, server : Ids, type : Types]
  /\ modal \in [type : {"none", "server", "credential"}, server : Ids \cup {0}]
  /\ os \in Systems /\ credentialType \in Types /\ submitting \in BOOLEAN
  /\ load \in [phase : {"none", "sent", "served"}, servers : SUBSET Servers]
  /\ \A r \in reqs : r.type \in Types /\ r.server \in Ids \cup {0} /\ issued >= r.n

Init ==
  /\ servers = {} /\ credentials = {} /\ shown = {} /\ modal = NoModal /\ mount = 0
  /\ os = "linux" /\ credentialType = "ssh_password" /\ submitting = FALSE
  /\ reqs = {} /\ load = NoLoad /\ issued = 0 /\ reported = {} /\ half = FALSE /\ removed = {}

(* The credential types the form offers for a system. *)
Offered(system) == IF system = "windows" THEN {"rdp_password"} ELSE {"ssh_password", "ssh_key"}

(* The type a form starts with. *)
Default(system) == IF system = "windows" THEN "rdp_password" ELSE "ssh_password"

(***************************************************************************)
(* The dialogs                                                             *)
(***************************************************************************)

OpenServer ==
  /\ modal = NoModal /\ mount < MaxOpens /\ mount' = mount + 1
  /\ modal' = [type |-> "server", server |-> 0]
  /\ os' = "linux" /\ credentialType' = "ssh_password" /\ submitting' = FALSE
  /\ UNCHANGED <<stored, shown, reqs, load, issued, history>>

OpenCredential(s) ==
  /\ modal = NoModal /\ mount < MaxOpens /\ mount' = mount + 1
  /\ modal' = [type |-> "credential", server |-> s.id]
  /\ os' = s.os /\ credentialType' = Default(s.os) /\ submitting' = FALSE
  /\ UNCHANGED <<stored, shown, reqs, load, issued, history>>

Close ==
  /\ modal # NoModal /\ modal' = NoModal
  /\ UNCHANGED <<stored, shown, mount, os, credentialType, submitting, reqs, load, issued, history>>

(* Mutant: the type stays the one of the other system. *)
TypeForKept(system) == credentialType

TypeFor(system) == Default(system)

OnOSChange(system) ==
  /\ modal.type = "server" /\ os' = system /\ credentialType' = TypeFor(system)
  /\ UNCHANGED <<stored, shown, modal, mount, submitting, reqs, load, issued, history>>

ChooseType(type) ==
  /\ modal # NoModal /\ type \in Offered(os) /\ credentialType' = type
  /\ UNCHANGED <<stored, shown, modal, mount, os, submitting, reqs, load, issued, history>>

(* onSubmit of either dialog; a form with missing fields sends nothing.    *)
(* The credential dialog looks its server up in the list.                  *)
Submit(withCredential) ==
  /\ modal # NoModal /\ ~submitting /\ submitting' = TRUE
  /\ issued < MaxRequests /\ issued' = issued + 1
  /\ modal.type = "credential" => withCredential /\ \E s \in shown : s.id = modal.server
  /\ reqs' = reqs \cup {[n |-> issued + 1, op |-> modal.type, save |-> modal.type, phase |-> "sent",
                         server |-> modal.server, os |-> os, type |-> credentialType,
                         with |-> withCredential, mount |-> mount]}
  /\ UNCHANGED <<stored, shown, modal, mount, os, credentialType, load, history>>

(***************************************************************************)
(* The server                                                              *)
(***************************************************************************)

To(r, phase) == reqs' = (reqs \ {r}) \cup {[r EXCEPT !.phase = phase]}

(* CreateServer. *)
StoreServer(r) ==
  /\ r.op = "server" /\ r.phase = "sent"
  /\ servers' = servers \cup {[id |-> r.n, os |-> r.os]} /\ To(r, "stored")
  /\ UNCHANGED <<credentials, shown, dialog, load, issued, history>>

(* Mutant: a failed log keeps the server. *)
RolledBackKept(r) == servers

RolledBack(r) == servers \ {[id |-> r.n, os |-> r.os]}

LogServer(r, ok) ==
  /\ r.op = "server" /\ r.phase = "stored"
  /\ servers' = IF ok THEN servers ELSE RolledBack(r)
  /\ To(r, IF ok THEN "done" ELSE "failed")
  /\ removed' = IF ok THEN removed ELSE removed \cup {r.n}
  /\ UNCHANGED <<credentials, shown, dialog, load, issued, reported, half>>

(* validateCredentialForServer and the look-up before it. *)
Accepts(r) == \E s \in servers : s.id = r.server /\ r.type \in Offered(s.os)

CheckCredential(r) ==
  /\ r.op = "credential" /\ r.phase = "sent"
  /\ To(r, IF Accepts(r) THEN "checked" ELSE "failed")
  /\ UNCHANGED <<stored, shown, dialog, load, issued, history>>

(* Mutant: a failed log is only noted. *)
AnswerNoted(ok) == "done"

Answer(ok) == IF ok THEN "done" ELSE "failed"

(* CreateCredential, its log, and the removal when the log fails: nobody   *)
(* reads credentials in between.                                           *)
StoreCredential(r, ok) ==
  /\ r.op = "credential" /\ r.phase = "checked"
  /\ credentials' = IF ok THEN credentials \cup {[id |-> r.n, server |-> r.server, type |-> r.type]}
                    ELSE credentials
  /\ To(r, Answer(ok))
  /\ UNCHANGED <<servers, shown, dialog, load, issued, history>>

(* A request, or the answer to it, gets lost. *)
Lost(r) ==
  /\ r.phase \in {"sent", "done"} /\ To(r, "failed")
  /\ UNCHANGED <<stored, shown, dialog, load, issued, history>>

(***************************************************************************)
(* Answers                                                                 *)
(***************************************************************************)

Mounted(r) == modal # NoModal /\ r.mount = mount

(* Mutant: the button stays disabled after an error. *)
IdleDone(r) == submitting /\ r.phase # "refresh"

Idle(r) == submitting /\ ~Mounted(r)

(* The server exists: its credential follows, with what the form held. *)
ThenCredential(r) ==
  /\ r.op = "server" /\ r.phase = "done" /\ r.with
  /\ issued < MaxRequests /\ issued' = issued + 1
  /\ reqs' = (reqs \ {r}) \cup {[r EXCEPT !.n = issued + 1, !.op = "credential", !.phase = "sent", !.server = r.n]}
  /\ UNCHANGED <<stored, shown, dialog, load, history>>

(* The dialog is closed, whichever is open, and the page refreshed. *)
Saved(r) ==
  /\ r.phase = "done" /\ (r.op = "credential" \/ ~r.with)
  /\ modal' = NoModal /\ To(r, "refresh")
  /\ load' = [phase |-> "sent", servers |-> {}]
  /\ UNCHANGED <<stored, shown, mount, os, credentialType, submitting, issued, history>>

Failed(r) ==
  /\ r.phase = "failed" /\ reqs' = reqs \ {r} /\ submitting' = Idle(r)
  /\ half' = (half \/ (r.save = "server" /\ (r.op = "credential" \/ \E s \in servers : s.id = r.n)))
  /\ UNCHANGED <<stored, shown, modal, mount, os, credentialType, load, issued, reported, removed>>

ServeBootstrap ==
  /\ load.phase = "sent" /\ load' = [phase |-> "served", servers |-> servers]
  /\ UNCHANGED <<stored, shown, dialog, reqs, issued, history>>

(* Mutant: the rows loaded first are kept. *)
ShownFirst == IF shown = {} THEN load.servers ELSE shown

Shown == load.servers

(* The refreshes wait for one bootstrap request: a later one replaces it.  *)
(* Then the toast, and the finally clause.                                 *)
Refreshed ==
  /\ load.phase = "served" /\ load' = NoLoad /\ shown' = Shown
  /\ LET over == {r \in reqs : r.phase = "refresh"} IN
       /\ reqs' = reqs \ over
       /\ reported' = reported \cup {[save |-> r.save, with |-> r.with, n |-> r.n, server |-> r.server] : r \in over}
       /\ submitting' = (submitting /\ ~\E r \in over : Mounted(r))
  /\ UNCHANGED <<stored, modal, mount, os, credentialType, issued, half, removed>>

Next ==
  \/ OpenServer \/ Close \/ ServeBootstrap \/ Refreshed
  \/ \E s \in shown : OpenCredential(s)
  \/ \E system \in Systems : OnOSChange(system)
  \/ \E type \in Types : ChooseType(type)
  \/ \E b \in BOOLEAN : Submit(b)
  \/ \E r \in reqs :
       \/ StoreServer(r) \/ CheckCredential(r) \/ Lost(r) \/ ThenCredential(r) \/ Saved(r) \/ Failed(r)
       \/ \E ok \in BOOLEAN : LogServer(r, ok) \/ StoreCredential(r, ok)

Spec == Init /\ [][Next]_vars

(***************************************************************************)
(* Properties                                                              *)
(***************************************************************************)

(* What the page reported as added is stored: the server, and with it the  *)
(* credential that was typed for it.                                       *)
ReportedIsStored ==
  \A d \in reported :
    /\ d.save = "server" => \E s \in servers : s.id = IF d.with THEN d.server ELSE d.n
    /\ d.with => \E c \in credentials : c.id = d.n /\ c.server = d.server

(* The dialogs never ask for a credential of a type its server cannot      *)
(* take, however system and type were chosen: after the server was stored  *)
(* that refusal would leave it without its credential.                     *)
SentTypeFits ==
  \A r \in reqs : r.op = "credential" => \A s \in servers : s.id = r.server => r.type \in Offered(s.os)

(* A credential has its server, unless that one was removed because of its *)
(* log; and a server removed for that is never stored again.               *)
CredentialsHaveServers ==
  /\ \A c \in credentials : c.server \in removed \/ \E s \in servers : s.id = c.server
  /\ \A s \in servers : s.id \notin removed

(* The button is disabled exactly while the save of this dialog is under   *)
(* way.                                                                    *)
BusyIsTrue == modal # NoModal => submitting = (\E r \in reqs : r.mount = mount)

(* The list ends as what is stored, unless a save failed half way: that    *)
(* one is not followed by a refresh.  A server removed after it was listed *)
(* stays until the next refresh.                                           *)
ListEndsAsStored ==
  reqs = {} /\ load = NoLoad /\ ~half => servers \subseteq shown /\ \A s \in shown : s \in servers \/ s.id \in removed

=============================================================================
