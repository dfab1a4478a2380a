----------------------------- MODULE MCDialogs ------------------------------
(* The dialogs and panels of the console and of the workspace that act on  *)
(* one record, for TLC.  As in MCLists, one of them is open at a time and  *)
(* starts afresh when it is opened.                                        *)
EXTENDS Naturals, FiniteSets

VARIABLES
  showing,  \* the page on display
  status, decided, report, version, ran, row, dialog, answered,
  gen, writes, opening, open, stale, run, runs, changes, loading, error, crossed,
  page, slot, filled, result, sent, acked,
  list, editing, token,
  path, byHand, editor, fetching, action, running, uploading,
  servers, credentials, modal, mount, os, credentialType, submitting, load, reported,
  half, removed,
  kind, fetch, busy, reqs, issued, raced, rows, allowed, shown, store, saving, asking,
  accepted, deleted

Orders == INSTANCE Approvals
  WITH Consoles <- {"c1"}, MaxRequests <- 3
Token == INSTANCE TokenDialog
  WITH MaxTokens <- 3, MaxChanges <- 1, MaxOpenings <- 2
Operations == INSTANCE OperationDialogs
  WITH Kinds <- {"asset_import", "certificate_create", "task_logs", "ssh_exec"},
       MaxRequests <- 3
Providers == INSTANCE DnsProviders
  WITH Ids <- {"p1", "p2"}, Kinds <- {"cloudflare"}, MaxRequests <- 2
Provider == INSTANCE DnsProviders
  WITH Ids <- {"p1"}, Kinds <- {"cloudflare", "alidns"}, MaxRequests <- 2
Storage == INSTANCE FilePanels
  WITH Panel <- "storage", Files <- {"f", "g"}, Folders <- {"home", "docs"},
       Home <- "home", MaxRequests <- 2
Editor == INSTANCE FilePanels
  WITH Panel <- "storage", Files <- {"f", "g"}, Folders <- {"home"}, Home <- "home",
       MaxRequests <- 3
Sftp == INSTANCE FilePanels
  WITH Panel <- "ssh", Files <- {"f", "g"}, Folders <- {"home", "docs"}, Home <- "home",
       MaxRequests <- 3
Drive == INSTANCE FilePanels
  WITH Panel <- "drive", Files <- {"f", "g"}, Folders <- {"home", "docs"},
       Home <- "home", MaxRequests <- 3
Assets == INSTANCE AssetDialogs
  WITH MaxRequests <- 3, MaxOpens <- 2

ASSUME DialogsAssumption ==
  /\ Orders!ConstantsOK /\ Token!ConstantsOK /\ Operations!ConstantsOK /\ Providers!ConstantsOK
  /\ Provider!ConstantsOK /\ Storage!ConstantsOK /\ Editor!ConstantsOK /\ Sftp!ConstantsOK
  /\ Drive!ConstantsOK /\ Assets!ConstantsOK

(* What only one page has, and that it is not there: a variable that the   *)
(* page on display does not have is Off.                                   *)
Off == "off"
onlyOrders ==
  <<status, decided, report, version, ran, row, dialog, answered>>
NoOrders ==
  /\ status = Off /\ decided = Off /\ report = Off /\ version = Off /\ ran = Off
  /\ row = Off /\ dialog = Off /\ answered = Off
onlyToken ==
  <<gen, writes, opening, open, stale, run, runs, changes, loading, error, crossed>>
NoToken ==
  /\ gen = Off /\ writes = Off /\ opening = Off /\ open = Off /\ stale = Off
  /\ run = Off /\ runs = Off /\ changes = Off /\ loading = Off /\ error = Off
  /\ crossed = Off
onlyOperations ==
  <<page, slot, filled, result, sent, acked>>
NoOperations ==
  /\ page = Off /\ slot = Off /\ filled = Off /\ result = Off /\ sent = Off
  /\ acked = Off
onlyDns ==
  <<list, editing, token>>
NoDns ==
  /\ list = Off /\ editing = Off /\ token = Off
onlyFiles ==
  <<path, byHand, editor, fetching, action, running, uploading>>
NoFiles ==
  /\ path = Off /\ byHand = Off /\ editor = Off /\ fetching = Off /\ action = Off
  /\ running = Off /\ uploading = Off
onlyAssets ==
  <<servers, credentials, modal, mount, os, credentialType, submitting, load, reported,
    half, removed>>
NoAssets ==
  /\ servers = Off /\ credentials = Off /\ modal = Off /\ mount = Off /\ os = Off
  /\ credentialType = Off /\ submitting = Off /\ load = Off /\ reported = Off
  /\ half = Off /\ removed = Off
state ==
  <<showing, onlyOrders, onlyToken, onlyOperations, onlyDns, onlyFiles, onlyAssets,
    kind, fetch, busy, reqs, issued, raced, rows, allowed, shown, store, saving, asking,
    accepted, deleted>>

(* The page on display starts afresh. *)
Init ==
  \/ /\ showing = "orders" /\ Orders!Init
     /\ NoToken /\ NoOperations /\ NoDns /\ NoFiles /\ NoAssets /\ rows = Off
     /\ allowed = Off /\ shown = Off /\ store = Off /\ saving = Off /\ asking = Off
     /\ accepted = Off /\ deleted = Off
  \/ /\ showing = "token" /\ Token!Init
     /\ NoOrders /\ NoOperations /\ NoDns /\ NoFiles /\ NoAssets /\ kind = Off
     /\ busy = Off /\ reqs = Off /\ raced = Off /\ store = Off /\ saving = Off
     /\ asking = Off /\ accepted = Off /\ deleted = Off
  \/ /\ showing = "operations" /\ Operations!Init
     /\ NoOrders /\ NoToken /\ NoDns /\ NoFiles /\ NoAssets /\ kind = Off /\ raced = Off
     /\ shown = Off /\ saving = Off /\ asking = Off /\ accepted = Off /\ deleted = Off
  \/ /\ showing = "providers" /\ Providers!Init
     /\ NoOrders /\ NoToken /\ NoOperations /\ NoFiles /\ NoAssets /\ fetch = Off
     /\ busy = Off /\ rows = Off /\ allowed = Off /\ shown = Off
  \/ /\ showing = "provider" /\ Provider!Init
     /\ NoOrders /\ NoToken /\ NoOperations /\ NoFiles /\ NoAssets /\ fetch = Off
     /\ busy = Off /\ rows = Off /\ allowed = Off /\ shown = Off
  \/ /\ showing = "files" /\ Storage!Init
     /\ NoOrders /\ NoToken /\ NoOperations /\ NoDns /\ NoAssets /\ kind = Off
     /\ fetch = Off /\ busy = Off /\ raced = Off /\ rows = Off /\ allowed = Off
     /\ store = Off
  \/ /\ showing = "file" /\ Editor!Init
     /\ NoOrders /\ NoToken /\ NoOperations /\ NoDns /\ NoAssets /\ kind = Off
     /\ fetch = Off /\ busy = Off /\ raced = Off /\ rows = Off /\ allowed = Off
     /\ store = Off
  \/ /\ showing = "sftp" /\ Sftp!Init
     /\ NoOrders /\ NoToken /\ NoOperations /\ NoDns /\ NoAssets /\ kind = Off
     /\ fetch = Off /\ busy = Off /\ raced = Off /\ rows = Off /\ allowed = Off
     /\ store = Off
  \/ /\ showing = "drive" /\ Drive!Init
     /\ NoOrders /\ NoToken /\ NoOperations /\ NoDns /\ NoAssets /\ kind = Off
     /\ fetch = Off /\ busy = Off /\ raced = Off /\ rows = Off /\ allowed = Off
     /\ store = Off
  \/ /\ showing = "assets" /\ Assets!Init
     /\ NoOrders /\ NoToken /\ NoOperations /\ NoDns /\ NoFiles /\ kind = Off
     /\ fetch = Off /\ busy = Off /\ raced = Off /\ rows = Off /\ allowed = Off
     /\ store = Off /\ saving = Off /\ asking = Off /\ accepted = Off /\ deleted = Off

notOrders ==
  <<onlyToken, onlyOperations, onlyDns, onlyFiles, onlyAssets, rows, allowed, shown,
    store, saving, asking, accepted, deleted>>
notToken ==
  <<onlyOrders, onlyOperations, onlyDns, onlyFiles, onlyAssets, kind, busy, reqs, raced,
    store, saving, asking, accepted, deleted>>
notOperations ==
  <<onlyOrders, onlyToken, onlyDns, onlyFiles, onlyAssets, kind, raced, shown, saving,
    asking, accepted, deleted>>
notDns ==
  <<onlyOrders, onlyToken, onlyOperations, onlyFiles, onlyAssets, fetch, busy, rows,
    allowed, shown>>
notFiles ==
  <<onlyOrders, onlyToken, onlyOperations, onlyDns, onlyAssets, kind, fetch, busy,
    raced, rows, allowed, store>>
notAssets ==
  <<onlyOrders, onlyToken, onlyOperations, onlyDns, onlyFiles, kind, fetch, busy, raced,
    rows, allowed, store, saving, asking, accepted, deleted>>

Next ==
  /\ UNCHANGED showing
  /\ \/ showing = "orders" /\ Orders!Next /\ UNCHANGED notOrders
     \/ showing = "token" /\ Token!Next /\ UNCHANGED notToken
     \/ showing = "operations" /\ Operations!Next /\ UNCHANGED notOperations
     \/ showing = "providers" /\ Providers!Next /\ UNCHANGED notDns
     \/ showing = "provider" /\ Provider!Next /\ UNCHANGED notDns
     \/ showing = "files" /\ Storage!Next /\ UNCHANGED notFiles
     \/ showing = "file" /\ Editor!Next /\ UNCHANGED notFiles
     \/ showing = "sftp" /\ Sftp!Next /\ UNCHANGED notFiles
     \/ showing = "drive" /\ Drive!Next /\ UNCHANGED notFiles
     \/ showing = "assets" /\ Assets!Next /\ UNCHANGED notAssets

Spec == Init /\ [][Next]_state

(***************************************************************************)
(* Properties                                                              *)
(***************************************************************************)

(* The variables of every dialog hold values the code can give them.       *)
TypesOK ==
  /\ showing = "orders" => Orders!TypeOK
  /\ showing = "token" => Token!TypeOK
  /\ showing = "operations" => Operations!TypeOK
  /\ showing = "providers" => Providers!TypeOK
  /\ showing = "provider" => Provider!TypeOK
  /\ showing = "files" => Storage!TypeOK
  /\ showing = "file" => Editor!TypeOK
  /\ showing = "sftp" => Sftp!TypeOK
  /\ showing = "drive" => Drive!TypeOK
  /\ showing = "assets" => Assets!TypeOK

(* What the server does is what the user saw and agreed to, however loads, *)
(* edits and answers overlap: an order runs as it was approved, only       *)
(* providers and files whose deletion was confirmed are deleted (the drive *)
(* panel does not ask), uploads and new folders go to the folder on        *)
(* display, and the program carries no tick to overwrite over to another   *)
(* file (handleSQLWorkOrderExecute, deleteProvider, createFolder,          *)
(* uploadSelectedFile, prefillCopyEntry, beginFileAction and               *)
(* runFileAction).                                                         *)
ActsAsAsked ==
  /\ showing = "orders" => Orders!ExecutedWasApproved
  /\ showing = "providers" => Providers!DeletedWereConfirmed
  /\ showing = "provider" => Provider!DeletedWereConfirmed
  /\ showing = "files" => Storage!OperatesWhereShown /\ Storage!OverwriteWasTicked /\ Storage!DeletedWereConfirmed
  /\ showing = "file" => Editor!OperatesWhereShown /\ Editor!OverwriteWasTicked /\ Editor!DeletedWereConfirmed
  /\ showing = "sftp" => Sftp!OperatesWhereShown /\ Sftp!OverwriteWasTicked /\ Sftp!DeletedWereConfirmed
  /\ showing = "drive" => Drive!OperatesWhereShown

(* What a dialog shows is its own and as new as its last answer: results   *)
(* and import summaries of this opening, the text of the file it is saved  *)
(* to, a token for its provider, a gateway token that is accepted, columns *)
(* that agree with an order's status, and rows that hold what the dialog   *)
(* has written (setResult, editTextEntry, the effect of                    *)
(* AgentGatewayTokenDialog and the refreshes that cancel each other).      *)
ShowsItsOwn ==
  /\ showing = "orders" => Orders!SummaryTellsStatus /\ Orders!OwnWritesShown
  /\ showing = "token" => Token!FieldsHaveToken /\ Token!ShownIsValid
  /\ showing = "operations" => Operations!ResultIsOwn /\ Operations!SummaryOfLastAttempt /\ Operations!SettledRowsFresh
  /\ showing = "providers" => Providers!TokenOfItsProvider
  /\ showing = "provider" => Provider!TokenOfItsProvider
  /\ showing = "files" => Storage!TextOfItsFile
  /\ showing = "file" => Editor!TextOfItsFile
  /\ showing = "assets" => Assets!ReportedIsStored /\ Assets!ListEndsAsStored

(* One request at a time where the buttons promise it, whatever the        *)
(* requests of closed dialogs still do: an approved order runs once unless *)
(* handlers overlap at the server, a dialog that saves has one request,    *)
(* and the SFTP panel's editor and its form are never open together.       *)
OneAtATime ==
  /\ showing = "orders" => Orders!RunsOnceUnlessRaced
  /\ showing = "operations" => Operations!OneRequestPerDialog
  /\ showing = "sftp" => Sftp!OneFormAtATime
  /\ showing = "assets" => Assets!BusyIsTrue

(* Records that belong together fit: an order holds the decision that was  *)
(* answered and a stored token is for the service its provider names, both *)
(* unless two handlers held the row or a write failed; a credential has    *)
(* its server and is of a type that one takes, also when the second of two *)
(* requests fails (ServerDialog and handleCertificateDNSProviderItem).     *)
StoreFits ==
  /\ showing = "orders" => Orders!AnsweredDecisionKept
  /\ showing = "providers" => Providers!SecretFitsUnlessRaced
  /\ showing = "provider" => Provider!SecretFitsUnlessRaced
  /\ showing = "assets" => Assets!SentTypeFits /\ Assets!CredentialsHaveServers

(* Nothing goes back: a settled order changes no more once no handler      *)
(* holds an older copy, and while the dialog stays open its token is only  *)
(* replaced by a later one, whatever answer arrives late.                  *)
NoWayBack ==
  [][/\ showing = "orders" => Orders!SettledIsFinal
     /\ showing = "token" => Token!ShownNeverOlder]_state
=============================================================================
