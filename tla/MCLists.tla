------------------------------ MODULE MCLists -------------------------------
(* The pages of the console that list and edit records, for TLC.           *)
(*                                                                         *)
(* One of them is on display at a time (PlatformTablePage, SettingsPage    *)
(* and the tables in them): its state is made when it is opened            *)
(* and thrown away when it is left, so the pages share none, and a         *)
(* behaviour here is one page from its opening on.                         *)
EXTENDS Naturals, FiniteSets

VARIABLES
  showing,  \* the page on display
  store, required, setting, saves, edited, last,
  items, list, other, accepted, stale, overlap,
  on, codes, status, setup, code, shown, unseen, disturbed,
  stored, rows, fetch, dialog, saving, doomed, announced, saved, behind,
  data, query, pageIndex, pageSize, hidden, pending,
  form, busy, reqs, raced, issued, asking, selected

(* DataTable: a filter that finds some rows and one that finds none. *)
Finds == [q \in {"some", "none"} |-> IF q = "some" THEN {1, 3, 4} ELSE {}]

Settings == INSTANCE SystemSettings
  WITH Used <- {"security", "oidc"}, MaxSaves <- 2
Retention == INSTANCE SystemSettings
  WITH Used <- {"retention", "wecom"}, MaxSaves <- 2
Keys == INSTANCE AccountLists
  WITH Lists <- {"passkeys", "ssh"}, Ids <- {"k1", "k2"}, Limit <- 1, MaxRequests <- 3
Policies == INSTANCE AccountLists
  WITH Lists <- {"policies", "locks"}, Ids <- {"k1", "k2"}, Limit <- 1, MaxRequests <- 3
Mfa == INSTANCE MfaSection
  WITH MaxRequests <- 5
Records == INSTANCE ConsoleTable
  WITH Ids <- {"i", "j"}, Texts <- {"a"}, Types <- {"confidential"}, Secrets <- {},
       MaxRequests <- 2
Form == INSTANCE ConsoleTable
  WITH Ids <- {"i"}, Texts <- {"a"}, Types <- {"confidential", "public"},
       Secrets <- {"s1"}, MaxRequests <- 2
Fields == INSTANCE ConsoleTable
  WITH Ids <- {"i"}, Texts <- {"", "a"}, Types <- {"confidential", "public"},
       Secrets <- {"s1"}, MaxRequests <- 1
Table == INSTANCE DataTable
  WITH Rows <- 1 .. 5, Queries <- {"some", "none"}, Matches <- Finds, Sizes <- 1 .. 3,
       Columns <- {"name", "host"}

ASSUME ListsAssumption ==
  /\ Settings!ConstantsOK /\ Retention!ConstantsOK /\ Keys!ConstantsOK /\ Policies!ConstantsOK
  /\ Mfa!ConstantsOK /\ Records!ConstantsOK /\ Form!ConstantsOK /\ Fields!ConstantsOK
  /\ Table!ConstantsOK

(* What only one page has, and that it is not there: a variable that the   *)
(* page on display does not have is Off.                                   *)
Off == "off"
onlySettings ==
  <<store, required, setting, saves, edited, last>>
NoSettings ==
  /\ store = Off /\ required = Off /\ setting = Off /\ saves = Off /\ edited = Off
  /\ last = Off
onlyAccount ==
  <<items, list, other, accepted, stale, overlap>>
NoAccount ==
  /\ items = Off /\ list = Off /\ other = Off /\ accepted = Off /\ stale = Off
  /\ overlap = Off
onlyMfa ==
  <<on, codes, status, setup, code, shown, unseen, disturbed>>
NoMfa ==
  /\ on = Off /\ codes = Off /\ status = Off /\ setup = Off /\ code = Off
  /\ shown = Off /\ unseen = Off /\ disturbed = Off
onlyRecords ==
  <<stored, rows, fetch, dialog, saving, doomed, announced, saved, behind>>
NoRecords ==
  /\ stored = Off /\ rows = Off /\ fetch = Off /\ dialog = Off /\ saving = Off
  /\ doomed = Off /\ announced = Off /\ saved = Off /\ behind = Off
onlyTable ==
  <<data, query, pageIndex, pageSize, hidden, pending>>
NoTable ==
  /\ data = Off /\ query = Off /\ pageIndex = Off /\ pageSize = Off /\ hidden = Off
  /\ pending = Off
state ==
  <<showing, onlySettings, onlyAccount, onlyMfa, onlyRecords, onlyTable, form, busy,
    reqs, raced, issued, asking, selected>>

(* The page on display starts afresh. *)
Init ==
  \/ /\ showing = "settings" /\ Settings!Init
     /\ NoAccount /\ NoMfa /\ NoRecords /\ NoTable /\ issued = Off /\ asking = Off
     /\ selected = Off
  \/ /\ showing = "retention" /\ Retention!Init
     /\ NoAccount /\ NoMfa /\ NoRecords /\ NoTable /\ issued = Off /\ asking = Off
     /\ selected = Off
  \/ /\ showing = "keys" /\ Keys!Init
     /\ NoSettings /\ NoMfa /\ NoRecords /\ NoTable /\ form = Off /\ raced = Off
     /\ selected = Off
  \/ /\ showing = "policies" /\ Policies!Init
     /\ NoSettings /\ NoMfa /\ NoRecords /\ NoTable /\ form = Off /\ raced = Off
     /\ selected = Off
  \/ /\ showing = "mfa" /\ Mfa!Init
     /\ NoSettings /\ NoAccount /\ NoRecords /\ NoTable /\ form = Off /\ raced = Off
     /\ asking = Off /\ selected = Off
  \/ /\ showing = "rows" /\ Records!Init
     /\ NoSettings /\ NoAccount /\ NoMfa /\ NoTable /\ busy = Off
  \/ /\ showing = "form" /\ Form!Init
     /\ NoSettings /\ NoAccount /\ NoMfa /\ NoTable /\ busy = Off
  \/ /\ showing = "fields" /\ Fields!Init
     /\ NoSettings /\ NoAccount /\ NoMfa /\ NoTable /\ busy = Off
  \/ /\ showing = "table" /\ Table!Init
     /\ NoSettings /\ NoAccount /\ NoMfa /\ NoRecords /\ form = Off /\ busy = Off
     /\ reqs = Off /\ raced = Off /\ issued = Off /\ asking = Off

notSettings ==
  <<onlyAccount, onlyMfa, onlyRecords, onlyTable, issued, asking, selected>>
notAccount ==
  <<onlySettings, onlyMfa, onlyRecords, onlyTable, form, raced, selected>>
notMfa ==
  <<onlySettings, onlyAccount, onlyRecords, onlyTable, form, raced, asking, selected>>
notRecords ==
  <<onlySettings, onlyAccount, onlyMfa, onlyTable, busy>>
notTable ==
  <<onlySettings, onlyAccount, onlyMfa, onlyRecords, form, busy, reqs, raced, issued,
    asking>>

Next ==
  /\ UNCHANGED showing
  /\ \/ showing = "settings" /\ Settings!Next /\ UNCHANGED notSettings
     \/ showing = "retention" /\ Retention!Next /\ UNCHANGED notSettings
     \/ showing = "keys" /\ Keys!Next /\ UNCHANGED notAccount
     \/ showing = "policies" /\ Policies!Next /\ UNCHANGED notAccount
     \/ showing = "mfa" /\ Mfa!Next /\ UNCHANGED notMfa
     \/ showing = "rows" /\ Records!Next /\ UNCHANGED notRecords
     \/ showing = "form" /\ Form!Next /\ UNCHANGED notRecords
     \/ showing = "fields" /\ Fields!Next /\ UNCHANGED notRecords
     \/ showing = "table" /\ Table!Next /\ UNCHANGED notTable

Spec == Init /\ [][Next]_state

(***************************************************************************)
(* Properties                                                              *)
(***************************************************************************)

(* Every page's variables hold values the code can give them.              *)
TypesOK ==
  /\ showing = "settings" => Settings!TypeOK
  /\ showing = "retention" => Retention!TypeOK
  /\ showing = "keys" => Keys!TypeOK
  /\ showing = "policies" => Policies!TypeOK
  /\ showing = "mfa" => Mfa!TypeOK
  /\ showing = "rows" => Records!TypeOK
  /\ showing = "form" => Form!TypeOK
  /\ showing = "fields" => Fields!TypeOK
  /\ showing = "table" => Table!TypeOK

(* A page at rest shows what the server stores, although every handler     *)
(* reloads after its own write and those reloads overlap: the sections     *)
(* that were not the one saved, the keys, policies and locks, the MFA      *)
(* panel, the rows of a collection, and the page of a table (the load*     *)
(* functions, app.refresh and the effect of DataTable).  Each part names   *)
(* the failures and overlaps after which the code leaves an older display. *)
ListsShowStored ==
  /\ showing = "settings" => Settings!SectionsShowStored
  /\ showing = "retention" => Retention!SectionsShowStored
  /\ showing = "keys" => Keys!ListsShowStored
  /\ showing = "policies" => Policies!ListsShowStored
  /\ showing = "mfa" => Mfa!StatusIsStored
  /\ showing = "rows" => Records!RowsShowStored
  /\ showing = "form" => Form!RowsShowStored
  /\ showing = "table" => Table!PageIsTrue

(* What a page reported as done is done at the server, also after the      *)
(* other saves and deletions of the page: settings that share one item,    *)
(* records and their secrets, deletions, recovery codes, and the limit of  *)
(* passkeys when tabs take turns (the save* functions, save, remove and    *)
(* bulkDelete of PlatformTablePage, enableMFA and registerPasskey).        *)
ReportedIsStored ==
  /\ showing = "settings" => Settings!SavedIsStored /\ Settings!NoDuplicateItem
  /\ showing = "retention" => Retention!SavedIsStored /\ Retention!NoDuplicateItem
  /\ showing = "keys" => Keys!PasskeyLimitInTurn
  /\ showing = "mfa" => Mfa!ShownCodesWork
  /\ showing = "rows" => Records!ReportedAreGone
  /\ showing = "form" => Form!SavedIsStoredUnlessEmpty /\ Form!ReportedAreGone
  /\ showing = "fields" => Fields!SavedIsStoredUnlessEmpty

(* Nothing is lost that the user did not ask about: keys and records go    *)
(* only after their own deletion was confirmed, a secret changes only when *)
(* a request carries another or clears it, a click selects only rows on    *)
(* display, and a new page size keeps the first of them in view, while     *)
(* lists, rows and selection change under the open question.               *)
OnlyAskedChanges ==
  [][/\ showing = "keys" => Keys!OnlyConfirmedGo
     /\ showing = "rows" => Records!OnlyConfirmedGo
     /\ showing = "form" => Form!OnlyConfirmedGo /\ Form!SecretsAreKept
     /\ showing = "fields" => Fields!SecretsAreKept
     /\ showing = "table" => Table!OnlyShownChange /\ Table!FirstRowStays]_state

(* The controls tell the truth: a button is disabled exactly while its     *)
(* handler runs, through errors and answers out of order, the bulk buttons *)
(* mean rows on display, and the record form never wants a secret both set *)
(* and cleared (saving, selectedIDs and the form of PlatformTablePage).    *)
ControlsAreTrue ==
  /\ showing = "settings" => Settings!BusyIsTrue
  /\ showing = "retention" => Retention!BusyIsTrue
  /\ showing = "keys" => Keys!BusyIsTrue
  /\ showing = "policies" => Policies!BusyIsTrue
  /\ showing = "rows" => Records!SelectionIsShown /\ Records!SavingIsTrue
  /\ showing = "form" => Form!OneSecretWish /\ Form!SavingIsTrue
  /\ showing = "fields" => Fields!OneSecretWish
=============================================================================
