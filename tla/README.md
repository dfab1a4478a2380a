# TLA+ models of openwebservermanager

openwebservermanager is a self-hosted console for servers: one Go process
(`src/internal`) that opens SSH, RDP, VNC and database connections for browser
users, records and audits them, schedules maintenance and keeps everything in a
SQLite database and a state file; an optional agent process that dials targets
from another network; a React front end (`src/frontend`). This directory holds
models of the parts in which several goroutines, requests, views or processes
meet, what TLC checks of them and what TLAPS proves of them.

Notation: `file.go` is `src/internal/app/file.go` unless a directory is given;
`file.tsx` is found by its name under `src/frontend/src`.

## Inventory

### Server

| component | state it keeps | operations | what makes it correct |
|---|---|---|---|
| agent relay (`agentrelay/manager.go`, `client.go`) | tunnels, a queue per gateway, a wake-up channel, a log row per tunnel | Dial, Claim, Ready, Fail, CopyUp, CopyDown, finish | a tunnel is claimed once, nothing is left behind by a dial that failed, no wake-up is lost, the log row ends as finish wrote it, a close reaches both ends |
| task scheduler (`scheduler.go`, `scheduled_tasks.go`) | stored tasks with next run, the running map, `operation_logs` rows | scan, run, manual run, Stop, reconciliation at start | no task beside itself, no unlogged change, no row left at `running`, nothing starts after Stop, due tasks run |
| connection sessions (`store/store.go`, `app.go`, `active_connections.go`, `ssh/session.go`, `guac/tunnel.go`) | record, saved state, mirror in `online_sessions` / `offline_sessions`, registry of sockets | create, connect, activate, touch, close, disconnect | record and mirror agree, a disconnect leaves nobody connected, an active record is being served |
| recordings (`recording_transcode.go`, `resource_ops.go`) | directory, video, metadata in the offline item, transcode registry | transcode, delete, reconcile | one transcoding at a time, a video offered as completed is whole, a refused deletion changes nothing, a deletion is final |
| command approvals and SQL work orders (`command_approvals.go`, `resource_ops.go`) | status and metadata of an order | approve, reject, execute | nothing runs unapproved, nothing runs twice, a decision stands |
| platform records (`platform.go`, `resource_ops.go`, `store/store.go`) | collections of JSON rows | create, update, delete, each with an operation log and an undo when the log fails | no unlogged change, no lost update |
| roles (`rbac.go`) | role records, role of an account | authorize a request | equal to what the pages offer |
| login and sessions (`auth.go`, `login_security.go`, `captcha.go`, MFA, `passkeys.go`) | token cache and stored sessions, failure counters, lock rows, one-time states, codes | login, logout, unlock, consume | a deleted token is dead, a lock takes effect, a one-time state is used once |
| OIDC provider and external identity providers | authorization codes, states, nonces | issue, exchange, restore | a code is exchanged once |
| backup and restore (`backup_ops.go`) | archives, the whole database | snapshot, validate, restore, roll back | all or nothing |
| gateway groups and routes (`gateway_groups.go`, `gateway_route_registry.go`, `agent_dial.go`) | cooldowns, round-robin index, desktop relays | choose, fail over, accept, close | an offline or cooling member is not chosen while another one is available |
| guacd manager, ssh gateway, TCP, RDP and database proxies | processes, listeners, connections | start, reload, stop | a stop ends everything it started |
| command interception, cron arithmetic, authorization matching | none (pure) | filter, next run, match | equal to a reference definition |

### Front end

| component | state it keeps | operations | what makes it correct |
|---|---|---|---|
| workspace view (`workspace-view.tsx`, `app-provider.tsx`, `AccessSection`, `ConnectDialog`) | the session on the screen, its status and busy flags, sockets and tunnels | connect, reconnect, close, leave; socket and tunnel events | one attached connection, the one on the screen; status and buttons are true |
| desktop input (`RDPWorkspace`) | keys believed pressed | key, mouse, focus and visibility handlers, cleanup | no key stays down on a desktop nobody types into |
| approval pages | rows, one dialog, busy flags | decide, execute, refresh | an order runs as approved, once; the row shows the page's own writes |
| operation dialogs | one slot, a form, a result | open, edit, submit, dismiss | a dialog shows its own result and has one request |
| registration token dialog | the token on display | an effect that issues tokens | the token shown is the one that is accepted |
| DNS provider dialog, file panels, asset dialogs | a list, a form, a question | load, edit, save, delete, upload | a text, token or credential reaches the record it was made for |
| settings and account (`settings-page.tsx`) | copies of settings items, keys, policies, locks, two-factor state | load, save, delete, enrol | what is shown is stored, saves of one section keep the others, codes are seen |
| console table and record form, data table | rows, selection, form, filter, page | save, delete, bulk delete, refresh, filter, turn pages | only what was asked about is deleted, secrets are kept, the page is not beyond the end |
| sign-in and shell (`auth-page.tsx`, `app-provider.tsx`, `router.tsx`) | form, challenge, captcha, user | password, code, passkey, set-up, logout | the user shown is the session's, recovery codes are seen before the console |
| navigation and permissions (`rbac.ts`, `router.tsx`, side bar) | copy of the account's permissions | offer, link, gate | offers what the server allows, links lead to their page |
| recording row and player (`platform-page.tsx`) | badge, polls, the player object | transcode, poll, delete, play, seek | the badge settles at the stored state, a video is not covered |

How they interact. Every server component reads and writes the store. `Store`
holds one mutex for the state file (`UpdateSession` and its like are atomic), while
`platform_records` are read and replaced in separate SQL statements without one.
Connection sessions dial through a gateway route and, for agent gateways,
through `Manager.Dial`, whose connection they then own. Ended sessions hand their
recording directory to the recordings. The scheduler runs log cleanup, backups,
asset checks and certificate renewals over the same collections the requests use.
Views know the server only through requests. They share `AppProvider`: one
context value with the bootstrap data, one workspace, one modal, and a `refresh`
that starts a new bootstrap request and cancels the one under way.

What is hard here. Handlers check a status, wait (for a dial, an upload, a
command) and act on what they saw. Two registries (sockets, transcodings) stand
between requests that must not overlap. Undo is by writing back an older copy. A
crash may fall between the write of a row, the work it announces and its
completion; some of it is reconciled at the next start. Agents and browsers
vanish without a word. In the browser an answer may arrive after its dialog was
closed, after another one was opened or after a later answer; effects run again
because of what they caused; a list changes under an open question.
`PROJECT.json` lists these places line by line under `hazards`.

## Modules

| module | models | checked in | theorems |
|---|---|---|---|
| `AgentRelay` | agent relay, both processes | `agent_relay_safety`, `progress` | `ServerProofs` |
| `Scheduler` | scheduler and task execution | `scheduler_safety`, `scheduler_live` | `ServerProofs` |
| `ConnectionSession` | sessions, handlers, registry, close | `connection_session_safety`, `progress` | `ServerProofs` |
| `Recording` | transcoding and deletion | `recording_safety`, `access`, `progress` | `AccessProofs`, `MCAccessProofs` |
| `Workspace`, `LiveView` | the workspace and what it promises | `access`, `progress` | `AccessProofs`, `MCAccessProofs` |
| `DesktopInput` | keyboard of a desktop session | `access` | `AccessProofs`, `MCAccessProofs` |
| `AuthSession` | the server's login sessions | `access` | `AccessProofs`, `MCAccessProofs` |
| `SignIn` | login page, application state, gates | `access` | `AccessPagesProofs`, `MCAccessProofs` |
| `Permissions` | the server's rules and the page's | `access` | `AccessPagesProofs`, `MCAccessProofs` |
| `RecordingRow`, `RecordingPlayer` | a row with a recording, the playback dialog | `access`, `progress` | `AccessPagesProofs`, `MCAccessProofs` |
| `ConsoleTable`, `DataTable` | collection page, table component | `lists` | `ListPagesProofs`, `ListsProofs` |
| `SystemSettings`, `AccountLists`, `MfaSection` | sections of the settings page | `lists` | `ListPagesProofs`, `ListsProofs` |
| `Approvals` | orders, their handlers and pages | `dialogs` | `DialogPagesProofs`, `DialogsProofs` |
| `OperationDialogs` | the dialogs that send one request | `dialogs`, `progress` | `DialogPagesProofs`, `DialogsProofs` |
| `TokenDialog`, `DnsProviders`, `FilePanels`, `AssetDialogs` | the dialogs of that name | `dialogs` | `DialogPagesProofs`, `DialogsProofs` |
| `MCAgentRelay`, `MCScheduler`, `MCConnectionSession`, `MCRecording`, `MCMfaSection` | instances of one module, with symmetry sets where the elements are interchangeable | | |
| `MCLists`, `MCDialogs`, `MCAccess`, `MCProgress` | instances of several | | |

Operators marked *Mutant* in a module are plausible bugs of the definition they
precede; each one breaks the property it is listed with in `PROJECT.json`.

The four composed MC modules. A console shows one page at a time: its state is
made when it mounts and thrown away when it is left. `showing`, chosen initially
and constant, names that page; a behaviour is one page with the part of the
server behind it, the variables of the others are `"off"` (or, in `MCProgress`,
rest in an initial state), and those that several modules name alike are shared.
A property of such a run is one idea about all pages, and states it of each by
the property of that name or of a more special one in its own module:

| run | property | of |
|---|---|---|
| `lists` | `ListsShowStored`: a page at rest shows what is stored | `SectionsShowStored`, `ListsShowStored`, `StatusIsStored`, `RowsShowStored`, `PageIsTrue` |
| | `ReportedIsStored`: what was reported is done | `SavedIsStored`, `NoDuplicateItem`, `PasskeyLimitInTurn`, `ShownCodesWork`, `ReportedAreGone`, `SavedIsStoredUnlessEmpty` |
| | `ControlsAreTrue`: buttons and form are true | `BusyIsTrue`, `SelectionIsShown`, `SavingIsTrue`, `OneSecretWish` |
| | `OnlyAskedChanges`: nothing else is lost | `OnlyConfirmedGo`, `SecretsAreKept`, `OnlyShownChange`, `FirstRowStays` |
| `dialogs` | `ActsAsAsked`: the server does what the user agreed to | `ExecutedWasApproved`, `DeletedWereConfirmed`, `OperatesWhereShown`, `OverwriteWasTicked` |
| | `ShowsItsOwn`: what is shown belongs there and is new | `SummaryTellsStatus`, `OwnWritesShown`, `FieldsHaveToken`, `ShownIsValid`, `ResultIsOwn`, `SummaryOfLastAttempt`, `SettledRowsFresh`, `TokenOfItsProvider`, `TextOfItsFile`, `ReportedIsStored`, `ListEndsAsStored` |
| | `OneAtATime`: one request where the buttons promise it | `RunsOnceUnlessRaced`, `OneRequestPerDialog`, `OneFormAtATime`, `BusyIsTrue` |
| | `StoreFits`: records that belong together fit | `AnsweredDecisionKept`, `SecretFitsUnlessRaced`, `SentTypeFits`, `CredentialsHaveServers` |
| | `NoWayBack`: nothing returns to an older state | `SettledIsFinal`, `ShownNeverOlder` |
| `access` | `NothingHeldAway`: no key stays down | `DesktopInput` |
| | `SignInIsTrue`: page, shell and server agree | `AuthIsSession`, `CodesSeenInTurn`, `BusyIsTrue`, `CaptchaUsable`, `RevokedIsDead`, `ServedAsUser`, `OnlineMatches` |
| | `OffersAreTrue`: what is offered is allowed | `OfferedIsAllowed`, `AllowedIsOffered`, `LinksLead` |
| | `ViewsAreTrue`: what a view says is so | `StatusIsTrue`, `BusyIsTrue`, `BadgeSettles`, `VideoIsClear`, `OnePlayer`, `FirstPlayerIsShown`, `RefusedDeleteKeeps`, `DeleteIsFinal` |
| | `NoStepBack`: a late poll does not turn a badge back | `RecordingRow` |
| `progress` | `WaitsEnd`, `ClosesComplete`, `LossIsNoticed` | the waits of relay, recordings, row, player and dialogs; closes of tunnels and sessions; loss of an agent or a terminal socket |
| | `OneLiveSession`: the workspace implements `LiveView` | `Workspace` |

Distinct states: `agent_relay_safety` 1.0 million, `scheduler_safety` 2.5 million,
`connection_session_safety` 168 thousand, `recording_safety` 1.5 million, `lists`
3.3 million, `dialogs` 2.8 million, `access` 3.5 million, `progress` 58 thousand.

### AgentRelay

State: `dialPc` is the place of the goroutine in `Manager.Dial`, `finPc` the
progress of the body of `closeOnce` in `finish` (one variable, since the others
wait for it), `ready` and `connected` are the tunnel's channels, `live` and
`pending` the Manager's maps, `logRow` the `operation_logs` row; `worker` is a
claim loop of an agent with its `Claim` call, `handler` the agent's `handleClaim`
goroutine, `readyCall` and `stream` the server's goroutines in `Ready`, `CopyUp`
and `CopyDown`.

Actions: `DialBegin`, `DialReady`, `DialTimeout`, `DialLog`, `DialOpen`,
`DialReturn` are Dial; `Enqueue` is part of `DialBegin`; `BeginFinish`,
`FinishClose`, `FinishLog` are the three parts of `finish` between which other
goroutines can run; `ClaimPost`, `ClaimScan`, `ClaimTimeout` the long poll;
`AgentDial`, `Fail`, `Ready`, `ReadyReturn`, `StreamOpen`, `StreamEnd`,
`StreamCanceled`, `StreamReturn`, `AgentStreamsOver` the agent's calls and what
ends them; `ConnClose` the user. `HandlerGone` is a lost request or a dead agent,
at any moment. Bytes are left out.

The run `agent_relay_safety` checks that the log's metadata map has one writer
(`SingleLogWriter`: Go aborts on concurrent map writes and the map has no lock),
that the final status stands (`FinalLogStands`), that failed dials and closed
connections leave nothing in the maps (`NoResidue`), that `Claim` does not sleep through an enqueue although it
unlocks before it waits (`NoLostWakeup`), and the order of the handshake.
`progress` (one tunnel, two
workers): every dial returns, a close reaches the agent's two blocked copies, the
loss of a streaming agent ends the tunnel. That a tunnel is handed out once
(`QueueSound`) is proved.

Bounds: two tunnels on one queue are the least for an overtaking or a double
claim, two workers for a race between claims. Queues of different gateways share
only the Manager's mutex.

### Scheduler

State: `item` is a stored task (enabled, whether `next_run_at` is absent, reached
or ahead, whether it ran), `seen` the copies `scan` has listed and not yet looked
at, `running` the running map; per execution its place, task, trigger, outcome,
the fate of its changes (`effect`), its log `row`, the snapshot a log cleanup
holds (`snap`) and whether a failed write was audited (`lost`); `proc`, `sched`
and `stop` are process, scheduler goroutine and `Stop`.

Actions: `ScanBegin`, `ScanTask`, `ScanEnd`; `ManualRun`; `RunBegin`, `RunWork`,
`RunFinish`, `RunState`, `RunEnd` are `executeScheduledTask` with its three kinds
of logging (backup: afterwards, with removal of the archive when the row cannot be
written; asset checks and certificate renewals: before and after; log cleanup:
afterwards, with its snapshot put back); `StopAsk`, `SchedulerDone`, `StopReturn`;
`TimePasses`, `AdminToggle`, `AdminDelete`; `Crash` and `Restart` with
`ReconcileInterruptedScheduledTaskLogs`.

`scheduler_safety`: no scheduled run beside another of the same task and no
entry left in the running map (`ScheduledExclusive`); a row at `running` belongs to
a run in flight (`RunningRowOwned`); changes in place are logged (`EffectLogged`);
nothing is started by the scheduler after Stop returned (`StopIsFinal`); an outcome
is rewritten only by the restored snapshot of a cleanup (`OutcomeStands`).
`scheduler_live`: a due task runs.

The exceptions these properties name (`lost`, `LogRestored`, `reconciled`) are what
the code really does when a second write fails: a cleanup that cannot log restores
all rows it had listed, other runs' newer rows included.

Bounds: two executions, so that a manual and a scheduled run, or two runs across a
restart, overlap; a cleanup and a backup, so that a snapshot meets another row.
Clock times are three values: only whether a time is reached matters.

### ConnectionSession

State: `status` (in memory), `disk` (saved), `mirror` (collection of the platform
row), `pc`, `of`, `sock` of a websocket handler, `reg` the registry of
`active_connections.go`, `kpc`, `kof`, `taken` of a close handler. `revived`, `stale`
and `torn` are history: sessions made active again after a close, left active by
a failure, and whose mirror a failure left behind.

Actions: `Create`, `CreateLog` (with the deletion when the log fails); `Connect`,
`Upgrade`, `Register`, `StillOpen`, `Activate` or `DialFails` or `RelayFails`,
`Touch`, `RunEnds` (with `closeAll`), `Leave` are `handleSSHWebSocket` and
`handleDesktopTunnel` with `Runner.Run` and `RunDesktop`, which share this life cycle;
`TargetEnds` and `BrowserLeaves` the two peers; `CloseBegin`, `ClosePlatform`,
`CloseRefresh`, `CloseRecord`, `Disconnect`, `CloseSockets` are `handleClose` and
`handleAuditSessionDisconnect`; `Restart`. `Write` is `UpdateSession` under the
store's lock; `WriteFails` its failures at each of its saves.

`connection_session_safety`: record and mirror agree (`MirrorMatches`); when a close
was answered nobody goes on serving the session on an open socket (`NoSurvivor`); an
active record is served (`ActiveIsServed`); the registry does not leak
(`NoLeakedEntry`). `progress`, without failing writes: a close that is
not refused ends every handler past the dial.

`connection_session_online` is violated: see Findings.

Bounds: sessions share only the store's mutex, so one is enough; two tabs and two
closers are the least for one to act between two steps of the other.

### Recording

State: `sessPath` and `savedPath` (the session's `RecordingPath`, in memory and
saved), `item` (path, transcode status and video name of the `offline_sessions`
item), `dir` (at its place, in a deletion's backup, removed), `video` (absent, being
written, whole), `active` (the registry); place and copy of the item for each
transcoding and deletion, `moved` (the backup holds the directory). `raced` and `torn`
are history: operations overlapped, and a deletion could not undo.

Actions: `TranscodeFind`, `TranscodeStart`, `TranscodeLog`, `TranscodeQueue` are the
request, `TranscodeBegin` to `TranscodeFinish` the goroutine; each metadata update
is a read and a save (`UpdateRead`, `UpdateSave`), as in the code. `DeleteCheck`,
`DeleteLog`, `DeleteMove`, `DeleteRead`, `DeleteClear`, `DeleteSession` are
`deleteAuditRecording`, `DeleteUnclear` and `DeleteRestore` its undo, `DeleteCleanup`
its end. `Resync` is any later write of the session, which makes the item anew;
`Restart` includes `reconcileInterruptedRecordingTranscodes`.

`recording_safety` checks `OneTranscode`, `VideoIsWhole`, `RefusedDeleteKeeps` and
`DeleteIsFinal`; `access` checks the last two of the other branch of the
deletion, for recordings of which only the item is left, and `progress` that a
transcoding leaves the registry. `recording_delete` is violated: see Findings.

The last three safety properties except operations that overlap a deletion. Each of
them fails without the exception; the causes are the unlocked check of the finding,
the unlocked read-modify-write of the item, and `restore` of a second failing deletion,
which removes the directory the first one has put back.

Bounds: a transcoding and a deletion touch one recording only, and two of each
include every pairwise overlap, a second transcoding after a first one and a
deletion after a refused one.

### AuthSession

The login sessions of one user (`auth.go`, with `RecordUserLogin`,
`RecordUserLogout` and `UpdatePlatformItem` of the store). `rows` is `auth_sessions`,
`cache` the map of `authManager`; a session is abstracted to its role, the field that
`refreshAuthSession` renews. `handler` has each request's place and local values:
`Login` to `Persist`, `Remember`, `ReadUser`, `WriteUser` (`create` and
`recordUserLoginState`); `Request` to `Load`, `Fill`, `Check`, `PersistRole`,
`RememberRole`, `Serve` (`authSession`), and from there `Others`, `ReadUser`,
`WriteUser`, `Forget`, `DropRow` for a logout, `List`, `DropOther`, `ForgetOthers` for
a password change. Every store operation is a step of its own and may fail
(`MaxFaults`); `Restart` loses the map and the requests; `Edit` and `DeleteUser` are
an administrator. Left out: the credentials, the verification and rollback of the
password, the access MFA grants (their deletion may fail, which `DropRow` and
`DropOther` have) and the legacy administrator without a user record.

`RevokedIsDead`: a token revoked with success is in neither place ever after, unless
somebody else presented it during the revocation. The exception is needed: `delete`
empties the map before it deletes the row, so a request that arrives in between loads
the row and puts the token back into the map. `ServedAsUser`: every request is served
with a role the user had while it ran, unless the user's record could not be read, in
which case the code lets the session stand. `OnlineMatches`: at rest the user's record
says whether a session is left, also after a logout that failed and was undone. Its
exceptions are listed with it; one of them was found by the proof only (below).
Checked with two tokens, two requests at a time, four in all, and one fault; the
module alone also with five requests, and one at a time with seven and two faults.

### The front end's modules

One discipline is common to all of them. JavaScript runs a handler up to its next
`await` without interruption, so that is one step, and what follows the answer is
another one. Requests are members of `reqs` with the values their handler has
captured; answers come in any order and may be failures; the server's part of a
request is a step of its own (several where the Go handler reads, writes and logs
separately). A continuation runs whether or not its view is still there, and its
setState calls then do nothing, while those on the shared context still work.
`issued` and its like count requests against the bound. Variables marked history
are written and never read by actions; properties use them to name the overlaps or
failures after which the code makes no promise.

**Workspace.** `ws` is `app.workspace`, `view` the mounted `WorkspaceView`, `status`,
`closing`, `reconnecting` its state, `conn` the browser's end of each session,
`events` the `onclose` callbacks that are due. `User` is the clicks (connect from
the access portal or the dialog, reconnect, close, leave); `Answer`, `EnterCode`,
`CancelCode` the requests with the MFA prompt they may wait for; `Ready`,
`SocketEnds`, `OnClose`, `ClientEnds`, `TunnelDrops` the connections. `LiveView` is
the abstract specification: a session is attached once, at most one at a time,
the one on the screen. `OneLiveSession` says that `Workspace` implements it, with
`conn` mapped to new, attached or gone. A desktop tunnel that drops is not heard
by the view, so `StatusIsTrue` and `LossIsNoticed` promise of it nothing. Three
sessions and four requests: a connect and a reconnect overlapping a close. In
`progress` two sessions and three requests, and the refinement for all by proof.

**DesktopInput.** `pressed` is `pressedKeysyms`, `held` what `Guacamole.Keyboard`
believes, `down` what the user's fingers do, `remote` what the desktop has
received. Actions are the handlers of `RDPWorkspace`: key down, repeat, up, an up
the page never sees, window key up, mouse down with its modifier check, focus
lost and regained, connect, loss, cleanup. The keyboard and client of the library
are external. Two keys of one modifier, one of another and a letter.

**SignIn.** Server: set-up done, two-factor state, challenges, captchas; browser:
`session` (cookie), `auth` and `me` (application state and the request for it), the
form. `Submit`, `StartPasskeyLogin`, `BackToPassword`, `RefreshCaptcha`,
`ContinueAfterRecoveryCodes`, `Logout`, `TypeUsername`, and the steps of their
requests. Two accounts; without a captcha, with one, and for re-authentication.
`Refuse` is a request the server did not accept or never saw, `LoseAnswer` one it has
acted on and whose answer does not arrive, with or without its cookie; to the page both
are failures. `Reload` drops form, codes and requests at any moment; a request still
under way then was handled before it or is not at all. So an account may be enrolled
without its recovery codes ever on display: `unshown` collects these accounts and
`CodesSeenInTurn` excepts them, and `strayed` is the account whose cookie came with a
lost answer, which `AuthIsSession` excepts: the page learns of that session when it is
loaded again. A successful set-up answer with an empty body, which `api.ts:22` reads as
`{}`, is not told apart from a failure.

**Permissions.** `authorizeAPI` of `rbac.go` and `canUseAPI` of `rbac.ts` over
sequences of tokens, the menu rules, routes and links; `EditRecord`, `AssignRole`
on the server, `AskMe`, `ServeMe`, `TakeMe` the page's copy, `Follow` a link. All
patterns of up to three tokens against all paths of up to five; for all others by
proof. Outside: paths that begin with two slashes, letter case. The properties except
names with adjacent separators (`Plain`: the page makes one underscore of them, the
server one of each, so the two may differ) and a role record that stands for a built-in role by its type (the
page does not know that rule), and hold while the copy is current: `refresh` does
not renew it.

**RecordingRow.** The stored state, registry and job of a transcoding, the row as
loaded, `badge`, polls each second whether or not the last one was answered.
`BadgeSettles` speaks of first transcodings (`retried` notes a start over a stored
state, or over one the badge already shows): a retry over "completed" may be shown
as "failed" because the status handler reads item and registry at two moments.
When another administrator deletes the recording its polls fail for ever, hence
the exception in `WaitsEnd`. Checked with two jobs and one poll under way, and with
one job and two polls.

**RecordingPlayer.** `current` is `recordingRef`, `late` the aborted players that may
still call back; `Respond`, `Fetched`, `Refetch` the state query; `OnLoad`, `OnError`,
`OnProgress`, `Ends`, `SeekDone`, `OnLate` the player's callbacks; `TogglePlayback`,
`Seek`, `Close`, `Revoke`. The callbacks of a seek do not look whether their player
is the current one: that is why `FirstPlayerIsShown` holds only until a video was
shown.

**ConsoleTable.** `PlatformTablePage` with the handler of platform records (`Read`,
`Write` or `Create`, `Log`, `Restore`): rows, selection, one form, one question,
overlapping refreshes, and another administrator. Of the fields it has those that
depend on each other: type, secret, the box that clears it. Three instances: two
records with bulk deletion; one with all of the form; one with an empty field.
`LoseAnswer` takes the answer away at any step of a request, whose handler then goes on
by itself, and `RestoreFails` is the undo that fails as well: in both the page reports an
error and loads nothing. These, a change made elsewhere, a bulk deletion that stopped and
a failed load are what `behind` stands for, until the rows are next served; without them
`RowsShowStored` makes the rows at rest those of the store.
`SavedIsStoredUnlessEmpty` excepts emptied fields, which the merge of the handler
keeps, and `ReportedAreGone` records two handlers worked on: an update or a
restore inserts what was deleted after it was read.

**DataTable.** Filter, pages, sizes, selection, columns. After a change of the rows
the old page number is shown until the effect has run (`pending`); `getSearchText`
is made at each render of the parent, so with a filter on every such render goes
back to the first page. The table library is external. Five rows, three sizes.

**SystemSettings, AccountLists, MfaSection.** Sections are saved as a copy of a whole
item with their own keys set; `fresh`, `keeps`, `refreshes` are what tells their
handlers apart. `SavedIsStored` excepts overlapping saves, which do lose values.
Lists have a busy flag, a reload at the end of every handler, and share one confirm
dialog; passkeys are counted and created in two steps. Two-factor handlers load the
status before they show what they received.

**Approvals.** `Serve` is the handler of a decision or an execution, in the steps
between which another handler may run: read, check, write, run, write the outcome,
log, restore. The page has rows, a dialog and refreshes. One console and three
requests, so that a page meets the requests of its closed dialogs.

**OperationDialogs.** Ten dialogs with one life cycle; records such as
`AssetImport` say where they differ, each read from one component. Four that
between them have every difference are checked together, in one slot.

**TokenDialog.** The effect depends on the context value that its own refresh
replaces, so it runs again: `RunEffectAgain`. `SaveToken`, `LogToken`,
`RestoreGateway` are the handler. Three tokens and two openings. `ShownIsValid`
excepts a run that wrote the row after a later one (`crossed`).

**DnsProviders, FilePanels, AssetDialogs.** A token carries the provider it was typed
for, a text the file it was loaded from, a credential the type and server it was
made for; the properties say that they end there. The update handler of a provider
checks a copy and the store keeps the secret of the row (`raced`). The three file
panels are one module with the parameter `Panel`; they differ in their guards.
The storage dialog has a form to copy and one to rename, the SFTP panel one for both
(`Forms`, `FormOf`). Their source is a field: `TypeSource` edits or empties it and leaves
the overwrite box alone, which can be ticked over an empty source, too. `ticked` is the
file the box was on display for when the user last touched box or source, and
`OverwriteWasTicked` says that entries put into a form and late answers never bring a tick
to another file. The destination is not modelled. The drive panel deletes without a
question (`DeleteDriveEntry`), so `DeletedWereConfirmed` speaks of the other two.
A save of `ServerDialog` is two requests, of which the second may fail.

## Fairness

Only steps that the process or the browser takes by itself are fair: goroutines and
handlers go on, deadlines and the ticker fire, a live agent makes its next call,
a queued event or an answered request is handled, a timer polls. Nobody has to
dial, connect, claim, close, edit or ask for a run, no server owes a view success,
and neither crash nor restart need happen. In detail:

- relay: dial, finish, the server's goroutines and the agent's steps. `Manager.Dial`
  waits under a deadline.
- connection sessions: the steps of a handler up to the dial and from it on, and the
  close. The ssh handshake and guacd's have no deadline, so the dial itself is not
  fair and `ClosesComplete` speaks of handlers past it.
- scheduler: scans, the goroutines of runs.
- recordings: the steps of a transcoding, which runs under a timeout.
- workspace: the `onclose` of a socket that has ended.
- dialogs and player: a request is answered, with success or failure, and its
  continuation runs; the player ends its loading in one way or the other.
- row: polls are sent and answered. Any single poll may be lost, so that one of them
  is read, and returns with an answer, is strongly fair: a network that loses every
  poll shows nothing of the code.

`MCProgress` states these as one conjunction, `PartsFairness`: `FairStep(n)` is the
nth fair action of whichever part moves, and since `showing` never changes,
fairness of that disjunction is fairness of the action of the part.

`CHECK_DEADLOCK FALSE` stands in the models of sessions, recordings and views:
requests are bounded, and when all of them are answered the system rests.

## What is proved

By induction; liveness stays with TLC. Of every module a theorem states its properties for
every value of the constants. Every safety invariant and action property that a passing
run checks is a theorem of the specification it checks, so that it holds in behaviours of
any length; `OneLiveSession`, which `progress` checks, is one of `Workspace` alone.

`ServerProofs` extends `ConnectionSession`, `Scheduler` and `AgentRelay`. The definitions
of the last two that would meet others of the same name therefore begin with `Scheduler`
and `Relay`.

*Agent relay*, from `RelayAssumption` (each worker has a gateway): `RelayInvariant`
shows that `RelayIInv` of `AgentRelay` is inductive. It adds `DialOrder`, what the phases of
dial, finish and agent imply for each other. The heart is that nothing can start
finish while Dial writes "connected": the agent can only fail a tunnel before it is
ready, streams need the ready answer, which waits for `connected`, and the timeout and
the ready value exclude each other. `QueueOrder` adds that queued tunnels have not
been answered. The six safety properties and `TypeOK` follow
(`RelaySingleLogWriter`, `RelayFinalLogStands`, `RelayNoResidue`, `RelayQueueSound`,
`RelayNoLostWakeup`, `RelayHandshakeOrder`, `RelayTypes`). Lemmas on `RemoveAt` and on
the queue without a tunnel carry the part about sequences.

*Connection sessions*, from `WritesFailAssumption`: `NoSurvivor` is not inductive. A
handler registers before it checks the record, a closer closes the record before it
empties the registry; so a handler is in the registry when it is emptied, or finds
the record closed. `Registered`, `ClosedRecord` and `Cut` say this step by step,
`MadeFirst` and `TakenShape` what holds of sessions and closers before they begin.
Theorems: `SessionTypes`, `RecordAndMirrorAgree`, `DisconnectIsComplete`,
`ActiveSessionsAreServed`, `NoEntryLeaks`.

*Scheduler*, from `SchedulerAssumption` (among it that there is a task: the
initial state names one of them for each execution). `ScheduledExclusive` is inductive with the types (`RunsExclude`), and
`StopIsFinal` follows from `StopOrder`: Stop returns when the scheduler is done
(`StopEndsStarts`). `RunningRowOwned`, `EffectLogged` and `OutcomeStands` are not
inductive, because a log cleanup that cannot log itself writes its snapshot over
the rows of other runs. `LogInv` says what a row can say at each step of its run
(`RowFollowsRun`, `ResultFollowsRun`), that a snapshot holds rows that exist and no
outcome of a run that has not finished (`SnapshotIsOlder`), and that a run which
logged says `running` only after a failed write (`NoLongerRunning`,
`LoggedBeforeState`). Theorems: `SchedulerTypes`, `RunsExclude`, `StopEndsStarts`,
`RunningRowsAreOwned`, `EffectsAreLogged`, `OutcomesStand`.

`AccessProofs` holds what is proved of the parts of `MCAccess`. It extends `Recording`,
`Workspace` and `DesktopInput`, whose definitions therefore have names of their own, and
instantiates `AuthSession`.

*Recordings*, from `HasSessionAssumption`: `RecordingTypes`, and `TranscodingsExclude`
for `OneTranscode`, which is inductive together with the types. `RegistryStep` is the
argument: a step of a transcoding takes the registry when it is free, keeps it, or
gives it back, and no other step touches it. Deletions do not take the registry,
they look at it once. `DeleteInv` follows a deletion that overlaps nothing: it is
`Alone`, it finds the directory at its place or in its own backup (`Moves`), every
part of the recording is in place or held by the deletion that can put it back
(`Kept`), and what an answered one has cleared stays so, although a transcoding that
had found the recording before saves its copy (`Cleared`, `Deleted`). `VideoInv` adds
that an item which says completed names its video and tells of it as it is, in each
copy somebody may still save (`AllNamed`, `Whole`). Theorems: `DeletesAreFinal`,
`RefusedDeletesKeep`, `OfferedVideosAreWhole`.

*Workspace*, from `BoundsAssumption`: `WorkspaceIsLiveView`, the refinement. `LinkInv`
says that sessions are created in order and that only the one on the screen is live;
`ShowAttaches`, `HideDismisses`, `EndDrops`, `LiveStays` give the abstract step of each
kind of concrete step. `StatusIsTrue` and `BusyIsTrue` need more (`ViewInv`): views are
numbered in the order they are mounted, so a late answer or onclose belongs to this
view or to an earlier one (`ViewOrder`); and while a view has kept its session, no
onclose of an earlier session of it is due, nor of the one shown once that is
disconnected or being reconnected (`StatusFollows`): otherwise the onclose of the old
socket would show the new session as disconnected. Theorems: `WorkspaceTypes`,
`ViewsTellTheStatus`, `ButtonsTellTheRequests`.

*Desktop keys*, from `KeysOfAssumption`: `KeysAreReleased` for `NothingHeldAway`.
`KeysInv` adds that no key is down that the page has forgotten, that the keyboard
holds nothing while it has no focus (a repeat would press a key again), and that a
client not connected yet, or cleaned up while connected, has left nothing down.

*Login sessions*, from `ConstantsOK` (the mark "none" is no token and no role):
`RevokedIsDead` needs `RevokeInv`. Entry and row of a token are gone when it counts as revoked (`EndsInOrder`), nobody else holds it then (`AloneIsTrue`), and
whoever presents it later finds neither (`DeadStays`); `Shape` and `DrawnOnce` say
which request can be at which step and that no token is drawn twice. `RoleInv`, for
`ServedAsUser`: a request has seen every role its user had since it arrived, and from
its check on acts with one of them. `StepDoes` is what these invariants need to know
of a request's step, so that each of them meets one case and not eighteen.
`OnlineMatches` speaks of the system at rest and needs `OnlineInv` in between. Unless
excused, a request that writes the user's record is alone (`WritersAlone`) and its copy
is the record (`CopyIsUser`); a row whose token was not given out is that of a login
under way (`RowsAreGiven`); a logout that found no other session has left none unseen,
and one that found one leaves one (`OthersSeen`); of a user who is offline nothing is
left, neither row nor entry nor a request that could bring one back (`OfflineIsOut`),
except while the logout that wrote this still deletes its own or is being undone; and a
user whose tokens were all revoked is offline (`OutIsOffline`). `OnlineStep` is what a
step of a request does to these. Theorems: `AuthTypes`, `EndedTokensStayDead`,
`RequestsAreServedAsTheUser`, `OnlineIsRecorded`.

Two attempts failed for a reason. The one to prove `AuthTypes` showed a flaw of the
model: an action gave each request's new local state by a CASE of which two arms could
both be true, and TLA+ does not say which of them is chosen, while TLC takes the first.
It is an IF now. The arms of the other CASEs of the project exclude each other. The one
to prove `OnlineMatches` showed that it was false beyond the bounds of its run (six
requests and a fault are needed). A password change that fails in
`deleteUserSessionsExcept` after it has deleted rows leaves their tokens in the map
alone; `hasOtherUserSession` looks only into the store, so a logout finds no other
session and records the user as offline; and a request with such a token, after a change
of the user's role, has its row saved again. `Others` now notes a token that only the
map knows (`excused`), and `OnlineMatches` excepts it, as it does the other failures the
code does not handle.

`AccessPagesProofs` takes the pages of `access`, each from the `ConstantsOK` of its module.

*Row of a recording* (`RowInv`): what the badge shows is seldom the stored state, and the
two must meet in the end. The invariant follows the first transcoding of the row: nobody
has started one, the page waits for the answer to its start, or it follows the one that
was started. In the last case an end on display is the stored one, or the page loads
the row again and will see a state it does not know (`RowFollows`). `RowStart` and `RowJob`
tie button, registry, job and stored state together, `RowGone` says that a deleted
recording stays away, `RowCount` that a number is left for every request. Theorems:
`RowsSettle`, and `BadgesGoForward` for the action property.

*Player* (`PlayerInv`): what the overlays tell while the first player is there
(`PlayerTold`), that none is there while the state of the recording is unknown
(`PlayerPending`), and that its video is (`PlayerVideo`). Theorem: `PlayersAreShown`.

*Signing in* (`FlowInv`): the user on display is the session's because there is one flow at
a time unless two overlapped (`FlowAlone`), because of what the gates let through
(`FlowGates`) and of which request's answer the page waits for (`FlowBusy`); a captcha can be
used because its number was given once and is spent once (`FlowBook`, `FlowCaptcha`).
An answer that is lost, and a reload, drop requests or make them failures; the invariant
adds which accounts and sessions these leave behind (`unshown`, `strayed`).
Theorem: `SignInsAreTrue`.

*Permissions* (`PermInv`): the rules are written twice and are not the same text, so most
of the proof is about the operators. The page cuts two tokens of `/*` and adds a slash,
the server cuts one: the same prefix (`CutsAgree`, `PatternsAgree`). The server trims a
path to nothing and the page to `/`: no path is trimmed that far (`TrimmedPath`), and a
pattern that is matches nothing that begins with a word (`OneSlash`). Collapsing leaves a
name without adjacent separators as it is (`PlainStays`), keeps a separator in any other
(`SeparatorStays`), and the canonical name of a built-in role is of its own kind
(`CanonicalStays`, `KindOfCopy`). With these a request is offered to a current copy just when
it is allowed (`GrantsAgree`, `PermOffered`, `PermAllowed`). A link leads to its page
because link and gate ask the same question, and each console page has a route of its own
(`LinksPass`); the invariant adds that the copy on its way is one the server answers and that
the route on display passes the gate. Theorem: `PermissionsAgree`.

`MCAccessProofs` composes these with `AccessProofs`, as `DialogsProofs` does (below):
`AccessInv` says that the part on display has its invariant, at the constants of its
instance (`AccessConstants`, `PartsFit`). So every property of `access` is a theorem of the
specification it checks: `AccessTypes`, `SignInHolds`, `OffersHold`, `ViewsHold`,
`BadgesNeverGoBack`, and `KeysStayReleased` for `NothingHeldAway`.

The attempt to prove `BadgeSettles` showed it to be false beyond the bounds of its run
(with four starts). A restart of the service ends a transcoding whose start the page has
been told of, and with it the badge's polls; a second start then runs over a state the
badge already shows, and the status handler's two reads, item and registry, let the
page take the end of the one for the end of the other. A start over a state that the badge
shows, and not only over a stored one, counts as `retried` now.

`DialogPagesProofs` takes each dialog and panel for every value of its constants, from
the `ConstantsOK` of its module. A theorem is there for each part of the properties of
`dialogs`, and each needs an invariant about what is under way.

*Orders*: the copy a handler acts on is one it may act on
(`CopiesFit`, from which `ExecutedWasApproved` follows); while nothing has raced one
handler holds the order and its copy is the order until it writes (`InTurn`); a
page's fetch has seen, or will see, the writes of the requests that wait for it or no
longer wait (`Seen`); and the statement has run no more often than requests were sent,
by a count of the handlers that may still run it (`RunsCounted`). Theorems:
`ApprovalTypes`, `OnlyApprovedOrdersRun`, `OrdersRunOnceInTurn`,
`OrdersAreShownAsTheyAre`, and the action property `SettledOrdersStay`.

*Registration token* (`TokenInv`): runs of the effect are numbered as they are issued,
and the one that was not abandoned is the newest (`TokenNumbers`); what is on display
follows from how far that run has come (`TokenProgress`); and the gateway's row holds
no token that is newer than it, but for the write that crosses (`TokenNewest`).
Theorems: `ShownTokensWork`, `LateTokensAreIgnored`.

*Operation dialogs* (`OpInv`): `ResultIsOwn` needs requests and dialogs to be numbered
apart, and that the request of a dialog that saves is its last one and keeps its button
disabled (`OpNumbers`); for the rows, which writes the fetch under way has seen
(`OpFresh`). Theorems: `ResultsBelongToTheirDialog`, `DialogsSaveInTurn`.

*DNS providers* (`DnsInv`): a token typed in the form is the row's being edited, and
every request carries the id its token was typed for (`DnsTokens`); while nothing has
raced a handler's copy is the row (`DnsCalm`). Theorems: `TokensStayWithTheirProvider`,
`SecretsFitTheirService`.

*File panels* (`FilesInv`): the properties are inductive together, once it is known that
only the storage dialog has a path typed by hand. What the steps do to one form of one or
two is said once for each (`FileActions`, `FilesForm`). Theorems: `TextsStayWithTheirFile`,
`FilesGoWhereShown`.

*Asset dialogs* (`AssetInv`): a save makes two records in two requests, and the first may
be taken back. `AssetSettled` says of which number no request can make a record any
more; stored servers differ in it (`AssetServers`), what a request has done so far is in
the store (`AssetStored`), what was reported can no longer be taken back
(`AssetReported`), and somebody answers for each server the list does not show yet
(`AssetListed`). Theorems: `AddedAssetsAreStored`, `CredentialsFitTheirServer`.

`ListPagesProofs` does the same for the pages of `lists`.

*Settings* (`SysInv`): a section is found as it was saved because, as long as requests
do not overlap, its values are in one item, one in which it looks for them
(`SysStoreOK`), and every copy that is written back is the item as it is (`SysAlone`).
That the items can be numbered needs the saves under way counted (`SysCount`), and that
the retention settings stay apart from the other sections holds of every copy and every
list sent, raced or not (`SysHeld`, `SysOlder`). Theorem: `SettingsAreTrue`.

*Account lists* (`AcctInv`): a list has one handler at most (`AcctAlone`); a list that is
not stale has one request at most, and that one was answered what the server has
(`AcctFresh`); who has counted the passkeys and not yet created one is alone, and there
is room for one more (`AcctLimit`). Theorems: `AccountListsAreTrue`,
`OnlyConfirmedKeysGo`.

*Two-factor section* (`MfaInv`): undisturbed, there is one request, and `MfaHandler` says
for each operation and phase what display and server hold. Theorem: `MfaPanelIsTrue`.

*Console table and form* (`RecInv`): a record that one handler works on is as this handler
has left it (`RecFits`, `RecPairs`); a record reported as deleted, or one a bulk deletion
is done with, is gone and in nobody's hands (`RecGone`); the rows at hand, and an answer
under way, differ from the store only in records some request will load again
(`RecRows`), until something leaves the page behind; a lost answer gives the record to a
handler nobody waits for, as another administrator's would be; and a request never wants a
secret both set and cleared (`RecWish`), since the form does not. Theorems: `RecordPagesAreTrue`, `RecordsGoAsAsked`.

*Data table* (`TableInv`): the first row of the page is a row of the data, and after the
effect one the filter finds. The lemmas on pages rest on `SetPlaces`: counting the
smaller elements numbers a finite set of naturals from 0 without a gap. Theorems:
`TablePagesAreTrue`, `TableClicksAreLocal`.

`DialogsProofs` and `ListsProofs` compose them: `MCDialogs` and `MCLists` show one page,
and their invariant says that it has the invariant of its page, proved there for every
value of the constants and used at the constants of the instance
(`DialogsConstants`, and its like in `ListsProofs`, check these against `ConstantsOK`).
So every property of the runs `dialogs` and `lists` is a theorem of the specification the
run checks, about behaviours of any length: `DialogTypes`, `DialogsActAsAsked`,
`DialogsShowTheirOwn`, `DialogsActOneAtATime`, `DialogRecordsFit`, `DialogsDoNotGoBack`;
`ListTypes`, `PagesShowStored`, `ReportsAreTrue`, `ButtonsAreTrue`, `PagesChangeAsAsked`.

Modules were changed for the proofs. `FilePanels`, `SignIn` and `RecordingPlayer`
allowed no request or player at all (a bound of 0), at which their type invariant is
false, and `AccountLists` an infinite set of keys, whose number is no number: these are
excluded by `ConstantsOK` now. `RecordingRow` has the exception above. The `ConstantsOK` of
`Permissions` says what its constants are: sequences of tokens, paths that begin with a
word, console pages with routes of their own (`router.tsx`). Its names and patterns are
matched without recursion, and the initial states of `ConsoleTable` and `SystemSettings`
are written as sets of records.

Proved only, and by no run: the type invariants of `AgentRelay`, `Scheduler`,
`ConnectionSession` and `Recording`, and `QueueSound`.

Only model-checked: `DueTaskRuns`, `WaitsEnd`, `ClosesComplete` and `LossIsNoticed`. They are
liveness properties under fairness, which is out of the prover's reach. The three runs
that expect a violation are about what the code does not keep.

## Findings

`connection_session_online`. `Runner.Run` (and `RunDesktop`) make the record active when
the target answers, whatever its status is by then. A session closed during the dial
is online again after the disconnect was answered, until its handler notices the
closed socket. The disconnect test of `app_test.go` expects it offline.

`recording_delete`. `deleteAuditRecording` looks at the transcode registry and renames
the directory some steps later. A transcoding that registers in between loses its
directory, and what it then saves can bring the cleared path back to the item. The
transcoding test of `app_test.go` expects a deletion during a transcoding to be refused.

`mfa_codes`. `enableMFA` loads the status before it displays the recovery codes it has
received; when that request fails they are lost, and the account is enabled with
codes nobody has seen. The panel's text says that they are shown once.

Met on the way, and visible in the models as exceptions of a property. They are not
stated as runs of their own since each of them needs an overlap or a failure about
which neither document nor test says anything:

- Two administrators decide one order: the second write replaces the first one's
  decision, which was answered with success (`AnsweredDecisionKept`).
- The effect of the token dialog runs again after its own refresh and replaces the
  token: one copied in between is refused by the gateway (`ShownIsValid`).
- A DNS provider's type is checked on a copy, the secret kept from the row: after
  two overlapping updates a secret may be of another service (`SecretFitsUnlessRaced`).
- Passkeys are counted and created in two steps, so two verifications may exceed the
  limit (`PasskeyLimitInTurn`).
- An emptied field keeps its stored value, and a deleted record comes back when an
  update or a restore of it was under way (`SavedIsStoredUnlessEmpty`, `ReportedAreGone`).
- With two sign-ins under way the second one's end takes the console over while the
  recovery codes of the first are on display (`CodesSeenInTurn`).
- A forced enrolment is stored (`mfa.go:138`) before the answer with the codes is sent
  (`mfa.go:211`). When that answer is lost, a later step fails and the account cannot be
  restored (`restoreMFASnapshotAfterFailure`), or the page is loaded again while the codes
  are shown, the account is enrolled and its codes, "shown once" (`auth-page.tsx:283`),
  are never seen (`CodesSeenInTurn`). With the cookie of a lost answer the next load of
  the page is signed in although the form reported a failure (`AuthIsSession`).
- A save or deletion whose answer is lost, or whose undo fails (`platform.go:232`, `:280`,
  `:310`), is reported as an error by a page that keeps its rows (`platform-page.tsx:776`,
  `:815`, `:837`), and the store has others (`RowsShowStored`).
- Editing the source of a copy or a rename keeps the tick to overwrite
  (`workspace-view.tsx:711`, `platform-page.tsx:3341`, `:3354`), and the drive panel
  deletes without asking (`workspace-view.tsx:938`), unlike the other two.
- The status handler of a transcoding reads item and registry at two moments, and
  reports a job that ends in between as failed (`BadgeSettles`).
- A request that arrives while its session is being logged out can put the token back
  into the map, where it is accepted until it expires or the process ends
  (`RevokedIsDead`). Two logouts of one user at the same time leave the user online,
  and a login or logout writes the whole user record back, over an edit made
  meanwhile. A session that a failed password change left in the map alone is not seen
  by a logout, which records the user as offline (`OnlineMatches`).
- Settings sections that share an item lose values to overlapping saves
  (`SavedIsStored`).

## Hazards without a property

Some are not modelled yet: the lock decided on a copy of the failure count
(`login_security.go:205`), one-time states read and then deleted (`auth.go:404`), the
rollback of a restored database under other writes (`backup_ops.go:261`).

Of the others the code promises nothing that a property could state, and the
properties nearest to them have an exception:

- An agent that dies after `Dial` took its ready value and before it opens a stream
  leaves an open connection that only its user can end (`manager.go:195`);
  `LossIsNoticed` begins with the first stream.
- The ssh and guacd handshakes have no deadline (`session.go:477`, `tunnel.go:430`);
  `ClosesComplete` speaks of handlers past the dial.
- `scan` acts on the copies it listed (`scheduler.go:97`): a task that finished, was
  disabled or rescheduled since then is run once more. The model does so too.
- Nothing at start reconciles relay rows at "requested" or "connected"
  (`manager.go:339`), sessions left in `online_sessions` (`store.go:742`) or an archive
  whose log row was not written (`scheduled_tasks.go:676`).
- Of two overlapping deletions of a recording that both fail, the one that found no
  directory removes the one the other has put back (`resource_ops.go:2456`);
  `RefusedDeleteKeeps` excepts overlapping deletions.

## Bounds

Each module has its reasons above. In general two actors of a kind are the least for
one to act between two steps of the other, and most actions touch one record,
so a second record is there where a question, a selection or a form may mean the
wrong one. Requests are bounded per behaviour (`MaxRequests` and its like): two to
five, so that an operation of the user, one that was left behind and a refresh
overlap. Histories and counters grow only with requests.

## Not modelled

Bytes, encryption, signatures, formatting and validation of fields; the protocols of
remote services (ACME, LDAP, OIDC peers, notification channels); start-up wiring;
vendored and generated code. Of the front end: translations (`resources.ts` is data),
themes and layout, the pages that display loaded data (home, overview, audit and
session lists, monitoring, tools), the clipboard, terminal rendering, transfer
progress, the change of a password, the licence, backups. `PROJECT.json` has a line
for each component.

## Plan

1. Server side of login: `LoginGuard` (the lock decided on a copy of the failure
   count, `login_security.go:205`), `OneTimeState` (`auth.go:404`: challenges, codes and
   tickets consumed once, restored when a token cannot be issued) as an abstract
   one-shot cell that its users refine.
2. `Restore` (`backup_ops.go:261`), and what a crash leaves: relay log rows at
   "connected", sessions in `online_sessions`, an archive without its log row.
3. `GatewayRoute` (selection, cooldown, failover, heartbeats) with the desktop relay,
   composed with `AgentRelay` through an abstract dial that `AgentRelay` implements.
4. Pure algorithms against reference definitions: cron's next run, the terminal's
   command filter, authorization matching.
5. Process and listener managers: guacd, ssh gateway, proxies; storage quota.
6. Proofs: the safety of each new module in the same way, from its `ConstantsOK`.
