------------------------------ MODULE MCAccess ------------------------------
(* Who is let in, the server's login sessions, what the pages then offer,  *)
(* the sessions that a user opens there and their recordings, for TLC.  As *)
(* in MCLists, one of these parts is on display at a time; the desktop     *)
(* input, which is proved about as well, keeps its own variables.          *)
EXTENDS DesktopInput, Naturals, Sequences

VARIABLES
  showing,  \* the page on display
  ws, view, closing, reconnecting, created, kind, owner, conn, events, replaced,
  sessPath, savedPath, item, dir, video, active, jpc, jcopy, dpc, dcopy, moved, raced,
  torn,
  recording, running, job, persisted, present, badge, transcoding, asking, load, steps,
  retried, missed,
  stored, query, fetching, canRead, open, current, late, aborted, made, loading, error,
  playing, duration, hadVideo,
  cache, rows, expired, user, handler, drawn, given, started, faults, revoked, excused,
  configured, mfa, tokens, spent, session, known, path, mount, username, challenge,
  captcha, codes, submitting, passkey, enrolled, seen, overlap, unloaded, unshown, strayed,
  record, role, edits, location,
  status, reqs, issued, auth, me

MCKeys == {"a", "altL", "altR", "shift"}
MCModifiers == {"alt", "shift"}
MCKeysOf == [m \in MCModifiers |-> IF m = "alt" THEN {"altL", "altR"} ELSE {"shift"}]

(* Every pattern of up to three tokens, with a method or none, and the     *)
(* permissions that are words.                                             *)
Patterns == UNION {[1 .. n -> {"/", "a", "*"}] : n \in 1 .. 3}
AllGrants ==
  {[method |-> m, pattern |-> p] : m \in {"", "GET"}, p \in Patterns \cup {<<"/", "a", "/", "*">>, <<"/", "a", "/", "a">>}} \cup
  {[method |-> "*", pattern |-> p] : p \in {<<"/", "api", "/", "*">>, <<"/", "a", "/", "*">>}} \cup
  {[method |-> "", pattern |-> p] : p \in {<<"admin", ":", "*">>, <<"audit", ":", "read">>}}
SomeGrants == {[method |-> "", pattern |-> <<"/", "a">>]}

ServicePaths ==
  {<<"/", "api", "/", "system", "/", "monitoring">>, <<"/", "api", "/", "bootstrap">>, <<"/", "api", "/", "audit", "/">>,
   <<"/", "api", "/", "admin", "/", "audit">>, <<"/", "api", "/", "admin", "/", "audit", "/", "a">>,
   <<"/", "api", "/", "access", "/", "a">>, <<"/", "api", "/", "connections", "/", "a", "/", "ws">>}

(* Every path that begins with a word, as the page's do; a record without  *)
(* an id gives one with two slashes.                                       *)
AllPaths == {<<"/", w>> \o p : w \in {"a", "b"}, p \in UNION {[1 .. n -> {"/", "a", "b"}] : n \in 0 .. 3}} \cup ServicePaths

AllMenus ==
  UNION {[1 .. n -> {"assets", ":", "read", "*"}] : n \in 1 .. 2} \cup {<<"assets", ":", "read">>, <<"assets", ":", "*">>, <<"assets", "read", "*">>} \cup
  {<<"admin", ":", "*">>, <<"/", "app", "/", "*">>, <<"tools", ":", "read">>}

Names == {<<>>, <<"ops">>, <<"team">>, <<"other">>, <<"user">>, <<"audit">>, <<"administrator">>,
          <<"super", "-", "admin">>, <<"super", " ", "admin">>, <<"super", "-", " ", "admin">>}
FewNames == {<<"ops">>, <<"audit">>, <<"super", "-", " ", "admin">>}
Types == {<<"team">>, <<"admin">>, <<"auditor">>, <<"user">>}

AllPages ==
  {[collection |-> <<"assets">>, route |-> <<"/", "app", "/", "assets">>, kind |-> <<>>],
   [collection |-> <<"assets", "read">>, route |-> <<"/", "app", "/", "assets", "read">>, kind |-> <<"tools">>],
   [collection |-> <<"login", "_logs">>, route |-> <<"/", "app", "/", "login">>, kind |-> <<>>],
   [collection |-> <<"access_stats">>, route |-> <<"/", "app", "/", "stats">>, kind |-> <<"monitor">>]}

Session == INSTANCE Workspace
  WITH MaxSessions <- 3, MaxRequests <- 4
Platform == INSTANCE Recording
  WITH Jobs <- {"j1", "j2"}, Deletes <- {"d1"}, HasSession <- FALSE
Row == INSTANCE RecordingRow
  WITH MaxStarts <- 2, MaxPolls <- 1
SlowRow == INSTANCE RecordingRow
  WITH MaxStarts <- 1, MaxPolls <- 2
Player == INSTANCE RecordingPlayer
  WITH MaxPlayers <- 3
Server == INSTANCE AuthSession
  WITH Tokens <- {"t1", "t2"}, Handlers <- {"h1", "h2"}, Roles <- {"admin", "user"},
       MaxRequests <- 4, MaxFaults <- 1
Flows == INSTANCE SignIn
  WITH Accounts <- {"a", "b"}, Captcha <- FALSE, Reauth <- FALSE, MaxRequests <- 5
Again == INSTANCE SignIn
  WITH Accounts <- {"a", "b"}, Captcha <- FALSE, Reauth <- TRUE, MaxRequests <- 4
WithCaptcha == INSTANCE SignIn
  WITH Accounts <- {"a", "b"}, Captcha <- TRUE, Reauth <- FALSE, MaxRequests <- 4
Api == INSTANCE Permissions
  WITH Grants <- AllGrants, Menus <- {}, RoleNames <- FewNames, TypeNames <- Types,
       Paths <- AllPaths, Methods <- {"GET", "POST"}, Pages <- {}, MaxEdits <- 1
Menu == INSTANCE Permissions
  WITH Grants <- SomeGrants, Menus <- AllMenus, RoleNames <- Names, TypeNames <- Types,
       Paths <- ServicePaths, Methods <- {"GET", "POST"}, Pages <- AllPages,
       MaxEdits <- 1

ASSUME AccessAssumption ==
  /\ Row!ConstantsOK /\ SlowRow!ConstantsOK /\ Player!ConstantsOK /\ Server!ConstantsOK
  /\ Flows!ConstantsOK /\ Again!ConstantsOK /\ WithCaptcha!ConstantsOK /\ Api!ConstantsOK
  /\ Menu!ConstantsOK

(* What only one page has, and that it is not there: a variable that the   *)
(* page on display does not have is Off.                                   *)
Off == "off"
onlySession ==
  <<ws, view, closing, reconnecting, created, kind, owner, conn, events, replaced>>
NoSession ==
  /\ ws = Off /\ view = Off /\ closing = Off /\ reconnecting = Off /\ created = Off
  /\ kind = Off /\ owner = Off /\ conn = Off /\ events = Off /\ replaced = Off
onlyPlatform ==
  <<sessPath, savedPath, item, dir, video, active, jpc, jcopy, dpc, dcopy, moved, raced,
    torn>>
NoPlatform ==
  /\ sessPath = Off /\ savedPath = Off /\ item = Off /\ dir = Off /\ video = Off
  /\ active = Off /\ jpc = Off /\ jcopy = Off /\ dpc = Off /\ dcopy = Off
  /\ moved = Off /\ raced = Off /\ torn = Off
onlyRow ==
  <<recording, running, job, persisted, present, badge, transcoding, asking, load,
    steps, retried, missed>>
NoRow ==
  /\ recording = Off /\ running = Off /\ job = Off /\ persisted = Off
  /\ present = Off /\ badge = Off /\ transcoding = Off /\ asking = Off /\ load = Off
  /\ steps = Off /\ retried = Off /\ missed = Off
onlyPlayer ==
  <<stored, query, fetching, canRead, open, current, late, aborted, made, loading,
    error, playing, duration, hadVideo>>
NoPlayer ==
  /\ stored = Off /\ query = Off /\ fetching = Off /\ canRead = Off /\ open = Off
  /\ current = Off /\ late = Off /\ aborted = Off /\ made = Off /\ loading = Off
  /\ error = Off /\ playing = Off /\ duration = Off /\ hadVideo = Off
onlyServer ==
  <<cache, rows, expired, user, handler, drawn, given, started, faults, revoked, excused>>
NoServer ==
  /\ cache = Off /\ rows = Off /\ expired = Off /\ user = Off /\ handler = Off
  /\ drawn = Off /\ given = Off /\ started = Off /\ faults = Off /\ revoked = Off
  /\ excused = Off
onlySignIn ==
  <<configured, mfa, tokens, spent, session, known, path, mount, username, challenge,
    captcha, codes, submitting, passkey, enrolled, seen, overlap, unloaded, unshown,
    strayed>>
NoSignIn ==
  /\ configured = Off /\ mfa = Off /\ tokens = Off /\ spent = Off /\ session = Off
  /\ known = Off /\ path = Off /\ mount = Off /\ username = Off /\ challenge = Off
  /\ captcha = Off /\ codes = Off /\ submitting = Off /\ passkey = Off
  /\ enrolled = Off /\ seen = Off /\ overlap = Off /\ unloaded = Off
  /\ unshown = Off /\ strayed = Off
onlyPermissions ==
  <<record, role, edits, location>>
NoPermissions ==
  /\ record = Off /\ role = Off /\ edits = Off /\ location = Off
state ==
  <<showing, inputVars, onlySession, onlyPlatform, onlyRow, onlyPlayer, onlyServer,
    onlySignIn, onlyPermissions, status, reqs, issued, auth, me>>

(* The page on display starts afresh. *)
PageInit ==
  \/ /\ showing = "desktop" /\ InputInit
     /\ NoSession /\ NoPlatform /\ NoRow /\ NoPlayer /\ NoServer /\ NoSignIn
     /\ NoPermissions /\ status = Off /\ reqs = Off /\ issued = Off /\ auth = Off
     /\ me = Off
  \/ /\ showing = "workspace" /\ Session!Init /\ InputInit
     /\ NoPlatform /\ NoRow /\ NoPlayer /\ NoServer /\ NoSignIn /\ NoPermissions
     /\ auth = Off /\ me = Off
  \/ /\ showing = "platform" /\ Platform!RecordingInit /\ InputInit
     /\ NoSession /\ NoRow /\ NoPlayer /\ NoServer /\ NoSignIn /\ NoPermissions
     /\ status = Off /\ reqs = Off /\ issued = Off /\ auth = Off /\ me = Off
  \/ /\ showing = "row" /\ Row!Init /\ InputInit
     /\ NoSession /\ NoPlatform /\ NoPlayer /\ NoServer /\ NoSignIn /\ NoPermissions
     /\ issued = Off /\ auth = Off /\ me = Off
  \/ /\ showing = "slow row" /\ SlowRow!Init /\ InputInit
     /\ NoSession /\ NoPlatform /\ NoPlayer /\ NoServer /\ NoSignIn /\ NoPermissions
     /\ issued = Off /\ auth = Off /\ me = Off
  \/ /\ showing = "player" /\ Player!Init /\ InputInit
     /\ NoSession /\ NoPlatform /\ NoRow /\ NoServer /\ NoSignIn /\ NoPermissions
     /\ status = Off /\ reqs = Off /\ issued = Off /\ auth = Off /\ me = Off
  \/ /\ showing = "server" /\ Server!Init /\ InputInit
     /\ NoSession /\ NoPlatform /\ NoRow /\ NoPlayer /\ NoSignIn /\ NoPermissions
     /\ status = Off /\ reqs = Off /\ issued = Off /\ auth = Off /\ me = Off
  \/ /\ showing = "signin" /\ Flows!Init /\ InputInit
     /\ NoSession /\ NoPlatform /\ NoRow /\ NoPlayer /\ NoServer /\ NoPermissions
     /\ status = Off
  \/ /\ showing = "reauth" /\ Again!Init /\ InputInit
     /\ NoSession /\ NoPlatform /\ NoRow /\ NoPlayer /\ NoServer /\ NoPermissions
     /\ status = Off
  \/ /\ showing = "captcha" /\ WithCaptcha!Init /\ InputInit
     /\ NoSession /\ NoPlatform /\ NoRow /\ NoPlayer /\ NoServer /\ NoPermissions
     /\ status = Off
  \/ /\ showing = "api" /\ Api!Init /\ InputInit
     /\ NoSession /\ NoPlatform /\ NoRow /\ NoPlayer /\ NoServer /\ NoSignIn
     /\ status = Off /\ reqs = Off /\ issued = Off
  \/ /\ showing = "pages" /\ Menu!Init /\ InputInit
     /\ NoSession /\ NoPlatform /\ NoRow /\ NoPlayer /\ NoServer /\ NoSignIn
     /\ status = Off /\ reqs = Off /\ issued = Off

notSession ==
  <<inputVars, onlyPlatform, onlyRow, onlyPlayer, onlyServer, onlySignIn, onlyPermissions,
    auth, me>>
notPlatform ==
  <<inputVars, onlySession, onlyRow, onlyPlayer, onlyServer, onlySignIn, onlyPermissions,
    status, reqs, issued, auth, me>>
notRow ==
  <<inputVars, onlySession, onlyPlatform, onlyPlayer, onlyServer, onlySignIn,
    onlyPermissions, issued, auth, me>>
notPlayer ==
  <<inputVars, onlySession, onlyPlatform, onlyRow, onlyServer, onlySignIn, onlyPermissions,
    status, reqs, issued, auth, me>>
notServer ==
  <<inputVars, onlySession, onlyPlatform, onlyRow, onlyPlayer, onlySignIn, onlyPermissions,
    status, reqs, issued, auth, me>>
notSignIn ==
  <<inputVars, onlySession, onlyPlatform, onlyRow, onlyPlayer, onlyServer, onlyPermissions,
    status>>
notPermissions ==
  <<inputVars, onlySession, onlyPlatform, onlyRow, onlyPlayer, onlyServer, onlySignIn,
    status, reqs, issued>>
notDesktopInput ==
  <<onlySession, onlyPlatform, onlyRow, onlyPlayer, onlyServer, onlySignIn,
    onlyPermissions, status, reqs, issued, auth, me>>

PageNext ==
  /\ UNCHANGED showing
  /\ \/ showing = "desktop" /\ InputNext /\ UNCHANGED notDesktopInput
     \/ showing = "workspace" /\ Session!Next /\ UNCHANGED notSession
     \/ showing = "platform" /\ Platform!RecordingNext /\ UNCHANGED notPlatform
     \/ showing = "row" /\ Row!Next /\ UNCHANGED notRow
     \/ showing = "slow row" /\ SlowRow!Next /\ UNCHANGED notRow
     \/ showing = "player" /\ Player!Next /\ UNCHANGED notPlayer
     \/ showing = "server" /\ Server!Next /\ UNCHANGED notServer
     \/ showing = "signin" /\ Flows!Next /\ UNCHANGED notSignIn
     \/ showing = "reauth" /\ Again!Next /\ UNCHANGED notSignIn
     \/ showing = "captcha" /\ WithCaptcha!Next /\ UNCHANGED notSignIn
     \/ showing = "api" /\ Api!Next /\ UNCHANGED notPermissions
     \/ showing = "pages" /\ Menu!Next /\ UNCHANGED notPermissions

PageSpec == PageInit /\ [][PageNext]_state

(***************************************************************************)
(* Properties                                                              *)
(***************************************************************************)

(* The variables of every part hold values the code can give them.         *)
TypesOK ==
  /\ InputTypeOK
  /\ showing = "workspace" => Session!TypeOK
  /\ showing = "platform" => Platform!RecordingTypeOK
  /\ showing = "row" => Row!TypeOK
  /\ showing = "slow row" => SlowRow!TypeOK
  /\ showing = "player" => Player!TypeOK
  /\ showing = "server" => Server!TypeOK
  /\ showing = "signin" => Flows!TypeOK
  /\ showing = "reauth" => Again!TypeOK
  /\ showing = "captcha" => WithCaptcha!TypeOK
  /\ showing = "api" => Api!TypeOK
  /\ showing = "pages" => Menu!TypeOK

(* The sign-in page and the shell behind it agree with the server, however *)
(* password, MFA, passkey and sign-out requests and their answers follow   *)
(* each other: the user on display is the session's, an account that       *)
(* enrolled has confirmed its recovery codes before it is in the console   *)
(* (both unless two sign-ins overlapped, an answer was lost after the      *)
(* server acted, or the codes were left by loading the page again), the    *)
(* buttons are disabled exactly while their flow runs, and the captcha on  *)
(* display can still be used (AuthPage, LoginGate and AppProvider).  On    *)
(* the server a token that was revoked while nobody else presented it is   *)
(* dead, a request is served with a role the user had meanwhile, and the   *)
(* user's record says whether a session is left (authManager,              *)
(* refreshAuthSession, revokeAuthSession).                                 *)
SignInIsTrue ==
  /\ showing = "signin" => Flows!AuthIsSession /\ Flows!CodesSeenInTurn /\ Flows!BusyIsTrue
  /\ showing = "reauth" => Again!AuthIsSession /\ Again!CodesSeenInTurn /\ Again!BusyIsTrue
  /\ showing = "captcha" => WithCaptcha!CaptchaUsable
  /\ showing = "server" => Server!RevokedIsDead /\ Server!ServedAsUser /\ Server!OnlineMatches

(* What the pages offer is what the server lets through: while the page's  *)
(* copy of the permissions is current, canUseAPI offers a request just     *)
(* when authorizeAPI allows it, up to the exceptions the parts name, and   *)
(* at any time every link leads to its page and the page on display is one *)
(* the copy lets through.                                                  *)
OffersAreTrue ==
  /\ showing = "api" => Api!OfferedIsAllowed /\ Api!AllowedIsOffered
  /\ showing = "pages" => Menu!LinksLead

(* What a page says of a session or of a recording is so, also after late  *)
(* answers: the workspace's status and busy flags, the row's badge once    *)
(* nothing is under way, its busy button, and a video with no overlay from *)
(* the one player left; a refused deletion of a platform recording keeps   *)
(* it and an accepted one is final (WorkspaceView, ResourceRowActions,     *)
(* RecordingPlaybackDialog and deleteAuditRecording).                      *)
ViewsAreTrue ==
  /\ showing = "workspace" => Session!StatusIsTrue /\ Session!BusyIsTrue
  /\ showing = "row" => Row!BadgeSettles /\ Row!BusyIsTrue
  /\ showing = "slow row" => SlowRow!BadgeSettles /\ SlowRow!BusyIsTrue
  /\ showing = "player" => Player!VideoIsClear /\ Player!OnePlayer /\ Player!FirstPlayerIsShown
  /\ showing = "platform" => Platform!RefusedDeleteKeeps /\ Platform!DeleteIsFinal

(* A row's badge never goes back to an earlier state of the transcoding    *)
(* because of an answer that comes late (poll in ResourceRowActions).      *)
NoStepBack ==
  [][/\ showing = "row" => Row!NoStepBack
     /\ showing = "slow row" => SlowRow!NoStepBack]_state
=============================================================================
