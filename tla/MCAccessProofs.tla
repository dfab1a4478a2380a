---------------------------- MODULE MCAccessProofs ----------------------------
(***************************************************************************)
(* MCAccess, for behaviours of any length: each property of its run        *)
(* follows from the invariant that AccessProofs or AccessPagesProofs       *)
(* proves of the part on display, at the part's own constants. A part of   *)
(* MCAccess and the part of that module are the same formulas, and the     *)
(* steps that say so expand both.                                          *)
(***************************************************************************)
EXTENDS MCAccess, TLAPS

Parts == INSTANCE AccessProofs
  WITH MaxSessions <- 3, MaxRequests <- 4, Jobs <- {"j1", "j2"}, Deletes <- {"d1"},
       HasSession <- FALSE, Tokens <- {"t1", "t2"}, Handlers <- {"h1", "h2"},
       Roles <- {"admin", "user"}, MaxFaults <- 1
FirstPages == INSTANCE AccessPagesProofs
  WITH MaxStarts <- 2, MaxPolls <- 1, MaxPlayers <- 3, Accounts <- {"a", "b"},
       Captcha <- FALSE, Reauth <- FALSE, MaxRequests <- 5, Grants <- AllGrants,
       Menus <- {}, RoleNames <- FewNames, TypeNames <- Types, Paths <- AllPaths,
       Methods <- {"GET", "POST"}, Pages <- {}, MaxEdits <- 1
SlowPages == INSTANCE AccessPagesProofs
  WITH MaxStarts <- 1, MaxPolls <- 2, MaxPlayers <- 3, Accounts <- {"a", "b"},
       Captcha <- FALSE, Reauth <- TRUE, MaxRequests <- 4, Grants <- SomeGrants,
       Menus <- AllMenus, RoleNames <- Names, TypeNames <- Types, Paths <- ServicePaths,
       Methods <- {"GET", "POST"}, Pages <- AllPages, MaxEdits <- 1
CaptchaPages == INSTANCE AccessPagesProofs
  WITH MaxStarts <- 2, MaxPolls <- 1, MaxPlayers <- 3, Accounts <- {"a", "b"},
       Captcha <- TRUE, Reauth <- FALSE, MaxRequests <- 4, Grants <- AllGrants,
       Menus <- {}, RoleNames <- FewNames, TypeNames <- Types, Paths <- AllPaths,
       Methods <- {"GET", "POST"}, Pages <- {}, MaxEdits <- 1

(* The part on display has its invariant.                                  *)
AccessInv ==
  /\ InputTypeOK
  /\ showing = "workspace" => Parts!ViewInv
  /\ showing = "platform" => Parts!RecordingInv
  /\ showing = "row" => FirstPages!RowInv
  /\ showing = "slow row" => SlowPages!RowInv
  /\ showing = "player" => FirstPages!PlayerInv
  /\ showing = "server" => Parts!AuthInv
  /\ showing = "signin" => FirstPages!FlowInv
  /\ showing = "reauth" => SlowPages!FlowInv
  /\ showing = "captcha" => CaptchaPages!FlowInv
  /\ showing = "api" => FirstPages!PermInv
  /\ showing = "pages" => SlowPages!PermInv

(* The constants of the run are ones the proofs of the parts allow.        *)
LEMMA AccessConstants ==
  /\ FirstPages!Row!ConstantsOK
  /\ SlowPages!Row!ConstantsOK
  /\ FirstPages!Player!ConstantsOK
  /\ Parts!Auth!ConstantsOK
  /\ FirstPages!Flows!ConstantsOK
  /\ SlowPages!Flows!ConstantsOK
  /\ CaptchaPages!Flows!ConstantsOK
  /\ FirstPages!Perms!ConstantsOK
  /\ SlowPages!Perms!ConstantsOK
<1>1. FirstPages!Row!ConstantsOK
  BY AccessAssumption DEF Row!ConstantsOK, FirstPages!Row!ConstantsOK
<1>2. SlowPages!Row!ConstantsOK
  BY AccessAssumption DEF SlowRow!ConstantsOK, SlowPages!Row!ConstantsOK
<1>3. FirstPages!Player!ConstantsOK
  BY AccessAssumption DEF Player!ConstantsOK, FirstPages!Player!ConstantsOK
<1>4. Parts!Auth!ConstantsOK
  BY AccessAssumption DEF Server!ConstantsOK, Parts!Auth!ConstantsOK
<1>5. FirstPages!Flows!ConstantsOK
  BY AccessAssumption DEF Flows!ConstantsOK, FirstPages!Flows!ConstantsOK
<1>6. SlowPages!Flows!ConstantsOK
  BY AccessAssumption DEF Again!ConstantsOK, SlowPages!Flows!ConstantsOK
<1>7. CaptchaPages!Flows!ConstantsOK
  BY AccessAssumption DEF WithCaptcha!ConstantsOK, CaptchaPages!Flows!ConstantsOK
<1>8. FirstPages!Perms!ConstantsOK
  BY AccessAssumption DEF Api!ConstantsOK, Api!Servers, Api!Sessions, Api!Audit, Api!Overview,
      Api!Access, FirstPages!Perms!ConstantsOK, FirstPages!Perms!Servers,
      FirstPages!Perms!Sessions, FirstPages!Perms!Audit, FirstPages!Perms!Overview,
      FirstPages!Perms!Access
<1>9. SlowPages!Perms!ConstantsOK
  BY AccessAssumption DEF Menu!ConstantsOK, Menu!Servers, Menu!Sessions, Menu!Audit,
      Menu!Overview, Menu!Access, SlowPages!Perms!ConstantsOK, SlowPages!Perms!Servers,
      SlowPages!Perms!Sessions, SlowPages!Perms!Audit, SlowPages!Perms!Overview,
      SlowPages!Perms!Access
<1> QED BY <1>1, <1>2, <1>3, <1>4, <1>5, <1>6, <1>7, <1>8, <1>9

(* So are those of the modules that state an assumption of their own.      *)
LEMMA PartsFit == Parts!BoundsAssumption /\ Parts!HasSessionAssumption /\ Parts!KeysOfAssumption
<1>1. Parts!BoundsAssumption
  BY DEF Parts!BoundsAssumption
<1>2. Parts!HasSessionAssumption
  BY DEF Parts!HasSessionAssumption
<1>3. Parts!KeysOfAssumption
  BY KeysOfAssumption DEF Parts!KeysOfAssumption
<1> QED BY <1>1, <1>2, <1>3

(* The keys of the desktop, whatever is on display.                        *)
LEMMA KeysStart == ASSUME InputInit PROVE InputTypeOK
BY DEF InputInit, InputTypeOK

LEMMA KeysKept == ASSUME InputTypeOK, [InputNext]_inputVars PROVE InputTypeOK'
<1>1. CASE UNCHANGED inputVars
  BY <1>1 DEF inputVars, InputTypeOK
<1>2. ASSUME NEW k \in Keys,
             OnKeyDown(k) \/ KeyRepeat(k) \/ OnKeyUp(k) \/ KeyUpMissed(k) \/ OnWindowKeyUp(k)
      PROVE  InputTypeOK'
  BY <1>2 DEF InputTypeOK, OnKeyDown, KeyRepeat, OnKeyUp, KeyUpMissed, OnWindowKeyUp,
    SentUp, SentDown, ReleaseInputState
<1>3. CASE OnMouseDown \/ FocusDisplay \/ ClientConnects \/ ClientLost \/ InputCleanup
  BY <1>3 DEF InputTypeOK, OnMouseDown, FocusDisplay, ClientConnects, ClientLost,
    InputCleanup, SentUp, ReleaseInputState, Lost
<1>4. ASSUME NEW f \in {"page", "away"}, LoseFocus(f) PROVE InputTypeOK'
  BY <1>4 DEF InputTypeOK, LoseFocus, SentUp, ReleaseInputState
<1> QED BY <1>1, <1>2, <1>3, <1>4 DEF InputNext

(* Workspace: its first states and its steps, and what its invariant says. *)
LEMMA WorkspaceOpens == ASSUME Session!Init PROVE Parts!ViewInv
<1>1. Parts!Init
  BY DEF Session!Init, Session!Sessions, Parts!Init, Parts!Sessions
<1> QED BY PartsFit, <1>1, Parts!ViewOpens

LEMMA WorkspaceMoves ==
  ASSUME [Session!Next]_Session!vars
  PROVE  [Parts!Next]_Parts!vars
<1>1. Session!vars = Parts!vars
  BY DEF Session!vars, Session!viewState, Session!netVars, Parts!vars, Parts!viewState,
      Parts!netVars
<1>2. Session!vars' = Parts!vars'
  BY DEF Session!vars, Session!viewState, Session!netVars, Parts!vars, Parts!viewState,
      Parts!netVars
<1>3. Session!Next => Parts!Next
  BY DEF Session!Next, Session!User, Session!Answer, Session!EnterCode, Session!CancelCode,
      Session!Sessions, Session!Ready, Session!SocketEnds, Session!OnClose, Session!ClientEnds,
      Session!TunnelDrops, Session!Reconnect, Session!Close, Session!Leave, Session!Kinds,
      Session!Connect, Session!Dial, Session!Connected, Session!Reconnected, Session!Closed,
      Session!Fail, Session!SetupRequired, Session!NeedCode, Session!viewState, Session!netVars,
      Session!GiveUp, Session!SetStatus, Session!CanReconnect, Session!Send, Session!CanClose,
      Session!Hide, Session!Show, Session!InView, Session!WithoutPrompts, Session!Torn,
      Session!CleanupEvents, Session!CleanupStatus, Session!Cleanup, Session!Live, Parts!Next,
      Parts!User, Parts!Answer, Parts!EnterCode, Parts!CancelCode, Parts!Sessions, Parts!Ready,
      Parts!SocketEnds, Parts!OnClose, Parts!ClientEnds, Parts!TunnelDrops, Parts!Reconnect,
      Parts!Close, Parts!Leave, Parts!Kinds, Parts!Connect, Parts!Dial, Parts!Connected,
      Parts!Reconnected, Parts!Closed, Parts!Fail, Parts!SetupRequired, Parts!NeedCode,
      Parts!viewState, Parts!netVars, Parts!GiveUp, Parts!SetStatus, Parts!CanReconnect,
      Parts!Send, Parts!CanClose, Parts!Hide, Parts!Show, Parts!InView, Parts!WithoutPrompts,
      Parts!Torn, Parts!CleanupEvents, Parts!CleanupStatus, Parts!Cleanup, Parts!Live
<1> QED BY <1>1, <1>2, <1>3

LEMMA WorkspaceKeeps ==
  ASSUME Parts!ViewInv, [Session!Next]_Session!vars
  PROVE  Parts!ViewInv'
BY PartsFit, WorkspaceMoves, Parts!ViewInductive

LEMMA WorkspaceShows ==
  ASSUME Parts!ViewInv
  PROVE  Session!TypeOK /\ Session!StatusIsTrue /\ Session!BusyIsTrue
<1>1. Parts!TypeOK /\ Parts!StatusIsTrue /\ Parts!BusyIsTrue
  BY PartsFit, Parts!ViewShows
<1>2. Session!TypeOK
  BY <1>1 DEF Session!TypeOK, Session!Sessions, Session!Kinds, Session!Live, Session!Requests,
      Parts!TypeOK, Parts!Sessions, Parts!Kinds, Parts!Live, Parts!Requests
<1>3. Session!StatusIsTrue
  BY <1>1 DEF Session!StatusIsTrue, Parts!StatusIsTrue
<1>4. Session!BusyIsTrue
  BY <1>1 DEF Session!BusyIsTrue, Session!InView, Parts!BusyIsTrue, Parts!InView
<1> QED BY <1>2, <1>3, <1>4

(* Platform: its first states and its steps, and what its invariant says. *)
LEMMA PlatformOpens == ASSUME Platform!RecordingInit PROVE Parts!RecordingInv
<1>1. Parts!RecordingInit
  BY DEF Platform!RecordingInit, Platform!Synced, Platform!NoCopy, Parts!RecordingInit,
      Parts!Synced, Parts!NoCopy
<1> QED BY PartsFit, <1>1, Parts!RecordingOpens

LEMMA PlatformMoves ==
  ASSUME [Platform!RecordingNext]_Platform!recordingVars
  PROVE  [Parts!RecordingNext]_Parts!recordingVars
<1>1. Platform!recordingVars = Parts!recordingVars
  BY DEF Platform!recordingVars, Platform!sessVars, Platform!fileVars, Platform!jobVars,
      Platform!delVars, Parts!recordingVars, Parts!sessVars, Parts!fileVars, Parts!jobVars,
      Parts!delVars
<1>2. Platform!recordingVars' = Parts!recordingVars'
  BY DEF Platform!recordingVars, Platform!sessVars, Platform!fileVars, Platform!jobVars,
      Platform!delVars, Parts!recordingVars, Parts!sessVars, Parts!fileVars, Parts!jobVars,
      Parts!delVars
<1>3. Platform!RecordingNext => Parts!RecordingNext
  BY DEF Platform!RecordingNext, Platform!TranscodeFind, Platform!JobStep, Platform!DeleteCheck,
      Platform!DeleteStep, Platform!Resync, Platform!Restart, Platform!Target, Platform!JobGo,
      Platform!sessVars, Platform!fileVars, Platform!delVars, Platform!TranscodeStart,
      Platform!TranscodeLog, Platform!TranscodeQueue, Platform!TranscodeBegin,
      Platform!TranscodeRun, Platform!TranscodeEnd, Platform!TranscodeLook,
      Platform!TranscodeFail, Platform!TranscodeComplete, Platform!TranscodeFinish,
      Platform!DelGo, Platform!Deleting, Platform!jobVars, Platform!DeleteLog,
      Platform!DeleteMove, Platform!DeleteRead, Platform!DeleteClear, Platform!DeleteSession,
      Platform!DeleteUnclear, Platform!DeleteRestore, Platform!DeleteCleanup, Platform!Synced,
      Platform!Running, Platform!NoCopy, Platform!UpdateRead, Platform!UpdateSave,
      Platform!UpdateFails, Parts!RecordingNext, Parts!TranscodeFind, Parts!JobStep,
      Parts!DeleteCheck, Parts!DeleteStep, Parts!Resync, Parts!Restart, Parts!Target,
      Parts!JobGo, Parts!sessVars, Parts!fileVars, Parts!delVars, Parts!TranscodeStart,
      Parts!TranscodeLog, Parts!TranscodeQueue, Parts!TranscodeBegin, Parts!TranscodeRun,
      Parts!TranscodeEnd, Parts!TranscodeLook, Parts!TranscodeFail, Parts!TranscodeComplete,
      Parts!TranscodeFinish, Parts!DelGo, Parts!Deleting, Parts!jobVars, Parts!DeleteLog,
      Parts!DeleteMove, Parts!DeleteRead, Parts!DeleteClear, Parts!DeleteSession,
      Parts!DeleteUnclear, Parts!DeleteRestore, Parts!DeleteCleanup, Parts!Synced,
      Parts!Running, Parts!NoCopy, Parts!UpdateRead, Parts!UpdateSave, Parts!UpdateFails
<1> QED BY <1>1, <1>2, <1>3

LEMMA PlatformKeeps ==
  ASSUME Parts!RecordingInv, [Platform!RecordingNext]_Platform!recordingVars
  PROVE  Parts!RecordingInv'
BY PartsFit, PlatformMoves, Parts!RecordingKeeps

LEMMA PlatformShows ==
  ASSUME Parts!RecordingInv
  PROVE  Platform!RecordingTypeOK /\ Platform!RefusedDeleteKeeps /\ Platform!DeleteIsFinal
<1>1. Parts!RecordingTypeOK /\ Parts!RefusedDeleteKeeps /\ Parts!DeleteIsFinal
  BY PartsFit, Parts!RecordingShows
<1>2. Platform!RecordingTypeOK
  BY <1>1 DEF Platform!RecordingTypeOK, Platform!Items, Platform!Running, Platform!Deleting,
      Platform!Statuses, Parts!RecordingTypeOK, Parts!Items, Parts!Running, Parts!Deleting,
      Parts!Statuses
<1>3. Platform!RefusedDeleteKeeps
  BY <1>1 DEF Platform!RefusedDeleteKeeps, Parts!RefusedDeleteKeeps
<1>4. Platform!DeleteIsFinal
  BY <1>1 DEF Platform!DeleteIsFinal, Parts!DeleteIsFinal
<1> QED BY <1>2, <1>3, <1>4

(* Row: its first states and its steps, and what its invariant says. *)
LEMMA RowOpens == ASSUME Row!Init PROVE FirstPages!RowInv
<1>1. FirstPages!Row!Init
  BY DEF Row!Init, Row!Terminal, Row!NoLoad, FirstPages!Row!Init, FirstPages!Row!Terminal,
      FirstPages!Row!NoLoad
<1> QED BY AccessConstants, <1>1, FirstPages!RowOpens

LEMMA RowMoves ==
  ASSUME [Row!Next]_Row!vars
  PROVE  [FirstPages!Row!Next]_FirstPages!Row!vars
<1>1. Row!vars = FirstPages!Row!vars
  BY DEF Row!vars, Row!server, Row!row, Row!history, FirstPages!Row!vars, FirstPages!Row!server,
      FirstPages!Row!row, FirstPages!Row!history
<1>2. Row!vars' = FirstPages!Row!vars'
  BY DEF Row!vars, Row!server, Row!row, Row!history, FirstPages!Row!vars, FirstPages!Row!server,
      FirstPages!Row!row, FirstPages!Row!history
<1>3. Row!Next => FirstPages!Row!Next
  BY Zenon DEF Row!Next, Row!Poll, Row!TranscodeRecording, Row!AskDelete, Row!OtherStarts,
      Row!Restart, Row!ServeLoad, Row!Loaded, Row!JobStep, Row!AnswerDelete, Row!Served,
      Row!Lost, Row!Polling, Row!Polls, Row!Send, Row!server, Row!row, Row!history, Row!Active,
      Row!NoLoad, Row!SetTranscodeStatus, Row!BadgeLoaded, Row!StillTranscoding, Row!JobBegin,
      Row!JobFinish, Row!Terminal, Row!JobEnd, Row!ReadItem, Row!StartJob, Row!Answer,
      Row!DeleteServed, Row!PollAnswered, Row!StartAnswered, Row!DeleteAnswered, Row!To,
      Row!EndedPolls, Row!StatusOf, Row!Refresh, Row!Became, Row!Cardinality,
      FirstPages!Row!Next, FirstPages!Row!Poll, FirstPages!Row!TranscodeRecording,
      FirstPages!Row!AskDelete, FirstPages!Row!OtherStarts, FirstPages!Row!Restart,
      FirstPages!Row!ServeLoad, FirstPages!Row!Loaded, FirstPages!Row!JobStep,
      FirstPages!Row!AnswerDelete, FirstPages!Row!Served, FirstPages!Row!Lost,
      FirstPages!Row!Polling, FirstPages!Row!Polls, FirstPages!Row!Send, FirstPages!Row!server,
      FirstPages!Row!row, FirstPages!Row!history, FirstPages!Row!Active, FirstPages!Row!NoLoad,
      FirstPages!Row!SetTranscodeStatus, FirstPages!Row!BadgeLoaded,
      FirstPages!Row!StillTranscoding, FirstPages!Row!JobBegin, FirstPages!Row!JobFinish,
      FirstPages!Row!Terminal, FirstPages!Row!JobEnd, FirstPages!Row!ReadItem,
      FirstPages!Row!StartJob, FirstPages!Row!Answer, FirstPages!Row!DeleteServed,
      FirstPages!Row!PollAnswered, FirstPages!Row!StartAnswered, FirstPages!Row!DeleteAnswered,
      FirstPages!Row!To, FirstPages!Row!EndedPolls, FirstPages!Row!StatusOf,
      FirstPages!Row!Refresh, FirstPages!Row!Became, FirstPages!Row!Cardinality
<1> QED BY <1>1, <1>2, <1>3

LEMMA RowKeeps ==
  ASSUME FirstPages!RowInv, [Row!Next]_Row!vars
  PROVE  FirstPages!RowInv'
BY AccessConstants, RowMoves, FirstPages!RowKeeps

LEMMA RowShows ==
  ASSUME FirstPages!RowInv
  PROVE  Row!TypeOK /\ Row!BadgeSettles /\ Row!BusyIsTrue
<1>1. FirstPages!Row!TypeOK /\ FirstPages!Row!BadgeSettles /\ FirstPages!Row!BusyIsTrue
  BY AccessConstants, FirstPages!RowShows
<1>2. Row!TypeOK
  BY <1>1 DEF Row!TypeOK, Row!Statuses, Row!Active, Row!Terminal, FirstPages!Row!TypeOK,
      FirstPages!Row!Statuses, FirstPages!Row!Active, FirstPages!Row!Terminal
<1>3. Row!BadgeSettles
  BY <1>1 DEF Row!BadgeSettles, Row!NoLoad, Row!Polling, Row!Active,
      FirstPages!Row!BadgeSettles, FirstPages!Row!NoLoad, FirstPages!Row!Polling,
      FirstPages!Row!Active
<1>4. Row!BusyIsTrue
  BY <1>1 DEF Row!BusyIsTrue, FirstPages!Row!BusyIsTrue
<1> QED BY <1>2, <1>3, <1>4

LEMMA RowNeverBack ==
  ASSUME FirstPages!RowInv, [Row!Next]_Row!vars
  PROVE  Row!NoStepBack
<1>1. FirstPages!Row!NoStepBack
  BY AccessConstants, RowMoves, FirstPages!RowNeverBack
<1> QED
  BY <1>1 DEF Row!NoStepBack, Row!Terminal, Row!Active, FirstPages!Row!NoStepBack,
      FirstPages!Row!Terminal, FirstPages!Row!Active

(* SlowRow: its first states and its steps, and what its invariant says. *)
LEMMA SlowRowOpens == ASSUME SlowRow!Init PROVE SlowPages!RowInv
<1>1. SlowPages!Row!Init
  BY DEF SlowRow!Init, SlowRow!Terminal, SlowRow!NoLoad, SlowPages!Row!Init,
      SlowPages!Row!Terminal, SlowPages!Row!NoLoad
<1> QED BY AccessConstants, <1>1, SlowPages!RowOpens

LEMMA SlowRowMoves ==
  ASSUME [SlowRow!Next]_SlowRow!vars
  PROVE  [SlowPages!Row!Next]_SlowPages!Row!vars
<1>1. SlowRow!vars = SlowPages!Row!vars
  BY DEF SlowRow!vars, SlowRow!server, SlowRow!row, SlowRow!history, SlowPages!Row!vars,
      SlowPages!Row!server, SlowPages!Row!row, SlowPages!Row!history
<1>2. SlowRow!vars' = SlowPages!Row!vars'
  BY DEF SlowRow!vars, SlowRow!server, SlowRow!row, SlowRow!history, SlowPages!Row!vars,
      SlowPages!Row!server, SlowPages!Row!row, SlowPages!Row!history
<1>3. SlowRow!Next => SlowPages!Row!Next
  BY Zenon DEF SlowRow!Next, SlowRow!Poll, SlowRow!TranscodeRecording, SlowRow!AskDelete,
      SlowRow!OtherStarts, SlowRow!Restart, SlowRow!ServeLoad, SlowRow!Loaded, SlowRow!JobStep,
      SlowRow!AnswerDelete, SlowRow!Served, SlowRow!Lost, SlowRow!Polling, SlowRow!Polls,
      SlowRow!Send, SlowRow!server, SlowRow!row, SlowRow!history, SlowRow!Active,
      SlowRow!NoLoad, SlowRow!SetTranscodeStatus, SlowRow!BadgeLoaded, SlowRow!StillTranscoding,
      SlowRow!JobBegin, SlowRow!JobFinish, SlowRow!Terminal, SlowRow!JobEnd, SlowRow!ReadItem,
      SlowRow!StartJob, SlowRow!Answer, SlowRow!DeleteServed, SlowRow!PollAnswered,
      SlowRow!StartAnswered, SlowRow!DeleteAnswered, SlowRow!To, SlowRow!EndedPolls,
      SlowRow!StatusOf, SlowRow!Refresh, SlowRow!Became, SlowRow!Cardinality,
      SlowPages!Row!Next, SlowPages!Row!Poll, SlowPages!Row!TranscodeRecording,
      SlowPages!Row!AskDelete, SlowPages!Row!OtherStarts, SlowPages!Row!Restart,
      SlowPages!Row!ServeLoad, SlowPages!Row!Loaded, SlowPages!Row!JobStep,
      SlowPages!Row!AnswerDelete, SlowPages!Row!Served, SlowPages!Row!Lost,
      SlowPages!Row!Polling, SlowPages!Row!Polls, SlowPages!Row!Send, SlowPages!Row!server,
      SlowPages!Row!row, SlowPages!Row!history, SlowPages!Row!Active, SlowPages!Row!NoLoad,
      SlowPages!Row!SetTranscodeStatus, SlowPages!Row!BadgeLoaded,
      SlowPages!Row!StillTranscoding, SlowPages!Row!JobBegin, SlowPages!Row!JobFinish,
      SlowPages!Row!Terminal, SlowPages!Row!JobEnd, SlowPages!Row!ReadItem,
      SlowPages!Row!StartJob, SlowPages!Row!Answer, SlowPages!Row!DeleteServed,
      SlowPages!Row!PollAnswered, SlowPages!Row!StartAnswered, SlowPages!Row!DeleteAnswered,
      SlowPages!Row!To, SlowPages!Row!EndedPolls, SlowPages!Row!StatusOf, SlowPages!Row!Refresh,
      SlowPages!Row!Became, SlowPages!Row!Cardinality
<1> QED BY <1>1, <1>2, <1>3

LEMMA SlowRowKeeps ==
  ASSUME SlowPages!RowInv, [SlowRow!Next]_SlowRow!vars
  PROVE  SlowPages!RowInv'
BY AccessConstants, SlowRowMoves, SlowPages!RowKeeps

LEMMA SlowRowShows ==
  ASSUME SlowPages!RowInv
  PROVE  SlowRow!TypeOK /\ SlowRow!BadgeSettles /\ SlowRow!BusyIsTrue
<1>1. SlowPages!Row!TypeOK /\ SlowPages!Row!BadgeSettles /\ SlowPages!Row!BusyIsTrue
  BY AccessConstants, SlowPages!RowShows
<1>2. SlowRow!TypeOK
  BY <1>1 DEF SlowRow!TypeOK, SlowRow!Statuses, SlowRow!Active, SlowRow!Terminal,
      SlowPages!Row!TypeOK, SlowPages!Row!Statuses, SlowPages!Row!Active, SlowPages!Row!Terminal
<1>3. SlowRow!BadgeSettles
  BY <1>1 DEF SlowRow!BadgeSettles, SlowRow!NoLoad, SlowRow!Polling, SlowRow!Active,
      SlowPages!Row!BadgeSettles, SlowPages!Row!NoLoad, SlowPages!Row!Polling,
      SlowPages!Row!Active
<1>4. SlowRow!BusyIsTrue
  BY <1>1 DEF SlowRow!BusyIsTrue, SlowPages!Row!BusyIsTrue
<1> QED BY <1>2, <1>3, <1>4

LEMMA SlowRowNeverBack ==
  ASSUME SlowPages!RowInv, [SlowRow!Next]_SlowRow!vars
  PROVE  SlowRow!NoStepBack
<1>1. SlowPages!Row!NoStepBack
  BY AccessConstants, SlowRowMoves, SlowPages!RowNeverBack
<1> QED
  BY <1>1 DEF SlowRow!NoStepBack, SlowRow!Terminal, SlowRow!Active, SlowPages!Row!NoStepBack,
      SlowPages!Row!Terminal, SlowPages!Row!Active

(* Player: its first states and its steps, and what its invariant says. *)
LEMMA PlayerOpens == ASSUME Player!Init PROVE FirstPages!PlayerInv
<1>1. FirstPages!Player!Init
  BY DEF Player!Init, Player!States, Player!Video, Player!NoPlayer, Player!Phase,
      FirstPages!Player!Init, FirstPages!Player!States, FirstPages!Player!Video,
      FirstPages!Player!NoPlayer, FirstPages!Player!Phase
<1> QED BY AccessConstants, <1>1, FirstPages!PlayerOpens

LEMMA PlayerMoves ==
  ASSUME [Player!Next]_Player!vars
  PROVE  [FirstPages!Player!Next]_FirstPages!Player!vars
<1>1. Player!vars = FirstPages!Player!vars
  BY DEF Player!vars, Player!dialog, Player!players, Player!display, FirstPages!Player!vars,
      FirstPages!Player!dialog, FirstPages!Player!players, FirstPages!Player!display
<1>2. Player!vars' = FirstPages!Player!vars'
  BY DEF Player!vars, Player!dialog, Player!players, Player!display, FirstPages!Player!vars,
      FirstPages!Player!dialog, FirstPages!Player!players, FirstPages!Player!display
<1>3. Player!Next => FirstPages!Player!Next
  BY Zenon DEF Player!Next, Player!Respond, Player!Fetched, Player!Refetch, Player!Revoke,
      Player!Close, Player!OnProgress, Player!OnLoad, Player!OnError, Player!Ends,
      Player!TogglePlayback, Player!SeekDone, Player!States, Player!Job, Player!OnLate,
      Player!Seek, Player!players, Player!display, Player!Answered, Player!Video, Player!Effect,
      Player!CleanedUp, Player!NoPlayer, Player!dialog, Player!Enabled, Player!Played,
      Player!PlayingAfter, Player!CalledBack, Player!LateError, Player!LoadingWith,
      Player!Phase, Player!Aborted, Player!Left, FirstPages!Player!Next,
      FirstPages!Player!Respond, FirstPages!Player!Fetched, FirstPages!Player!Refetch,
      FirstPages!Player!Revoke, FirstPages!Player!Close, FirstPages!Player!OnProgress,
      FirstPages!Player!OnLoad, FirstPages!Player!OnError, FirstPages!Player!Ends,
      FirstPages!Player!TogglePlayback, FirstPages!Player!SeekDone, FirstPages!Player!States,
      FirstPages!Player!Job, FirstPages!Player!OnLate, FirstPages!Player!Seek,
      FirstPages!Player!players, FirstPages!Player!display, FirstPages!Player!Answered,
      FirstPages!Player!Video, FirstPages!Player!Effect, FirstPages!Player!CleanedUp,
      FirstPages!Player!NoPlayer, FirstPages!Player!dialog, FirstPages!Player!Enabled,
      FirstPages!Player!Played, FirstPages!Player!PlayingAfter, FirstPages!Player!CalledBack,
      FirstPages!Player!LateError, FirstPages!Player!LoadingWith, FirstPages!Player!Phase,
      FirstPages!Player!Aborted, FirstPages!Player!Left
<1> QED BY <1>1, <1>2, <1>3

LEMMA PlayerKeeps ==
  ASSUME FirstPages!PlayerInv, [Player!Next]_Player!vars
  PROVE  FirstPages!PlayerInv'
BY AccessConstants, PlayerMoves, FirstPages!PlayerKeeps

LEMMA PlayerShows ==
  ASSUME FirstPages!PlayerInv
  PROVE  Player!TypeOK /\ Player!VideoIsClear /\ Player!OnePlayer /\ Player!FirstPlayerIsShown
<1>1. FirstPages!Player!TypeOK /\ FirstPages!Player!VideoIsClear /\ FirstPages!Player!OnePlayer /\ FirstPages!Player!FirstPlayerIsShown
  BY AccessConstants, FirstPages!PlayerShows
<1>2. Player!TypeOK
  BY <1>1 DEF Player!TypeOK, Player!States, Player!Player, Player!NoPlayer, Player!Phase,
      FirstPages!Player!TypeOK, FirstPages!Player!States, FirstPages!Player!Player,
      FirstPages!Player!NoPlayer, FirstPages!Player!Phase
<1>3. Player!VideoIsClear
  BY <1>1 DEF Player!VideoIsClear, FirstPages!Player!VideoIsClear
<1>4. Player!OnePlayer
  BY <1>1 DEF Player!OnePlayer, Player!NoPlayer, Player!Phase, FirstPages!Player!OnePlayer,
      FirstPages!Player!NoPlayer, FirstPages!Player!Phase
<1>5. Player!FirstPlayerIsShown
  BY <1>1 DEF Player!FirstPlayerIsShown, Player!NoPlayer, Player!Enabled, Player!Phase,
      Player!Video, FirstPages!Player!FirstPlayerIsShown, FirstPages!Player!NoPlayer,
      FirstPages!Player!Enabled, FirstPages!Player!Phase, FirstPages!Player!Video
<1> QED BY <1>2, <1>3, <1>4, <1>5

(* Server: its first states and its steps, and what its invariant says. *)
LEMMA ServerOpens == ASSUME Server!Init PROVE Parts!AuthInv
<1>1. Parts!Auth!Init
  BY DEF Server!Init, Server!Users, Server!Idle, Server!NoUser, Parts!Auth!Init,
      Parts!Auth!Users, Parts!Auth!Idle, Parts!Auth!NoUser
<1> QED BY AccessConstants, PartsFit, <1>1, Parts!AuthOpens

LEMMA ServerMoves ==
  ASSUME [Server!Next]_Server!vars
  PROVE  [Parts!Auth!Next]_Parts!Auth!vars
<1>1. Server!vars = Parts!Auth!vars
  BY DEF Server!vars, Server!sessions, Parts!Auth!vars, Parts!Auth!sessions
<1>2. Server!vars' = Parts!Auth!vars'
  BY DEF Server!vars, Server!sessions, Parts!Auth!vars, Parts!Auth!sessions
<1>3. Server!Next => Parts!Auth!Next
  BY Zenon DEF Server!Next, Server!Login, Server!Request, Server!Edit, Server!Persist,
      Server!Remember, Server!Load, Server!Fill, Server!Check, Server!PersistRole,
      Server!RememberRole, Server!Serve, Server!Others, Server!ReadUser, Server!WriteUser,
      Server!Forget, Server!DropRow, Server!List, Server!DropOther, Server!ForgetOthers,
      Server!DeleteUser, Server!Expire, Server!Restart, Server!Arrive, Server!Idle,
      Server!Lookup, Server!At, Server!Well, Server!Without, Server!Me, Server!Goto,
      Server!Fault, Server!Return, Server!Live, Server!Becomes, Server!RoleNow, Server!Refused,
      Server!sessions, Server!Unrecorded, Server!SaveUser, Server!Overlaps, Server!Busy,
      Server!Writes, Server!NoUser, Parts!Auth!Next, Parts!Auth!Login, Parts!Auth!Request,
      Parts!Auth!Edit, Parts!Auth!Persist, Parts!Auth!Remember, Parts!Auth!Load,
      Parts!Auth!Fill, Parts!Auth!Check, Parts!Auth!PersistRole, Parts!Auth!RememberRole,
      Parts!Auth!Serve, Parts!Auth!Others, Parts!Auth!ReadUser, Parts!Auth!WriteUser,
      Parts!Auth!Forget, Parts!Auth!DropRow, Parts!Auth!List, Parts!Auth!DropOther,
      Parts!Auth!ForgetOthers, Parts!Auth!DeleteUser, Parts!Auth!Expire, Parts!Auth!Restart,
      Parts!Auth!Arrive, Parts!Auth!Idle, Parts!Auth!Lookup, Parts!Auth!At, Parts!Auth!Well,
      Parts!Auth!Without, Parts!Auth!Me, Parts!Auth!Goto, Parts!Auth!Fault, Parts!Auth!Return,
      Parts!Auth!Live, Parts!Auth!Becomes, Parts!Auth!RoleNow, Parts!Auth!Refused,
      Parts!Auth!sessions, Parts!Auth!Unrecorded, Parts!Auth!SaveUser, Parts!Auth!Overlaps,
      Parts!Auth!Busy, Parts!Auth!Writes, Parts!Auth!NoUser
<1> QED BY <1>1, <1>2, <1>3

LEMMA ServerKeeps ==
  ASSUME Parts!AuthInv, [Server!Next]_Server!vars
  PROVE  Parts!AuthInv'
BY AccessConstants, PartsFit, ServerMoves, Parts!AuthKeeps

LEMMA ServerShows ==
  ASSUME Parts!AuthInv
  PROVE  Server!TypeOK /\ Server!RevokedIsDead /\ Server!ServedAsUser /\ Server!OnlineMatches
<1>1. Parts!Auth!TypeOK /\ Parts!Auth!RevokedIsDead /\ Parts!Auth!ServedAsUser /\ Parts!Auth!OnlineMatches
  BY AccessConstants, PartsFit, Parts!AuthShows
<1>2. Server!TypeOK
  BY <1>1 DEF Server!TypeOK, Server!Sessions, Server!Users, Server!Steps, Parts!Auth!TypeOK,
      Parts!Auth!Sessions, Parts!Auth!Users, Parts!Auth!Steps
<1>3. Server!RevokedIsDead
  BY <1>1 DEF Server!RevokedIsDead, Parts!Auth!RevokedIsDead
<1>4. Server!ServedAsUser
  BY <1>1 DEF Server!ServedAsUser, Server!At, Server!Me, Parts!Auth!ServedAsUser, Parts!Auth!At,
      Parts!Auth!Me
<1>5. Server!OnlineMatches
  BY <1>1 DEF Server!OnlineMatches, Server!Busy, Server!Live, Server!Me, Server!Idle,
      Server!NoUser, Parts!Auth!OnlineMatches, Parts!Auth!Busy, Parts!Auth!Live, Parts!Auth!Me,
      Parts!Auth!Idle, Parts!Auth!NoUser
<1> QED BY <1>2, <1>3, <1>4, <1>5

(* SignIn: its first states and its steps, and what its invariant says. *)
LEMMA SignInOpens == ASSUME Flows!Init PROVE FirstPages!FlowInv
<1>1. FirstPages!Flows!Init
  BY DEF Flows!Init, Flows!NoMe, Flows!NoChallenge, Flows!Asked, FirstPages!Flows!Init,
      FirstPages!Flows!NoMe, FirstPages!Flows!NoChallenge, FirstPages!Flows!Asked
<1> QED BY AccessConstants, <1>1, FirstPages!FlowOpens

LEMMA SignInMoves ==
  ASSUME [Flows!Next]_Flows!vars
  PROVE  [FirstPages!Flows!Next]_FirstPages!Flows!vars
<1>1. Flows!vars = FirstPages!Flows!vars
  BY DEF Flows!vars, Flows!server, Flows!app, Flows!formVars, Flows!history, Flows!losses,
      FirstPages!Flows!vars, FirstPages!Flows!server, FirstPages!Flows!app,
      FirstPages!Flows!formVars, FirstPages!Flows!history, FirstPages!Flows!losses
<1>2. Flows!vars' = FirstPages!Flows!vars'
  BY DEF Flows!vars, Flows!server, Flows!app, Flows!formVars, Flows!history, Flows!losses,
      FirstPages!Flows!vars, FirstPages!Flows!server, FirstPages!Flows!app,
      FirstPages!Flows!formVars, FirstPages!Flows!history, FirstPages!Flows!losses
<1>3. Flows!Next => FirstPages!Flows!Next
  BY Zenon DEF Flows!Next, Flows!Submit, Flows!StartPasskeyLogin, Flows!BackToPassword,
      Flows!RefreshCaptcha, Flows!OtherSetup, Flows!ContinueAfterRecoveryCodes, Flows!ServeMe,
      Flows!MeLoaded, Flows!Reload, Flows!TypeUsername, Flows!Logout, Flows!ServeCaptcha,
      Flows!ServeLogin, Flows!ServeSetup, Flows!ServeMfa, Flows!Refuse, Flows!LoseAnswer,
      Flows!CaptchaLoaded, Flows!CaptchaFailed, Flows!Challenged, Flows!CodesShown,
      Flows!SignedIn, Flows!FinishSignIn, Flows!Failed, Flows!Form, Flows!NoChallenge,
      Flows!Send, Flows!Effect, Flows!server, Flows!app, Flows!history, Flows!Asked,
      Flows!formVars, Flows!Leave, Flows!losses, Flows!NoMe, Flows!Respond, Flows!EnrolledMfa,
      Flows!SignIns, Flows!Mounted, Flows!Idle, Flows!UserWithCodes, Flows!GateFor, Flows!To,
      Flows!SignedInAs, Flows!AfterFailure, Flows!Pending, Flows!Cardinality,
      FirstPages!Flows!Next, FirstPages!Flows!Submit, FirstPages!Flows!StartPasskeyLogin,
      FirstPages!Flows!BackToPassword, FirstPages!Flows!RefreshCaptcha,
      FirstPages!Flows!OtherSetup, FirstPages!Flows!ContinueAfterRecoveryCodes,
      FirstPages!Flows!ServeMe, FirstPages!Flows!MeLoaded, FirstPages!Flows!Reload,
      FirstPages!Flows!TypeUsername, FirstPages!Flows!Logout, FirstPages!Flows!ServeCaptcha,
      FirstPages!Flows!ServeLogin, FirstPages!Flows!ServeSetup, FirstPages!Flows!ServeMfa,
      FirstPages!Flows!Refuse, FirstPages!Flows!LoseAnswer, FirstPages!Flows!CaptchaLoaded,
      FirstPages!Flows!CaptchaFailed, FirstPages!Flows!Challenged, FirstPages!Flows!CodesShown,
      FirstPages!Flows!SignedIn, FirstPages!Flows!FinishSignIn, FirstPages!Flows!Failed,
      FirstPages!Flows!Form, FirstPages!Flows!NoChallenge, FirstPages!Flows!Send,
      FirstPages!Flows!Effect, FirstPages!Flows!server, FirstPages!Flows!app,
      FirstPages!Flows!history, FirstPages!Flows!Asked, FirstPages!Flows!formVars,
      FirstPages!Flows!Leave, FirstPages!Flows!losses, FirstPages!Flows!NoMe,
      FirstPages!Flows!Respond, FirstPages!Flows!EnrolledMfa, FirstPages!Flows!SignIns,
      FirstPages!Flows!Mounted, FirstPages!Flows!Idle, FirstPages!Flows!UserWithCodes,
      FirstPages!Flows!GateFor, FirstPages!Flows!To, FirstPages!Flows!SignedInAs,
      FirstPages!Flows!AfterFailure, FirstPages!Flows!Pending, FirstPages!Flows!Cardinality
<1> QED BY <1>1, <1>2, <1>3

LEMMA SignInKeeps ==
  ASSUME FirstPages!FlowInv, [Flows!Next]_Flows!vars
  PROVE  FirstPages!FlowInv'
BY AccessConstants, SignInMoves, FirstPages!FlowKeeps

LEMMA SignInShows ==
  ASSUME FirstPages!FlowInv
  PROVE  Flows!TypeOK /\ Flows!AuthIsSession /\ Flows!CodesSeenInTurn /\ Flows!BusyIsTrue
<1>1. FirstPages!Flows!TypeOK /\ FirstPages!Flows!AuthIsSession /\ FirstPages!Flows!CodesSeenInTurn /\ FirstPages!Flows!BusyIsTrue
  BY AccessConstants, FirstPages!FlowShows
<1>2. Flows!TypeOK
  BY <1>1 DEF Flows!TypeOK, Flows!Kinds, FirstPages!Flows!TypeOK, FirstPages!Flows!Kinds
<1>3. Flows!AuthIsSession
  BY <1>1 DEF Flows!AuthIsSession, FirstPages!Flows!AuthIsSession
<1>4. Flows!CodesSeenInTurn
  BY <1>1 DEF Flows!CodesSeenInTurn, FirstPages!Flows!CodesSeenInTurn
<1>5. Flows!BusyIsTrue
  BY <1>1 DEF Flows!BusyIsTrue, Flows!Pending, Flows!Mounted, Flows!SignIns,
      FirstPages!Flows!BusyIsTrue, FirstPages!Flows!Pending, FirstPages!Flows!Mounted,
      FirstPages!Flows!SignIns
<1> QED BY <1>2, <1>3, <1>4, <1>5

(* Reauth: its first states and its steps, and what its invariant says. *)
LEMMA ReauthOpens == ASSUME Again!Init PROVE SlowPages!FlowInv
<1>1. SlowPages!Flows!Init
  BY DEF Again!Init, Again!NoMe, Again!NoChallenge, Again!Asked, SlowPages!Flows!Init,
      SlowPages!Flows!NoMe, SlowPages!Flows!NoChallenge, SlowPages!Flows!Asked
<1> QED BY AccessConstants, <1>1, SlowPages!FlowOpens

LEMMA ReauthMoves ==
  ASSUME [Again!Next]_Again!vars
  PROVE  [SlowPages!Flows!Next]_SlowPages!Flows!vars
<1>1. Again!vars = SlowPages!Flows!vars
  BY DEF Again!vars, Again!server, Again!app, Again!formVars, Again!history, Again!losses,
      SlowPages!Flows!vars, SlowPages!Flows!server, SlowPages!Flows!app,
      SlowPages!Flows!formVars, SlowPages!Flows!history, SlowPages!Flows!losses
<1>2. Again!vars' = SlowPages!Flows!vars'
  BY DEF Again!vars, Again!server, Again!app, Again!formVars, Again!history, Again!losses,
      SlowPages!Flows!vars, SlowPages!Flows!server, SlowPages!Flows!app,
      SlowPages!Flows!formVars, SlowPages!Flows!history, SlowPages!Flows!losses
<1>3. Again!Next => SlowPages!Flows!Next
  BY Zenon DEF Again!Next, Again!Submit, Again!StartPasskeyLogin, Again!BackToPassword,
      Again!RefreshCaptcha, Again!OtherSetup, Again!ContinueAfterRecoveryCodes, Again!ServeMe,
      Again!MeLoaded, Again!Reload, Again!TypeUsername, Again!Logout, Again!ServeCaptcha,
      Again!ServeLogin, Again!ServeSetup, Again!ServeMfa, Again!Refuse, Again!LoseAnswer,
      Again!CaptchaLoaded, Again!CaptchaFailed, Again!Challenged, Again!CodesShown,
      Again!SignedIn, Again!FinishSignIn, Again!Failed, Again!Form, Again!NoChallenge,
      Again!Send, Again!Effect, Again!server, Again!app, Again!history, Again!Asked,
      Again!formVars, Again!Leave, Again!losses, Again!NoMe, Again!Respond, Again!EnrolledMfa,
      Again!SignIns, Again!Mounted, Again!Idle, Again!UserWithCodes, Again!GateFor, Again!To,
      Again!SignedInAs, Again!AfterFailure, Again!Pending, Again!Cardinality,
      SlowPages!Flows!Next, SlowPages!Flows!Submit, SlowPages!Flows!StartPasskeyLogin,
      SlowPages!Flows!BackToPassword, SlowPages!Flows!RefreshCaptcha,
      SlowPages!Flows!OtherSetup, SlowPages!Flows!ContinueAfterRecoveryCodes,
      SlowPages!Flows!ServeMe, SlowPages!Flows!MeLoaded, SlowPages!Flows!Reload,
      SlowPages!Flows!TypeUsername, SlowPages!Flows!Logout, SlowPages!Flows!ServeCaptcha,
      SlowPages!Flows!ServeLogin, SlowPages!Flows!ServeSetup, SlowPages!Flows!ServeMfa,
      SlowPages!Flows!Refuse, SlowPages!Flows!LoseAnswer, SlowPages!Flows!CaptchaLoaded,
      SlowPages!Flows!CaptchaFailed, SlowPages!Flows!Challenged, SlowPages!Flows!CodesShown,
      SlowPages!Flows!SignedIn, SlowPages!Flows!FinishSignIn, SlowPages!Flows!Failed,
      SlowPages!Flows!Form, SlowPages!Flows!NoChallenge, SlowPages!Flows!Send,
      SlowPages!Flows!Effect, SlowPages!Flows!server, SlowPages!Flows!app,
      SlowPages!Flows!history, SlowPages!Flows!Asked, SlowPages!Flows!formVars,
      SlowPages!Flows!Leave, SlowPages!Flows!losses, SlowPages!Flows!NoMe,
      SlowPages!Flows!Respond, SlowPages!Flows!EnrolledMfa, SlowPages!Flows!SignIns,
      SlowPages!Flows!Mounted, SlowPages!Flows!Idle, SlowPages!Flows!UserWithCodes,
      SlowPages!Flows!GateFor, SlowPages!Flows!To, SlowPages!Flows!SignedInAs,
      SlowPages!Flows!AfterFailure, SlowPages!Flows!Pending, SlowPages!Flows!Cardinality
<1> QED BY <1>1, <1>2, <1>3

LEMMA ReauthKeeps ==
  ASSUME SlowPages!FlowInv, [Again!Next]_Again!vars
  PROVE  SlowPages!FlowInv'
BY AccessConstants, ReauthMoves, SlowPages!FlowKeeps

LEMMA ReauthShows ==
  ASSUME SlowPages!FlowInv
  PROVE  Again!TypeOK /\ Again!AuthIsSession /\ Again!CodesSeenInTurn /\ Again!BusyIsTrue
<1>1. SlowPages!Flows!TypeOK /\ SlowPages!Flows!AuthIsSession /\ SlowPages!Flows!CodesSeenInTurn /\ SlowPages!Flows!BusyIsTrue
  BY AccessConstants, SlowPages!FlowShows
<1>2. Again!TypeOK
  BY <1>1 DEF Again!TypeOK, Again!Kinds, SlowPages!Flows!TypeOK, SlowPages!Flows!Kinds
<1>3. Again!AuthIsSession
  BY <1>1 DEF Again!AuthIsSession, SlowPages!Flows!AuthIsSession
<1>4. Again!CodesSeenInTurn
  BY <1>1 DEF Again!CodesSeenInTurn, SlowPages!Flows!CodesSeenInTurn
<1>5. Again!BusyIsTrue
  BY <1>1 DEF Again!BusyIsTrue, Again!Pending, Again!Mounted, Again!SignIns,
      SlowPages!Flows!BusyIsTrue, SlowPages!Flows!Pending, SlowPages!Flows!Mounted,
      SlowPages!Flows!SignIns
<1> QED BY <1>2, <1>3, <1>4, <1>5

(* Captcha: its first states and its steps, and what its invariant says. *)
LEMMA CaptchaOpens == ASSUME WithCaptcha!Init PROVE CaptchaPages!FlowInv
<1>1. CaptchaPages!Flows!Init
  BY DEF WithCaptcha!Init, WithCaptcha!NoMe, WithCaptcha!NoChallenge, WithCaptcha!Asked,
      CaptchaPages!Flows!Init, CaptchaPages!Flows!NoMe, CaptchaPages!Flows!NoChallenge,
      CaptchaPages!Flows!Asked
<1> QED BY AccessConstants, <1>1, CaptchaPages!FlowOpens

LEMMA CaptchaMoves ==
  ASSUME [WithCaptcha!Next]_WithCaptcha!vars
  PROVE  [CaptchaPages!Flows!Next]_CaptchaPages!Flows!vars
<1>1. WithCaptcha!vars = CaptchaPages!Flows!vars
  BY DEF WithCaptcha!vars, WithCaptcha!server, WithCaptcha!app, WithCaptcha!formVars,
      WithCaptcha!history, WithCaptcha!losses, CaptchaPages!Flows!vars,
      CaptchaPages!Flows!server, CaptchaPages!Flows!app, CaptchaPages!Flows!formVars,
      CaptchaPages!Flows!history, CaptchaPages!Flows!losses
<1>2. WithCaptcha!vars' = CaptchaPages!Flows!vars'
  BY DEF WithCaptcha!vars, WithCaptcha!server, WithCaptcha!app, WithCaptcha!formVars,
      WithCaptcha!history, WithCaptcha!losses, CaptchaPages!Flows!vars,
      CaptchaPages!Flows!server, CaptchaPages!Flows!app, CaptchaPages!Flows!formVars,
      CaptchaPages!Flows!history, CaptchaPages!Flows!losses
<1>3. WithCaptcha!Next => CaptchaPages!Flows!Next
  BY Zenon DEF WithCaptcha!Next, WithCaptcha!Submit, WithCaptcha!StartPasskeyLogin,
      WithCaptcha!BackToPassword, WithCaptcha!RefreshCaptcha, WithCaptcha!OtherSetup,
      WithCaptcha!ContinueAfterRecoveryCodes, WithCaptcha!ServeMe, WithCaptcha!MeLoaded,
      WithCaptcha!Reload, WithCaptcha!TypeUsername, WithCaptcha!Logout,
      WithCaptcha!ServeCaptcha, WithCaptcha!ServeLogin, WithCaptcha!ServeSetup,
      WithCaptcha!ServeMfa, WithCaptcha!Refuse, WithCaptcha!LoseAnswer,
      WithCaptcha!CaptchaLoaded, WithCaptcha!CaptchaFailed, WithCaptcha!Challenged,
      WithCaptcha!CodesShown, WithCaptcha!SignedIn, WithCaptcha!FinishSignIn,
      WithCaptcha!Failed, WithCaptcha!Form, WithCaptcha!NoChallenge, WithCaptcha!Send,
      WithCaptcha!Effect, WithCaptcha!server, WithCaptcha!app, WithCaptcha!history,
      WithCaptcha!Asked, WithCaptcha!formVars, WithCaptcha!Leave, WithCaptcha!losses,
      WithCaptcha!NoMe, WithCaptcha!Respond, WithCaptcha!EnrolledMfa, WithCaptcha!SignIns,
      WithCaptcha!Mounted, WithCaptcha!Idle, WithCaptcha!UserWithCodes, WithCaptcha!GateFor,
      WithCaptcha!To, WithCaptcha!SignedInAs, WithCaptcha!AfterFailure, WithCaptcha!Pending,
      WithCaptcha!Cardinality, CaptchaPages!Flows!Next, CaptchaPages!Flows!Submit,
      CaptchaPages!Flows!StartPasskeyLogin, CaptchaPages!Flows!BackToPassword,
      CaptchaPages!Flows!RefreshCaptcha, CaptchaPages!Flows!OtherSetup,
      CaptchaPages!Flows!ContinueAfterRecoveryCodes, CaptchaPages!Flows!ServeMe,
      CaptchaPages!Flows!MeLoaded, CaptchaPages!Flows!Reload, CaptchaPages!Flows!TypeUsername,
      CaptchaPages!Flows!Logout, CaptchaPages!Flows!ServeCaptcha, CaptchaPages!Flows!ServeLogin,
      CaptchaPages!Flows!ServeSetup, CaptchaPages!Flows!ServeMfa, CaptchaPages!Flows!Refuse,
      CaptchaPages!Flows!LoseAnswer, CaptchaPages!Flows!CaptchaLoaded,
      CaptchaPages!Flows!CaptchaFailed, CaptchaPages!Flows!Challenged,
      CaptchaPages!Flows!CodesShown, CaptchaPages!Flows!SignedIn,
      CaptchaPages!Flows!FinishSignIn, CaptchaPages!Flows!Failed, CaptchaPages!Flows!Form,
      CaptchaPages!Flows!NoChallenge, CaptchaPages!Flows!Send, CaptchaPages!Flows!Effect,
      CaptchaPages!Flows!server, CaptchaPages!Flows!app, CaptchaPages!Flows!history,
      CaptchaPages!Flows!Asked, CaptchaPages!Flows!formVars, CaptchaPages!Flows!Leave,
      CaptchaPages!Flows!losses, CaptchaPages!Flows!NoMe, CaptchaPages!Flows!Respond,
      CaptchaPages!Flows!EnrolledMfa, CaptchaPages!Flows!SignIns, CaptchaPages!Flows!Mounted,
      CaptchaPages!Flows!Idle, CaptchaPages!Flows!UserWithCodes, CaptchaPages!Flows!GateFor,
      CaptchaPages!Flows!To, CaptchaPages!Flows!SignedInAs, CaptchaPages!Flows!AfterFailure,
      CaptchaPages!Flows!Pending, CaptchaPages!Flows!Cardinality
<1> QED BY <1>1, <1>2, <1>3

LEMMA CaptchaKeeps ==
  ASSUME CaptchaPages!FlowInv, [WithCaptcha!Next]_WithCaptcha!vars
  PROVE  CaptchaPages!FlowInv'
BY AccessConstants, CaptchaMoves, CaptchaPages!FlowKeeps

LEMMA CaptchaShows ==
  ASSUME CaptchaPages!FlowInv
  PROVE  WithCaptcha!TypeOK /\ WithCaptcha!CaptchaUsable
<1>1. CaptchaPages!Flows!TypeOK /\ CaptchaPages!Flows!CaptchaUsable
  BY AccessConstants, CaptchaPages!FlowShows
<1>2. WithCaptcha!TypeOK
  BY <1>1 DEF WithCaptcha!TypeOK, WithCaptcha!Kinds, CaptchaPages!Flows!TypeOK,
      CaptchaPages!Flows!Kinds
<1>3. WithCaptcha!CaptchaUsable
  BY <1>1 DEF WithCaptcha!CaptchaUsable, WithCaptcha!Form, WithCaptcha!NoChallenge,
      CaptchaPages!Flows!CaptchaUsable, CaptchaPages!Flows!Form, CaptchaPages!Flows!NoChallenge
<1> QED BY <1>2, <1>3

(* Api: its first states and its steps, and what its invariant says. *)
LEMMA ApiOpens == ASSUME Api!Init PROVE FirstPages!PermInv
<1>1. FirstPages!Perms!Init
  BY DEF Api!Init, Api!Payload, Api!Overview, Api!Normalize, Api!RoleDecision, Api!BuiltIn,
      Api!Underscored, Api!Nothing, Api!Separators, FirstPages!Perms!Init,
      FirstPages!Perms!Payload, FirstPages!Perms!Overview, FirstPages!Perms!Normalize,
      FirstPages!Perms!RoleDecision, FirstPages!Perms!BuiltIn, FirstPages!Perms!Underscored,
      FirstPages!Perms!Nothing, FirstPages!Perms!Separators
<1> QED BY AccessConstants, <1>1, FirstPages!PermOpens

(* The operators of Api and of FirstPages are the same, one after the      *)
(* other.                                                                  *)
LEMMA ApiAgrees ==
  /\ \A s, t : Api!IsPrefix(s, t) <=> FirstPages!Perms!IsPrefix(s, t)
  /\ \A s : Api!Reverse(s) = FirstPages!Perms!Reverse(s)
  /\ \A s, t : Api!IsSuffix(s, t) <=> FirstPages!Perms!IsSuffix(s, t)
  /\ \A s, tail : Api!EndsWith(s, tail) <=> FirstPages!Perms!EndsWith(s, tail)
  /\ \A s, n : Api!Cut(s, n) = FirstPages!Perms!Cut(s, n)
  /\ Api!Record = FirstPages!Perms!Record
  /\ Api!Routes = FirstPages!Perms!Routes
  /\ \A name : Api!Normalize(name) = FirstPages!Perms!Normalize(name)
  /\ \A name : Api!NormalizeRole(name) = FirstPages!Perms!NormalizeRole(name)
  /\ \A s : Api!TrimRight(s) = FirstPages!Perms!TrimRight(s)
  /\ \A s : Api!TrimRightSlash(s) = FirstPages!Perms!TrimRightSlash(s)
  /\ \A pattern, p : Api!PathMatches(pattern, p) <=> FirstPages!Perms!PathMatches(pattern, p)
  /\ \A pattern, p : Api!PagePathMatches(pattern, p) <=> FirstPages!Perms!PagePathMatches(pattern, p)
  /\ \A pattern, p : Api!DetailMatches(pattern, p) <=> FirstPages!Perms!DetailMatches(pattern, p)
  /\ \A g, m, p : Api!AuditRead(g, m, p) <=> FirstPages!Perms!AuditRead(g, m, p)
  /\ \A g, m, p : Api!PermissionMatches(g, m, p) <=> FirstPages!Perms!PermissionMatches(g, m, p)
  /\ \A g, m, p : Api!PagePermissionMatches(g, m, p) <=> FirstPages!Perms!PagePermissionMatches(g, m, p)
  /\ Api!RoleDecision = FirstPages!Perms!RoleDecision
  /\ Api!Payload = FirstPages!Perms!Payload
  /\ \A a : Api!Kind(a) = FirstPages!Perms!Kind(a)
  /\ \A m, p : Api!Allowed(m, p) <=> FirstPages!Perms!Allowed(m, p)
  /\ \A a, m, p : Api!CanUseAPI(a, m, p) <=> FirstPages!Perms!CanUseAPI(a, m, p)
  /\ \A p : Api!MenuCandidates(p) = FirstPages!Perms!MenuCandidates(p)
  /\ \A a, p : Api!MenuAllows(a, p) <=> FirstPages!Perms!MenuAllows(a, p)
  /\ \A a, p : Api!CanView(a, p) <=> FirstPages!Perms!CanView(a, p)
  /\ \A a, to : Api!Gate(a, to) <=> FirstPages!Perms!Gate(a, to)
  /\ \A a, to : Api!Shown(a, to) = FirstPages!Perms!Shown(a, to)
  /\ \A a : Api!SidebarLinks(a) = FirstPages!Perms!SidebarLinks(a)
  /\ \A a : Api!MobileLinks(a) = FirstPages!Perms!MobileLinks(a)
  /\ \A a : Api!HeaderLinks(a) = FirstPages!Perms!HeaderLinks(a)
  /\ \A a : Api!SearchLinks(a) = FirstPages!Perms!SearchLinks(a)
  /\ \A a : Api!Links(a) = FirstPages!Perms!Links(a)
<1>1. \A s, t : Api!IsPrefix(s, t) <=> FirstPages!Perms!IsPrefix(s, t)
  BY DEF Api!IsPrefix, FirstPages!Perms!IsPrefix
<1>2. \A s : Api!Reverse(s) = FirstPages!Perms!Reverse(s)
  BY DEF Api!Reverse, FirstPages!Perms!Reverse
<1>3. \A s, t : Api!IsSuffix(s, t) <=> FirstPages!Perms!IsSuffix(s, t)
  BY <1>1, <1>2 DEF Api!IsSuffix, FirstPages!Perms!IsSuffix
<1>4. \A s, tail : Api!EndsWith(s, tail) <=> FirstPages!Perms!EndsWith(s, tail)
  BY <1>3 DEF Api!EndsWith, FirstPages!Perms!EndsWith
<1>5. \A s, n : Api!Cut(s, n) = FirstPages!Perms!Cut(s, n)
  BY DEF Api!Cut, FirstPages!Perms!Cut
<1>6. Api!Record = FirstPages!Perms!Record
  BY DEF Api!Record, FirstPages!Perms!Record
<1>7. Api!Routes = FirstPages!Perms!Routes
  BY DEF Api!Routes, FirstPages!Perms!Routes
<1>8. \A name : Api!Normalize(name) = FirstPages!Perms!Normalize(name)
  BY DEF Api!Normalize, Api!BuiltIn, Api!Underscored, Api!Separators,
      FirstPages!Perms!Normalize, FirstPages!Perms!BuiltIn, FirstPages!Perms!Underscored,
      FirstPages!Perms!Separators
<1>9. \A name : Api!NormalizeRole(name) = FirstPages!Perms!NormalizeRole(name)
  BY DEF Api!NormalizeRole, Api!BuiltIn, Api!Underscored, Api!Collapsed, Api!Separators,
      Api!Cardinality, Api!Kept, Api!Before, FirstPages!Perms!NormalizeRole,
      FirstPages!Perms!BuiltIn, FirstPages!Perms!Underscored, FirstPages!Perms!Collapsed,
      FirstPages!Perms!Separators, FirstPages!Perms!Cardinality, FirstPages!Perms!Kept,
      FirstPages!Perms!Before
<1>10. \A s : Api!TrimRight(s) = FirstPages!Perms!TrimRight(s)
  BY DEF Api!TrimRight, FirstPages!Perms!TrimRight
<1>11. \A s : Api!TrimRightSlash(s) = FirstPages!Perms!TrimRightSlash(s)
  BY <1>10 DEF Api!TrimRightSlash, FirstPages!Perms!TrimRightSlash
<1>12. \A pattern, p : Api!PathMatches(pattern, p) <=> FirstPages!Perms!PathMatches(pattern, p)
  BY <1>1, <1>4, <1>5 DEF Api!PathMatches, FirstPages!Perms!PathMatches
<1>13. \A pattern, p : Api!PagePathMatches(pattern, p) <=> FirstPages!Perms!PagePathMatches(pattern, p)
  BY <1>1, <1>4, <1>5 DEF Api!PagePathMatches, FirstPages!Perms!PagePathMatches
<1>14. \A pattern, p : Api!DetailMatches(pattern, p) <=> FirstPages!Perms!DetailMatches(pattern, p)
  BY <1>1 DEF Api!DetailMatches, FirstPages!Perms!DetailMatches
<1>15. \A g, m, p : Api!AuditRead(g, m, p) <=> FirstPages!Perms!AuditRead(g, m, p)
  BY <1>1 DEF Api!AuditRead, Api!AuditPrefix, FirstPages!Perms!AuditRead,
      FirstPages!Perms!AuditPrefix
<1>16. \A g, m, p : Api!PermissionMatches(g, m, p) <=> FirstPages!Perms!PermissionMatches(g, m, p)
  BY <1>10, <1>12, <1>14, <1>15 DEF Api!PermissionMatches, Api!Special,
      FirstPages!Perms!PermissionMatches, FirstPages!Perms!Special
<1>17. \A g, m, p : Api!PagePermissionMatches(g, m, p) <=> FirstPages!Perms!PagePermissionMatches(g, m, p)
  BY <1>11, <1>13, <1>14, <1>15, Zenon DEF Api!PagePermissionMatches, Api!Special,
      FirstPages!Perms!PagePermissionMatches, FirstPages!Perms!Special
<1>18. Api!RoleDecision = FirstPages!Perms!RoleDecision
  BY <1>8, Zenon DEF Api!RoleDecision, Api!Nothing, FirstPages!Perms!RoleDecision,
      FirstPages!Perms!Nothing
<1>19. Api!Payload = FirstPages!Perms!Payload
  BY <1>8, <1>18 DEF Api!Payload, FirstPages!Perms!Payload
<1>20. \A a : Api!Kind(a) = FirstPages!Perms!Kind(a)
  BY <1>9 DEF Api!Kind, FirstPages!Perms!Kind
<1>21. \A m, p : Api!Allowed(m, p) <=> FirstPages!Perms!Allowed(m, p)
  BY <1>1, <1>10, <1>16, <1>18 DEF Api!Allowed, Api!AlwaysAllowed, Api!Admin, Api!AuditorMay,
      Api!AuditorPaths, Api!AuditPrefix, FirstPages!Perms!Allowed,
      FirstPages!Perms!AlwaysAllowed, FirstPages!Perms!Admin, FirstPages!Perms!AuditorMay,
      FirstPages!Perms!AuditorPaths, FirstPages!Perms!AuditPrefix
<1>22. \A a, m, p : Api!CanUseAPI(a, m, p) <=> FirstPages!Perms!CanUseAPI(a, m, p)
  BY <1>1, <1>11, <1>17, <1>20 DEF Api!CanUseAPI, Api!Admin, Api!PageAuditorMay,
      Api!AuditorPaths, Api!AuditPrefix, FirstPages!Perms!CanUseAPI, FirstPages!Perms!Admin,
      FirstPages!Perms!PageAuditorMay, FirstPages!Perms!AuditorPaths,
      FirstPages!Perms!AuditPrefix
<1>23. \A p : Api!MenuCandidates(p) = FirstPages!Perms!MenuCandidates(p)
  BY DEF Api!MenuCandidates, FirstPages!Perms!MenuCandidates
<1>24. \A a, p : Api!MenuAllows(a, p) <=> FirstPages!Perms!MenuAllows(a, p)
  BY <1>1, <1>4, <1>5, <1>23 DEF Api!MenuAllows, FirstPages!Perms!MenuAllows
<1>25. \A a, p : Api!CanView(a, p) <=> FirstPages!Perms!CanView(a, p)
  BY <1>4, <1>20, <1>24 DEF Api!CanView, Api!Admin, Api!AuditorCollections,
      FirstPages!Perms!CanView, FirstPages!Perms!Admin, FirstPages!Perms!AuditorCollections
<1>26. \A a, to : Api!Gate(a, to) <=> FirstPages!Perms!Gate(a, to)
  BY <1>20, <1>25 DEF Api!Gate, Api!Servers, Api!Sessions, Api!Admin, Api!Audit,
      FirstPages!Perms!Gate, FirstPages!Perms!Servers, FirstPages!Perms!Sessions,
      FirstPages!Perms!Admin, FirstPages!Perms!Audit
<1>27. \A a, to : Api!Shown(a, to) = FirstPages!Perms!Shown(a, to)
  BY <1>26 DEF Api!Shown, Api!Access, FirstPages!Perms!Shown, FirstPages!Perms!Access
<1>28. \A a : Api!SidebarLinks(a) = FirstPages!Perms!SidebarLinks(a)
  BY <1>20, <1>25 DEF Api!SidebarLinks, Api!Overview, Api!Access, Api!Admin, Api!Servers,
      FirstPages!Perms!SidebarLinks, FirstPages!Perms!Overview, FirstPages!Perms!Access,
      FirstPages!Perms!Admin, FirstPages!Perms!Servers
<1>29. \A a : Api!MobileLinks(a) = FirstPages!Perms!MobileLinks(a)
  BY <1>20, <1>25 DEF Api!MobileLinks, Api!Overview, Api!Access, Api!Admin, Api!Servers,
      FirstPages!Perms!MobileLinks, FirstPages!Perms!Overview, FirstPages!Perms!Access,
      FirstPages!Perms!Admin, FirstPages!Perms!Servers
<1>30. \A a : Api!HeaderLinks(a) = FirstPages!Perms!HeaderLinks(a)
  BY <1>25 DEF Api!HeaderLinks, Api!Access, Api!Assets, FirstPages!Perms!HeaderLinks,
      FirstPages!Perms!Access, FirstPages!Perms!Assets
<1>31. \A a : Api!SearchLinks(a) = FirstPages!Perms!SearchLinks(a)
  BY <1>20, <1>25 DEF Api!SearchLinks, Api!Overview, Api!Access, Api!Admin, Api!Servers,
      Api!Sessions, Api!Audit, FirstPages!Perms!SearchLinks, FirstPages!Perms!Overview,
      FirstPages!Perms!Access, FirstPages!Perms!Admin, FirstPages!Perms!Servers,
      FirstPages!Perms!Sessions, FirstPages!Perms!Audit
<1>32. \A a : Api!Links(a) = FirstPages!Perms!Links(a)
  BY <1>28, <1>29, <1>30, <1>31 DEF Api!Links, FirstPages!Perms!Links
<1> QED BY <1>1, <1>2, <1>3, <1>4, <1>5, <1>6, <1>7, <1>8, <1>9, <1>10, <1>11, <1>12, <1>13,
  <1>14, <1>15, <1>16, <1>17, <1>18, <1>19, <1>20, <1>21, <1>22, <1>23, <1>24, <1>25, <1>26,
  <1>27, <1>28, <1>29, <1>30, <1>31, <1>32

LEMMA ApiMoves ==
  ASSUME [Api!Next]_Api!vars
  PROVE  [FirstPages!Perms!Next]_FirstPages!Perms!vars
<1>1. Api!vars = FirstPages!Perms!vars
  BY DEF Api!vars, FirstPages!Perms!vars
<1>2. Api!vars' = FirstPages!Perms!vars'
  BY DEF Api!vars, FirstPages!Perms!vars
<1>3. Api!Next => FirstPages!Perms!Next
  BY ApiAgrees DEF Api!Next, Api!EditRecord, Api!AssignRole, Api!AskMe, Api!ServeMe, Api!TakeMe,
      Api!Servers, Api!Sessions, Api!Audit, Api!Follow, FirstPages!Perms!Next,
      FirstPages!Perms!EditRecord, FirstPages!Perms!AssignRole, FirstPages!Perms!AskMe,
      FirstPages!Perms!ServeMe, FirstPages!Perms!TakeMe, FirstPages!Perms!Servers,
      FirstPages!Perms!Sessions, FirstPages!Perms!Audit, FirstPages!Perms!Follow
<1> QED BY <1>1, <1>2, <1>3

LEMMA ApiKeeps ==
  ASSUME FirstPages!PermInv, [Api!Next]_Api!vars
  PROVE  FirstPages!PermInv'
BY AccessConstants, ApiMoves, FirstPages!PermKeeps

LEMMA ApiShows ==
  ASSUME FirstPages!PermInv
  PROVE  Api!TypeOK /\ Api!OfferedIsAllowed /\ Api!AllowedIsOffered
<1>1. FirstPages!Perms!TypeOK /\ FirstPages!Perms!OfferedIsAllowed /\ FirstPages!Perms!AllowedIsOffered
  BY AccessConstants, FirstPages!PermShows
<1>2. Api!TypeOK
  BY <1>1 DEF Api!TypeOK, Api!Record, Api!Copies, Api!Routes, Api!Servers, Api!Sessions,
      Api!Audit, Api!Overview, Api!Access, FirstPages!Perms!TypeOK, FirstPages!Perms!Record,
      FirstPages!Perms!Copies, FirstPages!Perms!Routes, FirstPages!Perms!Servers,
      FirstPages!Perms!Sessions, FirstPages!Perms!Audit, FirstPages!Perms!Overview,
      FirstPages!Perms!Access
<1>3. Api!OfferedIsAllowed
  BY <1>1, ApiAgrees DEF Api!OfferedIsAllowed, Api!Current, Api!Plain, Api!Separators,
      FirstPages!Perms!OfferedIsAllowed, FirstPages!Perms!Current, FirstPages!Perms!Plain,
      FirstPages!Perms!Separators
<1>4. Api!AllowedIsOffered
  BY <1>1, ApiAgrees DEF Api!AllowedIsOffered, Api!Current, Api!AlwaysAllowed,
      FirstPages!Perms!AllowedIsOffered, FirstPages!Perms!Current,
      FirstPages!Perms!AlwaysAllowed
<1> QED BY <1>2, <1>3, <1>4

(* Menu: its first states and its steps, and what its invariant says. *)
LEMMA MenuOpens == ASSUME Menu!Init PROVE SlowPages!PermInv
<1>1. SlowPages!Perms!Init
  BY Zenon DEF Menu!Init, Menu!Payload, Menu!Overview, Menu!Normalize, Menu!RoleDecision,
      Menu!BuiltIn, Menu!Underscored, Menu!Nothing, Menu!Separators, SlowPages!Perms!Init,
      SlowPages!Perms!Payload, SlowPages!Perms!Overview, SlowPages!Perms!Normalize,
      SlowPages!Perms!RoleDecision, SlowPages!Perms!BuiltIn, SlowPages!Perms!Underscored,
      SlowPages!Perms!Nothing, SlowPages!Perms!Separators
<1> QED BY AccessConstants, <1>1, SlowPages!PermOpens

(* The operators of Menu and of SlowPages are the same, one after the      *)
(* other.                                                                  *)
LEMMA MenuAgrees ==
  /\ \A s, t : Menu!IsPrefix(s, t) <=> SlowPages!Perms!IsPrefix(s, t)
  /\ \A s : Menu!Reverse(s) = SlowPages!Perms!Reverse(s)
  /\ \A s, t : Menu!IsSuffix(s, t) <=> SlowPages!Perms!IsSuffix(s, t)
  /\ \A s, tail : Menu!EndsWith(s, tail) <=> SlowPages!Perms!EndsWith(s, tail)
  /\ \A s, n : Menu!Cut(s, n) = SlowPages!Perms!Cut(s, n)
  /\ Menu!Record = SlowPages!Perms!Record
  /\ Menu!Routes = SlowPages!Perms!Routes
  /\ \A name : Menu!Normalize(name) = SlowPages!Perms!Normalize(name)
  /\ \A name : Menu!NormalizeRole(name) = SlowPages!Perms!NormalizeRole(name)
  /\ Menu!RoleDecision = SlowPages!Perms!RoleDecision
  /\ Menu!Payload = SlowPages!Perms!Payload
  /\ \A a : Menu!Kind(a) = SlowPages!Perms!Kind(a)
  /\ \A p : Menu!MenuCandidates(p) = SlowPages!Perms!MenuCandidates(p)
  /\ \A a, p : Menu!MenuAllows(a, p) <=> SlowPages!Perms!MenuAllows(a, p)
  /\ \A a, p : Menu!CanView(a, p) <=> SlowPages!Perms!CanView(a, p)
  /\ \A a, to : Menu!Gate(a, to) <=> SlowPages!Perms!Gate(a, to)
  /\ \A a, to : Menu!Shown(a, to) = SlowPages!Perms!Shown(a, to)
  /\ \A a : Menu!SidebarLinks(a) = SlowPages!Perms!SidebarLinks(a)
  /\ \A a : Menu!MobileLinks(a) = SlowPages!Perms!MobileLinks(a)
  /\ \A a : Menu!HeaderLinks(a) = SlowPages!Perms!HeaderLinks(a)
  /\ \A a : Menu!SearchLinks(a) = SlowPages!Perms!SearchLinks(a)
  /\ \A a : Menu!Links(a) = SlowPages!Perms!Links(a)
<1>1. \A s, t : Menu!IsPrefix(s, t) <=> SlowPages!Perms!IsPrefix(s, t)
  BY DEF Menu!IsPrefix, SlowPages!Perms!IsPrefix
<1>2. \A s : Menu!Reverse(s) = SlowPages!Perms!Reverse(s)
  BY DEF Menu!Reverse, SlowPages!Perms!Reverse
<1>3. \A s, t : Menu!IsSuffix(s, t) <=> SlowPages!Perms!IsSuffix(s, t)
  BY <1>1, <1>2 DEF Menu!IsSuffix, SlowPages!Perms!IsSuffix
<1>4. \A s, tail : Menu!EndsWith(s, tail) <=> SlowPages!Perms!EndsWith(s, tail)
  BY <1>3 DEF Menu!EndsWith, SlowPages!Perms!EndsWith
<1>5. \A s, n : Menu!Cut(s, n) = SlowPages!Perms!Cut(s, n)
  BY DEF Menu!Cut, SlowPages!Perms!Cut
<1>6. Menu!Record = SlowPages!Perms!Record
  BY DEF Menu!Record, SlowPages!Perms!Record
<1>7. Menu!Routes = SlowPages!Perms!Routes
  BY DEF Menu!Routes, SlowPages!Perms!Routes
<1>8. \A name : Menu!Normalize(name) = SlowPages!Perms!Normalize(name)
  BY DEF Menu!Normalize, Menu!BuiltIn, Menu!Underscored, Menu!Separators,
      SlowPages!Perms!Normalize, SlowPages!Perms!BuiltIn, SlowPages!Perms!Underscored,
      SlowPages!Perms!Separators
<1>9. \A name : Menu!NormalizeRole(name) = SlowPages!Perms!NormalizeRole(name)
  BY DEF Menu!NormalizeRole, Menu!BuiltIn, Menu!Underscored, Menu!Collapsed, Menu!Separators,
      Menu!Cardinality, Menu!Kept, Menu!Before, SlowPages!Perms!NormalizeRole,
      SlowPages!Perms!BuiltIn, SlowPages!Perms!Underscored, SlowPages!Perms!Collapsed,
      SlowPages!Perms!Separators, SlowPages!Perms!Cardinality, SlowPages!Perms!Kept,
      SlowPages!Perms!Before
<1>10. Menu!RoleDecision = SlowPages!Perms!RoleDecision
  BY <1>8, Zenon DEF Menu!RoleDecision, Menu!Nothing, SlowPages!Perms!RoleDecision,
      SlowPages!Perms!Nothing
<1>11. Menu!Payload = SlowPages!Perms!Payload
  BY <1>8, <1>10 DEF Menu!Payload, SlowPages!Perms!Payload
<1>12. \A a : Menu!Kind(a) = SlowPages!Perms!Kind(a)
  BY <1>9 DEF Menu!Kind, SlowPages!Perms!Kind
<1>13. \A p : Menu!MenuCandidates(p) = SlowPages!Perms!MenuCandidates(p)
  BY DEF Menu!MenuCandidates, SlowPages!Perms!MenuCandidates
<1>14. \A a, p : Menu!MenuAllows(a, p) <=> SlowPages!Perms!MenuAllows(a, p)
  BY <1>1, <1>4, <1>5, <1>13 DEF Menu!MenuAllows, SlowPages!Perms!MenuAllows
<1>15. \A a, p : Menu!CanView(a, p) <=> SlowPages!Perms!CanView(a, p)
  BY <1>4, <1>12, <1>14 DEF Menu!CanView, Menu!Admin, Menu!AuditorCollections,
      SlowPages!Perms!CanView, SlowPages!Perms!Admin, SlowPages!Perms!AuditorCollections
<1>16. \A a, to : Menu!Gate(a, to) <=> SlowPages!Perms!Gate(a, to)
  BY <1>12, <1>15 DEF Menu!Gate, Menu!Servers, Menu!Sessions, Menu!Admin, Menu!Audit,
      SlowPages!Perms!Gate, SlowPages!Perms!Servers, SlowPages!Perms!Sessions,
      SlowPages!Perms!Admin, SlowPages!Perms!Audit
<1>17. \A a, to : Menu!Shown(a, to) = SlowPages!Perms!Shown(a, to)
  BY <1>16 DEF Menu!Shown, Menu!Access, SlowPages!Perms!Shown, SlowPages!Perms!Access
<1>18. \A a : Menu!SidebarLinks(a) = SlowPages!Perms!SidebarLinks(a)
  BY <1>12, <1>15 DEF Menu!SidebarLinks, Menu!Overview, Menu!Access, Menu!Admin, Menu!Servers,
      SlowPages!Perms!SidebarLinks, SlowPages!Perms!Overview, SlowPages!Perms!Access,
      SlowPages!Perms!Admin, SlowPages!Perms!Servers
<1>19. \A a : Menu!MobileLinks(a) = SlowPages!Perms!MobileLinks(a)
  BY <1>12, <1>15 DEF Menu!MobileLinks, Menu!Overview, Menu!Access, Menu!Admin, Menu!Servers,
      SlowPages!Perms!MobileLinks, SlowPages!Perms!Overview, SlowPages!Perms!Access,
      SlowPages!Perms!Admin, SlowPages!Perms!Servers
<1>20. \A a : Menu!HeaderLinks(a) = SlowPages!Perms!HeaderLinks(a)
  BY <1>15 DEF Menu!HeaderLinks, Menu!Access, Menu!Assets, SlowPages!Perms!HeaderLinks,
      SlowPages!Perms!Access, SlowPages!Perms!Assets
<1>21. \A a : Menu!SearchLinks(a) = SlowPages!Perms!SearchLinks(a)
  BY <1>12, <1>15 DEF Menu!SearchLinks, Menu!Overview, Menu!Access, Menu!Admin, Menu!Servers,
      Menu!Sessions, Menu!Audit, SlowPages!Perms!SearchLinks, SlowPages!Perms!Overview,
      SlowPages!Perms!Access, SlowPages!Perms!Admin, SlowPages!Perms!Servers,
      SlowPages!Perms!Sessions, SlowPages!Perms!Audit
<1>22. \A a : Menu!Links(a) = SlowPages!Perms!Links(a)
  BY <1>18, <1>19, <1>20, <1>21 DEF Menu!Links, SlowPages!Perms!Links
<1> QED BY <1>1, <1>2, <1>3, <1>4, <1>5, <1>6, <1>7, <1>8, <1>9, <1>10, <1>11, <1>12, <1>13,
  <1>14, <1>15, <1>16, <1>17, <1>18, <1>19, <1>20, <1>21, <1>22

LEMMA MenuMoves ==
  ASSUME [Menu!Next]_Menu!vars
  PROVE  [SlowPages!Perms!Next]_SlowPages!Perms!vars
<1>1. Menu!vars = SlowPages!Perms!vars
  BY DEF Menu!vars, SlowPages!Perms!vars
<1>2. Menu!vars' = SlowPages!Perms!vars'
  BY DEF Menu!vars, SlowPages!Perms!vars
<1>3. Menu!Next => SlowPages!Perms!Next
  BY MenuAgrees DEF Menu!Next, Menu!EditRecord, Menu!AssignRole, Menu!AskMe, Menu!ServeMe,
      Menu!TakeMe, Menu!Servers, Menu!Sessions, Menu!Audit, Menu!Follow, SlowPages!Perms!Next,
      SlowPages!Perms!EditRecord, SlowPages!Perms!AssignRole, SlowPages!Perms!AskMe,
      SlowPages!Perms!ServeMe, SlowPages!Perms!TakeMe, SlowPages!Perms!Servers,
      SlowPages!Perms!Sessions, SlowPages!Perms!Audit, SlowPages!Perms!Follow
<1> QED BY <1>1, <1>2, <1>3

LEMMA MenuKeeps ==
  ASSUME SlowPages!PermInv, [Menu!Next]_Menu!vars
  PROVE  SlowPages!PermInv'
BY AccessConstants, MenuMoves, SlowPages!PermKeeps

LEMMA MenuShows ==
  ASSUME SlowPages!PermInv
  PROVE  Menu!TypeOK /\ Menu!LinksLead
<1>1. SlowPages!Perms!TypeOK /\ SlowPages!Perms!LinksLead
  BY AccessConstants, SlowPages!PermShows
<1>2. Menu!TypeOK
  BY <1>1 DEF Menu!TypeOK, Menu!Record, Menu!Copies, Menu!Routes, Menu!Servers, Menu!Sessions,
      Menu!Audit, Menu!Overview, Menu!Access, SlowPages!Perms!TypeOK, SlowPages!Perms!Record,
      SlowPages!Perms!Copies, SlowPages!Perms!Routes, SlowPages!Perms!Servers,
      SlowPages!Perms!Sessions, SlowPages!Perms!Audit, SlowPages!Perms!Overview,
      SlowPages!Perms!Access
<1>3. Menu!LinksLead
  BY <1>1, MenuAgrees DEF Menu!LinksLead, SlowPages!Perms!LinksLead
<1> QED BY <1>2, <1>3

(* The first states have the invariant.                                    *)
LEMMA AccessStart == ASSUME PageInit PROVE AccessInv
<1>0. InputTypeOK
  BY KeysStart DEF PageInit
<1>1. ASSUME showing = "workspace" PROVE Parts!ViewInv
  BY <1>1, WorkspaceOpens DEF PageInit
<1>2. ASSUME showing = "platform" PROVE Parts!RecordingInv
  BY <1>2, PlatformOpens DEF PageInit
<1>3. ASSUME showing = "row" PROVE FirstPages!RowInv
  BY <1>3, RowOpens DEF PageInit
<1>4. ASSUME showing = "slow row" PROVE SlowPages!RowInv
  BY <1>4, SlowRowOpens DEF PageInit
<1>5. ASSUME showing = "player" PROVE FirstPages!PlayerInv
  BY <1>5, PlayerOpens DEF PageInit
<1>6. ASSUME showing = "server" PROVE Parts!AuthInv
  BY <1>6, ServerOpens DEF PageInit
<1>7. ASSUME showing = "signin" PROVE FirstPages!FlowInv
  BY <1>7, SignInOpens DEF PageInit
<1>8. ASSUME showing = "reauth" PROVE SlowPages!FlowInv
  BY <1>8, ReauthOpens DEF PageInit
<1>9. ASSUME showing = "captcha" PROVE CaptchaPages!FlowInv
  BY <1>9, CaptchaOpens DEF PageInit
<1>10. ASSUME showing = "api" PROVE FirstPages!PermInv
  BY <1>10, ApiOpens DEF PageInit
<1>11. ASSUME showing = "pages" PROVE SlowPages!PermInv
  BY <1>11, MenuOpens DEF PageInit
<1> QED BY <1>0, <1>1, <1>2, <1>3, <1>4, <1>5, <1>6, <1>7, <1>8, <1>9, <1>10, <1>11
  DEF AccessInv

(* Every step keeps it: the part on display takes one of its own, and the  *)
(* others are not there.                                                   *)
LEMMA AccessStep == ASSUME AccessInv, [PageNext]_state PROVE AccessInv'
<1>1. showing' = showing
  BY DEF PageNext, state
<1>2. InputTypeOK'
  <2>1. [InputNext]_inputVars
    BY DEF PageNext, state, notSession, notPlatform, notRow, notPlayer, notServer,
      notSignIn, notPermissions
  <2> QED BY <2>1, KeysKept DEF AccessInv
<1>3. ASSUME showing = "workspace" PROVE Parts!ViewInv'
  <2>1. Parts!ViewInv
    BY <1>3 DEF AccessInv
  <2>2. [Session!Next]_Session!vars
    BY <1>3 DEF PageNext, state, onlySession, onlyPlatform, onlyRow, onlyPlayer, onlyServer,
        onlySignIn, onlyPermissions, Session!vars, Session!viewState, Session!netVars
  <2> QED BY <2>1, <2>2, WorkspaceKeeps
<1>4. ASSUME showing = "platform" PROVE Parts!RecordingInv'
  <2>1. Parts!RecordingInv
    BY <1>4 DEF AccessInv
  <2>2. [Platform!RecordingNext]_Platform!recordingVars
    BY <1>4 DEF PageNext, state, onlySession, onlyPlatform, onlyRow, onlyPlayer, onlyServer,
        onlySignIn, onlyPermissions, Platform!recordingVars, Platform!sessVars,
        Platform!fileVars, Platform!jobVars, Platform!delVars
  <2> QED BY <2>1, <2>2, PlatformKeeps
<1>5. ASSUME showing = "row" PROVE FirstPages!RowInv'
  <2>1. FirstPages!RowInv
    BY <1>5 DEF AccessInv
  <2>2. [Row!Next]_Row!vars
    BY <1>5 DEF PageNext, state, onlySession, onlyPlatform, onlyRow, onlyPlayer, onlyServer,
        onlySignIn, onlyPermissions, Row!vars, Row!server, Row!row, Row!history
  <2> QED BY <2>1, <2>2, RowKeeps
<1>6. ASSUME showing = "slow row" PROVE SlowPages!RowInv'
  <2>1. SlowPages!RowInv
    BY <1>6 DEF AccessInv
  <2>2. [SlowRow!Next]_SlowRow!vars
    BY <1>6 DEF PageNext, state, onlySession, onlyPlatform, onlyRow, onlyPlayer, onlyServer,
        onlySignIn, onlyPermissions, SlowRow!vars, SlowRow!server, SlowRow!row, SlowRow!history
  <2> QED BY <2>1, <2>2, SlowRowKeeps
<1>7. ASSUME showing = "player" PROVE FirstPages!PlayerInv'
  <2>1. FirstPages!PlayerInv
    BY <1>7 DEF AccessInv
  <2>2. [Player!Next]_Player!vars
    BY <1>7 DEF PageNext, state, onlySession, onlyPlatform, onlyRow, onlyPlayer, onlyServer,
        onlySignIn, onlyPermissions, Player!vars, Player!dialog, Player!players, Player!display
  <2> QED BY <2>1, <2>2, PlayerKeeps
<1>8. ASSUME showing = "server" PROVE Parts!AuthInv'
  <2>1. Parts!AuthInv
    BY <1>8 DEF AccessInv
  <2>2. [Server!Next]_Server!vars
    BY <1>8 DEF PageNext, state, onlySession, onlyPlatform, onlyRow, onlyPlayer, onlyServer,
        onlySignIn, onlyPermissions, Server!vars, Server!sessions
  <2> QED BY <2>1, <2>2, ServerKeeps
<1>9. ASSUME showing = "signin" PROVE FirstPages!FlowInv'
  <2>1. FirstPages!FlowInv
    BY <1>9 DEF AccessInv
  <2>2. [Flows!Next]_Flows!vars
    BY <1>9 DEF PageNext, state, onlySession, onlyPlatform, onlyRow, onlyPlayer, onlyServer,
        onlySignIn, onlyPermissions, Flows!vars, Flows!server, Flows!app, Flows!formVars,
        Flows!history, Flows!losses
  <2> QED BY <2>1, <2>2, SignInKeeps
<1>10. ASSUME showing = "reauth" PROVE SlowPages!FlowInv'
  <2>1. SlowPages!FlowInv
    BY <1>10 DEF AccessInv
  <2>2. [Again!Next]_Again!vars
    BY <1>10 DEF PageNext, state, onlySession, onlyPlatform, onlyRow, onlyPlayer, onlyServer,
        onlySignIn, onlyPermissions, Again!vars, Again!server, Again!app, Again!formVars,
        Again!history, Again!losses
  <2> QED BY <2>1, <2>2, ReauthKeeps
<1>11. ASSUME showing = "captcha" PROVE CaptchaPages!FlowInv'
  <2>1. CaptchaPages!FlowInv
    BY <1>11 DEF AccessInv
  <2>2. [WithCaptcha!Next]_WithCaptcha!vars
    BY <1>11 DEF PageNext, state, onlySession, onlyPlatform, onlyRow, onlyPlayer, onlyServer,
        onlySignIn, onlyPermissions, WithCaptcha!vars, WithCaptcha!server, WithCaptcha!app,
        WithCaptcha!formVars, WithCaptcha!history, WithCaptcha!losses
  <2> QED BY <2>1, <2>2, CaptchaKeeps
<1>12. ASSUME showing = "api" PROVE FirstPages!PermInv'
  <2>1. FirstPages!PermInv
    BY <1>12 DEF AccessInv
  <2>2. [Api!Next]_Api!vars
    BY <1>12 DEF PageNext, state, onlySession, onlyPlatform, onlyRow, onlyPlayer, onlyServer,
        onlySignIn, onlyPermissions, Api!vars
  <2> QED BY <2>1, <2>2, ApiKeeps
<1>13. ASSUME showing = "pages" PROVE SlowPages!PermInv'
  <2>1. SlowPages!PermInv
    BY <1>13 DEF AccessInv
  <2>2. [Menu!Next]_Menu!vars
    BY <1>13 DEF PageNext, state, onlySession, onlyPlatform, onlyRow, onlyPlayer, onlyServer,
        onlySignIn, onlyPermissions, Menu!vars
  <2> QED BY <2>1, <2>2, MenuKeeps
<1> QED BY <1>1, <1>2, <1>3, <1>4, <1>5, <1>6, <1>7, <1>8, <1>9, <1>10, <1>11, <1>12, <1>13
  DEF AccessInv

(* So every state has it.                                                  *)
LEMMA AccessInvariance == PageSpec => []AccessInv
<1>1. PageInit => AccessInv
  BY AccessStart
<1>2. AccessInv /\ [PageNext]_state => AccessInv'
  BY AccessStep
<1> QED BY <1>1, <1>2, PTL DEF PageSpec

(* The variables of every part hold values the code can give them, in      *)
(* behaviours of any length.                                               *)
THEOREM AccessTypes == PageSpec => []TypesOK
<1>1. AccessInv => TypesOK
  <2> SUFFICES ASSUME AccessInv PROVE TypesOK
    OBVIOUS
  <2>1. ASSUME showing = "workspace" PROVE Session!TypeOK
    BY <2>1, WorkspaceShows DEF AccessInv
  <2>2. ASSUME showing = "platform" PROVE Platform!RecordingTypeOK
    BY <2>2, PlatformShows DEF AccessInv
  <2>3. ASSUME showing = "row" PROVE Row!TypeOK
    BY <2>3, RowShows DEF AccessInv
  <2>4. ASSUME showing = "slow row" PROVE SlowRow!TypeOK
    BY <2>4, SlowRowShows DEF AccessInv
  <2>5. ASSUME showing = "player" PROVE Player!TypeOK
    BY <2>5, PlayerShows DEF AccessInv
  <2>6. ASSUME showing = "server" PROVE Server!TypeOK
    BY <2>6, ServerShows DEF AccessInv
  <2>7. ASSUME showing = "signin" PROVE Flows!TypeOK
    BY <2>7, SignInShows DEF AccessInv
  <2>8. ASSUME showing = "reauth" PROVE Again!TypeOK
    BY <2>8, ReauthShows DEF AccessInv
  <2>9. ASSUME showing = "captcha" PROVE WithCaptcha!TypeOK
    BY <2>9, CaptchaShows DEF AccessInv
  <2>10. ASSUME showing = "api" PROVE Api!TypeOK
    BY <2>10, ApiShows DEF AccessInv
  <2>11. ASSUME showing = "pages" PROVE Menu!TypeOK
    BY <2>11, MenuShows DEF AccessInv
  <2> QED BY <2>1, <2>2, <2>3, <2>4, <2>5, <2>6, <2>7, <2>8, <2>9, <2>10, <2>11
    DEF AccessInv, TypesOK
<1> QED BY <1>1, AccessInvariance, PTL

(* The sign-in page and the shell agree with the server in any order of    *)
(* password, MFA, passkey and sign-out requests and their answers, but for *)
(* sign-ins that overlapped, answers lost after the server acted and codes *)
(* left by loading the page again; a captcha on display can be used. On    *)
(* the server a revoked token stays dead, a request is served with a role  *)
(* its user had, and the record of who is online is right at rest          *)
(* (AuthPage, LoginGate, AppProvider, authManager).                        *)
THEOREM SignInHolds == PageSpec => []SignInIsTrue
<1>1. AccessInv => SignInIsTrue
  <2> SUFFICES ASSUME AccessInv PROVE SignInIsTrue
    OBVIOUS
  <2>1. ASSUME showing = "server" PROVE Server!RevokedIsDead /\ Server!ServedAsUser /\ Server!OnlineMatches
    BY <2>1, ServerShows DEF AccessInv
  <2>2. ASSUME showing = "signin" PROVE Flows!AuthIsSession /\ Flows!CodesSeenInTurn /\ Flows!BusyIsTrue
    BY <2>2, SignInShows DEF AccessInv
  <2>3. ASSUME showing = "reauth" PROVE Again!AuthIsSession /\ Again!CodesSeenInTurn /\ Again!BusyIsTrue
    BY <2>3, ReauthShows DEF AccessInv
  <2>4. ASSUME showing = "captcha" PROVE WithCaptcha!CaptchaUsable
    BY <2>4, CaptchaShows DEF AccessInv
  <2> QED BY <2>1, <2>2, <2>3, <2>4 DEF AccessInv, SignInIsTrue
<1> QED BY <1>1, AccessInvariance, PTL

(* With a current copy of the permissions the page offers a request just   *)
(* when the server lets it through, and at any time its links lead where   *)
(* they say (canUseAPI, canViewPlatformPage, RoleGate, authorizeAPI).      *)
THEOREM OffersHold == PageSpec => []OffersAreTrue
<1>1. AccessInv => OffersAreTrue
  <2> SUFFICES ASSUME AccessInv PROVE OffersAreTrue
    OBVIOUS
  <2>1. ASSUME showing = "api" PROVE Api!OfferedIsAllowed /\ Api!AllowedIsOffered
    BY <2>1, ApiShows DEF AccessInv
  <2>2. ASSUME showing = "pages" PROVE Menu!LinksLead
    BY <2>2, MenuShows DEF AccessInv
  <2> QED BY <2>1, <2>2 DEF AccessInv, OffersAreTrue
<1> QED BY <1>1, AccessInvariance, PTL

(* What a page says of a session or of a recording is so, also after late  *)
(* answers and a restart of the service: the status and the busy flags of  *)
(* the workspace, the row's badge at rest and its button, the one player   *)
(* and its video, and a platform recording whose deletion was refused or   *)
(* accepted (WorkspaceView, ResourceRowActions, RecordingPlaybackDialog,   *)
(* deleteAuditRecording).                                                  *)
THEOREM ViewsHold == PageSpec => []ViewsAreTrue
<1>1. AccessInv => ViewsAreTrue
  <2> SUFFICES ASSUME AccessInv PROVE ViewsAreTrue
    OBVIOUS
  <2>1. ASSUME showing = "workspace" PROVE Session!StatusIsTrue /\ Session!BusyIsTrue
    BY <2>1, WorkspaceShows DEF AccessInv
  <2>2. ASSUME showing = "platform" PROVE Platform!RefusedDeleteKeeps /\ Platform!DeleteIsFinal
    BY <2>2, PlatformShows DEF AccessInv
  <2>3. ASSUME showing = "row" PROVE Row!BadgeSettles /\ Row!BusyIsTrue
    BY <2>3, RowShows DEF AccessInv
  <2>4. ASSUME showing = "slow row" PROVE SlowRow!BadgeSettles /\ SlowRow!BusyIsTrue
    BY <2>4, SlowRowShows DEF AccessInv
  <2>5. ASSUME showing = "player" PROVE Player!VideoIsClear /\ Player!OnePlayer /\ Player!FirstPlayerIsShown
    BY <2>5, PlayerShows DEF AccessInv
  <2> QED BY <2>1, <2>2, <2>3, <2>4, <2>5 DEF AccessInv, ViewsAreTrue
<1> QED BY <1>1, AccessInvariance, PTL

(* A row's badge never goes back to an earlier state of the transcoding    *)
(* because of an answer that comes late, however many steps the behaviour  *)
(* has (poll in ResourceRowActions).                                       *)
THEOREM BadgesNeverGoBack == PageSpec => NoStepBack
<1> DEFINE A == /\ showing = "row" => Row!NoStepBack
                /\ showing = "slow row" => SlowRow!NoStepBack
<1>1. AccessInv /\ [PageNext]_state => A
  <2> SUFFICES ASSUME AccessInv, [PageNext]_state PROVE A
    OBVIOUS
  <2>1. ASSUME showing = "row" PROVE Row!NoStepBack
    <3>1. FirstPages!RowInv
      BY <2>1, Zenon DEF AccessInv
    <3>2. [Row!Next]_Row!vars
      BY <2>1, Zenon DEF PageNext, state, onlySession, onlyPlatform, onlyRow, onlyPlayer,
          onlyServer, onlySignIn, onlyPermissions, Row!vars, Row!server, Row!row, Row!history
    <3> QED BY <3>1, <3>2, RowNeverBack
  <2>2. ASSUME showing = "slow row" PROVE SlowRow!NoStepBack
    <3>1. SlowPages!RowInv
      BY <2>2, Zenon DEF AccessInv
    <3>2. [SlowRow!Next]_SlowRow!vars
      BY <2>2, Zenon DEF PageNext, state, onlySession, onlyPlatform, onlyRow, onlyPlayer,
          onlyServer, onlySignIn, onlyPermissions, SlowRow!vars, SlowRow!server, SlowRow!row,
          SlowRow!history
    <3> QED BY <3>1, <3>2, SlowRowNeverBack
  <2> QED BY <2>1, <2>2
<1>2. PageSpec => [][A]_state
  BY <1>1, AccessInvariance, PTL DEF PageSpec
<1> QED BY <1>2, PTL DEF NoStepBack

(* No key stays down on a desktop that is not typed into, whatever is on   *)
(* display: every step is one of the keyboard or leaves it alone           *)
(* (RDPWorkspace).                                                         *)
THEOREM KeysStayReleased == PageSpec => []NothingHeldAway
<1>1. PageInit => Parts!InputInit
  BY DEF PageInit, InputInit, Parts!InputInit
<1>2. [PageNext]_state => [Parts!InputNext]_Parts!inputVars
  <2>1. inputVars = Parts!inputVars /\ inputVars' = Parts!inputVars'
    BY DEF inputVars, Parts!inputVars
  <2>2. InputNext => Parts!InputNext
    BY DEF InputNext, OnKeyDown, KeyRepeat, OnKeyUp, KeyUpMissed, OnWindowKeyUp, LoseFocus,
        OnMouseDown, FocusDisplay, ClientConnects, ClientLost, InputCleanup, Over, SentDown,
        ModifierKeys, SentUp, ReleaseInputState, Lost, Parts!InputNext, Parts!OnKeyDown,
        Parts!KeyRepeat, Parts!OnKeyUp, Parts!KeyUpMissed, Parts!OnWindowKeyUp, Parts!LoseFocus,
        Parts!OnMouseDown, Parts!FocusDisplay, Parts!ClientConnects, Parts!ClientLost,
        Parts!InputCleanup, Parts!Over, Parts!SentDown, Parts!ModifierKeys, Parts!SentUp,
        Parts!ReleaseInputState, Parts!Lost
  <2>3. [PageNext]_state => [InputNext]_inputVars
    BY DEF PageNext, state, notSession, notPlatform, notRow, notPlayer, notServer,
      notSignIn, notPermissions
  <2> QED BY <2>1, <2>2, <2>3
<1>3. Parts!InputSpec => [](Parts!InputTypeOK /\ Parts!NoForgottenKey /\ Parts!NothingHeldAway)
  BY PartsFit, Parts!KeysAreReleased
<1>4. Parts!NothingHeldAway => NothingHeldAway
  BY DEF NothingHeldAway, Lost, Parts!NothingHeldAway, Parts!Lost
<1> QED BY <1>1, <1>2, <1>3, <1>4, PTL DEF PageSpec, Parts!InputSpec

=============================================================================
