----------------------------- MODULE DialogsProofs -----------------------------
(***************************************************************************)
(* MCDialogs, for behaviours of any length: each property of its run       *)
(* follows from the invariant that DialogPagesProofs proves of the page on *)
(* display, at the page's own constants. A page of MCDialogs and the page  *)
(* of that module are the same formulas, and the steps that say so expand  *)
(* both.                                                                   *)
(***************************************************************************)
EXTENDS MCDialogs, TLAPS

Pages == INSTANCE DialogPagesProofs
  WITH Consoles <- {"c1"}, MaxRequests <- 3, MaxTokens <- 3, MaxChanges <- 1, MaxOpenings <- 2,
       MaxOpens <- 2, Kinds <- {"asset_import", "certificate_create", "task_logs", "ssh_exec"},
       Ids <- {"p1", "p2"}, Panel <- "ssh", Files <- {"f", "g"}, Folders <- {"home", "docs"},
       Home <- "home"
PagesOfTwo == INSTANCE DialogPagesProofs
  WITH Consoles <- {"c1"}, MaxRequests <- 2, MaxTokens <- 3, MaxChanges <- 1, MaxOpenings <- 2,
       MaxOpens <- 2, Kinds <- {"cloudflare"}, Ids <- {"p1", "p2"}, Panel <- "storage",
       Files <- {"f", "g"}, Folders <- {"home", "docs"}, Home <- "home"
PagesOfKinds == INSTANCE DialogPagesProofs
  WITH Consoles <- {"c1"}, MaxRequests <- 2, MaxTokens <- 3, MaxChanges <- 1, MaxOpenings <- 2,
       MaxOpens <- 2, Kinds <- {"cloudflare", "alidns"}, Ids <- {"p1"}, Panel <- "ssh",
       Files <- {"f", "g"}, Folders <- {"home", "docs"}, Home <- "home"
PagesOfOneFolder == INSTANCE DialogPagesProofs
  WITH Consoles <- {"c1"}, MaxRequests <- 3, MaxTokens <- 3, MaxChanges <- 1, MaxOpenings <- 2,
       MaxOpens <- 2, Kinds <- {"asset_import", "certificate_create", "task_logs", "ssh_exec"},
       Ids <- {"p1", "p2"}, Panel <- "storage", Files <- {"f", "g"}, Folders <- {"home"},
       Home <- "home"
PagesOfDrive == INSTANCE DialogPagesProofs
  WITH Consoles <- {"c1"}, MaxRequests <- 3, MaxTokens <- 3, MaxChanges <- 1, MaxOpenings <- 2,
       MaxOpens <- 2, Kinds <- {"asset_import", "certificate_create", "task_logs", "ssh_exec"},
       Ids <- {"p1", "p2"}, Panel <- "drive", Files <- {"f", "g"}, Folders <- {"home", "docs"},
       Home <- "home"

(* The page on display has its invariant, the others are not there.        *)
DialogsInv ==
  /\ showing = "orders" => Pages!OrdersInv
  /\ showing = "token" => Pages!TokenInv
  /\ showing = "operations" => Pages!OpInv
  /\ showing = "providers" => PagesOfTwo!DnsInv
  /\ showing = "provider" => PagesOfKinds!DnsInv
  /\ showing = "files" => PagesOfTwo!FilesInv
  /\ showing = "file" => PagesOfOneFolder!FilesInv
  /\ showing = "sftp" => Pages!FilesInv
  /\ showing = "drive" => PagesOfDrive!FilesInv
  /\ showing = "assets" => Pages!AssetInv

(* The constants of the run are ones the proofs of the pages allow.        *)
LEMMA DialogsConstants ==
  /\ Pages!Orders!ConstantsOK
  /\ Pages!Token!ConstantsOK
  /\ Pages!Operations!ConstantsOK
  /\ PagesOfTwo!Dns!ConstantsOK
  /\ PagesOfKinds!Dns!ConstantsOK
  /\ PagesOfTwo!Panels!ConstantsOK
  /\ PagesOfOneFolder!Panels!ConstantsOK
  /\ Pages!Panels!ConstantsOK
  /\ PagesOfDrive!Panels!ConstantsOK
  /\ Pages!Assets!ConstantsOK
<1>1. Pages!Orders!ConstantsOK
  BY DialogsAssumption DEF Orders!ConstantsOK, Pages!Orders!ConstantsOK
<1>2. Pages!Token!ConstantsOK
  BY DialogsAssumption DEF Token!ConstantsOK, Pages!Token!ConstantsOK
<1>3. Pages!Operations!ConstantsOK
  BY DialogsAssumption DEF Operations!ConstantsOK, Operations!Dialogs, Operations!AssetImport,
    Operations!UserImport, Operations!BulkAuthorize, Operations!CertificateCreate,
    Operations!CertificateUpload, Operations!CertificateACME, Operations!CertificateMTLS,
    Operations!CertificateLogs, Operations!TaskLogs, Operations!SSHExec, Operations!Plain,
    Pages!Operations!ConstantsOK, Pages!Operations!Dialogs, Pages!Operations!AssetImport,
    Pages!Operations!UserImport, Pages!Operations!BulkAuthorize,
    Pages!Operations!CertificateCreate, Pages!Operations!CertificateUpload,
    Pages!Operations!CertificateACME, Pages!Operations!CertificateMTLS,
    Pages!Operations!CertificateLogs, Pages!Operations!TaskLogs, Pages!Operations!SSHExec,
    Pages!Operations!Plain
<1>4. PagesOfTwo!Dns!ConstantsOK
  BY DialogsAssumption DEF Providers!ConstantsOK, PagesOfTwo!Dns!ConstantsOK
<1>5. PagesOfKinds!Dns!ConstantsOK
  BY DialogsAssumption DEF Provider!ConstantsOK, PagesOfKinds!Dns!ConstantsOK
<1>6. PagesOfTwo!Panels!ConstantsOK
  BY DialogsAssumption DEF Storage!ConstantsOK, PagesOfTwo!Panels!ConstantsOK
<1>7. PagesOfOneFolder!Panels!ConstantsOK
  BY DialogsAssumption DEF Editor!ConstantsOK, PagesOfOneFolder!Panels!ConstantsOK
<1>8. Pages!Panels!ConstantsOK
  BY DialogsAssumption DEF Sftp!ConstantsOK, Pages!Panels!ConstantsOK
<1>9. PagesOfDrive!Panels!ConstantsOK
  BY DialogsAssumption DEF Drive!ConstantsOK, PagesOfDrive!Panels!ConstantsOK
<1>10. Pages!Assets!ConstantsOK
  BY DialogsAssumption DEF Assets!ConstantsOK, Pages!Assets!ConstantsOK
<1> QED BY <1>1, <1>2, <1>3, <1>4, <1>5, <1>6, <1>7, <1>8, <1>9, <1>10

(* Orders: its first states and its steps, and what its invariant says. *)
LEMMA OrdersOpens == ASSUME Orders!Init PROVE Pages!OrdersInv
<1>1. Pages!Orders!Init
  BY DEF Orders!Init, Orders!NoFetch, Orders!Nobody, Pages!Orders!Init, Pages!Orders!NoFetch,
    Pages!Orders!Nobody
<1> QED BY <1>1, DialogsConstants, Pages!OrdersInit

LEMMA OrdersMoves == ASSUME [Orders!Next]_Orders!vars PROVE [Pages!Orders!Next]_Pages!Orders!vars
<1>1. Orders!vars = Pages!Orders!vars
  BY DEF Orders!vars, Orders!orderVars, Orders!pageVars, Orders!history, Pages!Orders!vars,
    Pages!Orders!orderVars, Pages!Orders!pageVars, Pages!Orders!history
<1>2. Orders!vars' = Pages!Orders!vars'
  BY DEF Orders!vars, Orders!orderVars, Orders!pageVars, Orders!history, Pages!Orders!vars,
    Pages!Orders!orderVars, Pages!Orders!pageVars, Pages!Orders!history
<1>3. Orders!Next => Pages!Orders!Next
  BY DEF Orders!Next, Orders!Decisions, Orders!OpenDialog, Orders!DismissDialog, Orders!Submit,
    Orders!BootstrapServed, Orders!BootstrapArrives, Orders!Serve, Orders!Return, Orders!Nobody,
    Orders!RowButtons, Orders!orderVars, Orders!history, Orders!NewRequest, Orders!NoFetch,
    Orders!Resumed, Orders!Read, Orders!Refuse, Orders!AskCode, Orders!Decide,
    Orders!LogDecision, Orders!RestoreDecision, Orders!Run, Orders!NotRun, Orders!Persist,
    Orders!PersistFails, Orders!Failed, Orders!Succeeded, Orders!Refetch, Orders!Finish,
    Orders!GiveCode, Orders!CancelCode, Orders!Order, Orders!MayProceed, Orders!Moved,
    Orders!Holding, Orders!pageVars, Orders!To, Orders!Verdict, Orders!ReportOf, Orders!Idle,
    Pages!Orders!Next, Pages!Orders!Decisions, Pages!Orders!OpenDialog,
    Pages!Orders!DismissDialog, Pages!Orders!Submit, Pages!Orders!BootstrapServed,
    Pages!Orders!BootstrapArrives, Pages!Orders!Serve, Pages!Orders!Return, Pages!Orders!Nobody,
    Pages!Orders!RowButtons, Pages!Orders!orderVars, Pages!Orders!history,
    Pages!Orders!NewRequest, Pages!Orders!NoFetch, Pages!Orders!Resumed, Pages!Orders!Read,
    Pages!Orders!Refuse, Pages!Orders!AskCode, Pages!Orders!Decide, Pages!Orders!LogDecision,
    Pages!Orders!RestoreDecision, Pages!Orders!Run, Pages!Orders!NotRun, Pages!Orders!Persist,
    Pages!Orders!PersistFails, Pages!Orders!Failed, Pages!Orders!Succeeded,
    Pages!Orders!Refetch, Pages!Orders!Finish, Pages!Orders!GiveCode, Pages!Orders!CancelCode,
    Pages!Orders!Order, Pages!Orders!MayProceed, Pages!Orders!Moved, Pages!Orders!Holding,
    Pages!Orders!pageVars, Pages!Orders!To, Pages!Orders!Verdict, Pages!Orders!ReportOf,
    Pages!Orders!Idle
<1> QED BY <1>1, <1>2, <1>3

LEMMA OrdersKeeps == ASSUME Pages!OrdersInv, [Orders!Next]_Orders!vars PROVE Pages!OrdersInv'
BY DialogsConstants, OrdersMoves, Pages!OrdersKeep

LEMMA OrdersShows ==
  ASSUME Pages!OrdersInv
  PROVE  Orders!TypeOK /\ Orders!ExecutedWasApproved /\ Orders!RunsOnceUnlessRaced /\
         Orders!AnsweredDecisionKept /\ Orders!SummaryTellsStatus /\ Orders!OwnWritesShown
<1>1. Pages!Orders!TypeOK /\ Pages!Orders!ExecutedWasApproved /\
      Pages!Orders!RunsOnceUnlessRaced /\ Pages!Orders!AnsweredDecisionKept /\
      Pages!Orders!SummaryTellsStatus /\ Pages!Orders!OwnWritesShown
  BY DialogsConstants, Pages!OrdersShow DEF Pages!OrdersInv
<1>2. Orders!TypeOK
  BY <1>1 DEF Orders!TypeOK, Orders!Statuses, Orders!Reports, Orders!Decisions, Orders!Requests,
    Orders!Ends, Pages!Orders!TypeOK, Pages!Orders!Statuses, Pages!Orders!Reports,
    Pages!Orders!Decisions, Pages!Orders!Requests, Pages!Orders!Ends
<1>3. Orders!ExecutedWasApproved
  BY <1>1 DEF Orders!ExecutedWasApproved, Orders!Holding, Pages!Orders!ExecutedWasApproved,
    Pages!Orders!Holding
<1>4. Orders!RunsOnceUnlessRaced
  BY <1>1 DEF Orders!RunsOnceUnlessRaced, Pages!Orders!RunsOnceUnlessRaced
<1>5. Orders!AnsweredDecisionKept
  BY <1>1 DEF Orders!AnsweredDecisionKept, Pages!Orders!AnsweredDecisionKept
<1>6. Orders!SummaryTellsStatus
  BY <1>1 DEF Orders!SummaryTellsStatus, Orders!DecisionSummary, Orders!ExecutionSummary,
    Orders!Statuses, Orders!Ends, Pages!Orders!SummaryTellsStatus, Pages!Orders!DecisionSummary,
    Pages!Orders!ExecutionSummary, Pages!Orders!Statuses, Pages!Orders!Ends
<1>7. Orders!OwnWritesShown
  BY <1>1 DEF Orders!OwnWritesShown, Pages!Orders!OwnWritesShown
<1> QED BY <1>2, <1>3, <1>4, <1>5, <1>6, <1>7

LEMMA OrdersStays == ASSUME Pages!OrdersInv, [Orders!Next]_Orders!vars PROVE Orders!SettledIsFinal
<1>1. Pages!Orders!SettledIsFinal
  BY DialogsConstants, OrdersMoves, Pages!OrdersSettle
<1> QED BY <1>1 DEF Orders!SettledIsFinal, Orders!Ends, Orders!Holding, Pages!Orders!SettledIsFinal,
  Pages!Orders!Ends, Pages!Orders!Holding

(* Token: its first states and its steps, and what its invariant says. *)
LEMMA TokenOpens == ASSUME Token!Init PROVE Pages!TokenInv
<1>1. Pages!Token!Init
  BY DEF Token!Init, Token!NoFetch, Pages!Token!Init, Pages!Token!NoFetch
<1> QED BY <1>1, DialogsConstants, Pages!TokenInit

LEMMA TokenMoves == ASSUME [Token!Next]_Token!vars PROVE [Pages!Token!Next]_Pages!Token!vars
<1>1. Token!vars = Pages!Token!vars
  BY DEF Token!vars, Token!server, Token!page, Token!view, Token!counters, Pages!Token!vars,
    Pages!Token!server, Pages!Token!page, Pages!Token!view, Pages!Token!counters
<1>2. Token!vars' = Pages!Token!vars'
  BY DEF Token!vars, Token!server, Token!page, Token!view, Token!counters, Pages!Token!vars,
    Pages!Token!server, Pages!Token!page, Pages!Token!view, Pages!Token!counters
<1>3. Token!Next => Pages!Token!Next
  BY DEF Token!Next, Token!Open, Token!RunEffectAgain, Token!Close, Token!BootstrapServed,
    Token!BootstrapArrives, Token!ThemeChanges, Token!OtherWrite, Token!Answered, Token!Failed,
    Token!Finally, Token!Refetch, Token!SaveToken, Token!RefuseToken, Token!LogToken,
    Token!RestoreGateway, Token!NewRun, Token!server, Token!page, Token!counters, Token!view,
    Token!NoFetch, Token!Alive, Token!To, Pages!Token!Next, Pages!Token!Open,
    Pages!Token!RunEffectAgain, Pages!Token!Close, Pages!Token!BootstrapServed,
    Pages!Token!BootstrapArrives, Pages!Token!ThemeChanges, Pages!Token!OtherWrite,
    Pages!Token!Answered, Pages!Token!Failed, Pages!Token!Finally, Pages!Token!Refetch,
    Pages!Token!SaveToken, Pages!Token!RefuseToken, Pages!Token!LogToken,
    Pages!Token!RestoreGateway, Pages!Token!NewRun, Pages!Token!server, Pages!Token!page,
    Pages!Token!counters, Pages!Token!view, Pages!Token!NoFetch, Pages!Token!Alive,
    Pages!Token!To
<1> QED BY <1>1, <1>2, <1>3

LEMMA TokenKeeps == ASSUME Pages!TokenInv, [Token!Next]_Token!vars PROVE Pages!TokenInv'
BY DialogsConstants, TokenMoves, Pages!TokenKeeps

LEMMA TokenShows ==
  ASSUME Pages!TokenInv
  PROVE  Token!TypeOK /\ Token!FieldsHaveToken /\ Token!ShownIsValid
<1>1. Pages!Token!TypeOK /\ Pages!Token!FieldsHaveToken /\ Pages!Token!ShownIsValid
  BY DialogsConstants, Pages!TokenShows DEF Pages!TokenInv
<1>2. Token!TypeOK
  BY <1>1 DEF Token!TypeOK, Token!Tokens, Pages!Token!TypeOK, Pages!Token!Tokens
<1>3. Token!FieldsHaveToken
  BY <1>1 DEF Token!FieldsHaveToken, Pages!Token!FieldsHaveToken
<1>4. Token!ShownIsValid
  BY <1>1 DEF Token!ShownIsValid, Pages!Token!ShownIsValid
<1> QED BY <1>2, <1>3, <1>4

LEMMA TokenStays == ASSUME Pages!TokenInv, [Token!Next]_Token!vars PROVE Token!ShownNeverOlder
<1>1. Pages!Token!ShownNeverOlder
  BY DialogsConstants, TokenMoves, Pages!TokenNeverOlder
<1> QED BY <1>1 DEF Token!ShownNeverOlder, Pages!Token!ShownNeverOlder

(* Operations: its first states and its steps, and what its invariant says. *)
LEMMA OperationsOpens == ASSUME Operations!Init PROVE Pages!OpInv
<1>1. Pages!Operations!Init
  BY DEF Operations!Init, Operations!None, Operations!NoFetch, Pages!Operations!Init,
    Pages!Operations!None, Pages!Operations!NoFetch
<1> QED BY <1>1, DialogsConstants, Pages!OpInit

LEMMA OperationsMoves == ASSUME [Operations!Next]_Operations!vars PROVE [Pages!Operations!Next]_Pages!Operations!vars
<1>1. Operations!vars = Pages!Operations!vars
  BY DEF Operations!vars, Operations!dialogVars, Operations!counters, Operations!serverVars,
    Pages!Operations!vars, Pages!Operations!dialogVars, Pages!Operations!counters,
    Pages!Operations!serverVars
<1>2. Operations!vars' = Pages!Operations!vars'
  BY DEF Operations!vars, Operations!dialogVars, Operations!counters, Operations!serverVars,
    Pages!Operations!vars, Pages!Operations!dialogVars, Pages!Operations!counters,
    Pages!Operations!serverVars
<1>3. Operations!Next => Pages!Operations!Next
  BY DEF Operations!Next, Operations!Dismiss, Operations!Edit, Operations!Submit,
    Operations!BootstrapServed, Operations!BootstrapArrives, Operations!Open, Operations!Answer,
    Operations!AskCode, Operations!GiveCode, Operations!CancelCode, Operations!Continue,
    Operations!None, Operations!counters, Operations!serverVars, Operations!Dialogs,
    Operations!NewRequest, Operations!dialogVars, Operations!NoFetch, Operations!Resumed,
    Operations!Serve, Operations!Refuse, Operations!Fail, Operations!Kind, Operations!To,
    Operations!Succeeded, Operations!Refused, Operations!Failed, Operations!CloseSlot,
    Operations!End, Operations!Refetch, Operations!AssetImport, Operations!UserImport,
    Operations!BulkAuthorize, Operations!CertificateCreate, Operations!CertificateUpload,
    Operations!CertificateACME, Operations!CertificateMTLS, Operations!CertificateLogs,
    Operations!TaskLogs, Operations!SSHExec, Operations!Next1, Operations!Shown,
    Operations!Told, Operations!Idle, Operations!Plain, Operations!Mounted,
    Pages!Operations!Next, Pages!Operations!Dismiss, Pages!Operations!Edit,
    Pages!Operations!Submit, Pages!Operations!BootstrapServed,
    Pages!Operations!BootstrapArrives, Pages!Operations!Open, Pages!Operations!Answer,
    Pages!Operations!AskCode, Pages!Operations!GiveCode, Pages!Operations!CancelCode,
    Pages!Operations!Continue, Pages!Operations!None, Pages!Operations!counters,
    Pages!Operations!serverVars, Pages!Operations!Dialogs, Pages!Operations!NewRequest,
    Pages!Operations!dialogVars, Pages!Operations!NoFetch, Pages!Operations!Resumed,
    Pages!Operations!Serve, Pages!Operations!Refuse, Pages!Operations!Fail,
    Pages!Operations!Kind, Pages!Operations!To, Pages!Operations!Succeeded,
    Pages!Operations!Refused, Pages!Operations!Failed, Pages!Operations!CloseSlot,
    Pages!Operations!End, Pages!Operations!Refetch, Pages!Operations!AssetImport,
    Pages!Operations!UserImport, Pages!Operations!BulkAuthorize,
    Pages!Operations!CertificateCreate, Pages!Operations!CertificateUpload,
    Pages!Operations!CertificateACME, Pages!Operations!CertificateMTLS,
    Pages!Operations!CertificateLogs, Pages!Operations!TaskLogs, Pages!Operations!SSHExec,
    Pages!Operations!Next1, Pages!Operations!Shown, Pages!Operations!Told,
    Pages!Operations!Idle, Pages!Operations!Plain, Pages!Operations!Mounted
<1> QED BY <1>1, <1>2, <1>3

LEMMA OperationsKeeps == ASSUME Pages!OpInv, [Operations!Next]_Operations!vars PROVE Pages!OpInv'
BY DialogsConstants, OperationsMoves, Pages!OpKeeps

LEMMA OperationsShows ==
  ASSUME Pages!OpInv
  PROVE  Operations!TypeOK /\ Operations!SettledRowsFresh /\ Operations!ResultIsOwn /\
         Operations!SummaryOfLastAttempt /\ Operations!OneRequestPerDialog
<1>1. Pages!Operations!TypeOK /\ Pages!Operations!SettledRowsFresh /\
      Pages!Operations!ResultIsOwn /\ Pages!Operations!SummaryOfLastAttempt /\
      Pages!Operations!OneRequestPerDialog
  BY DialogsConstants, Pages!OpShows DEF Pages!OpInv
<1>2. Operations!TypeOK
  BY <1>1 DEF Operations!TypeOK, Operations!None, Operations!Phases, Pages!Operations!TypeOK,
    Pages!Operations!None, Pages!Operations!Phases
<1>3. Operations!SettledRowsFresh
  BY <1>1 DEF Operations!SettledRowsFresh, Pages!Operations!SettledRowsFresh
<1>4. Operations!ResultIsOwn
  BY <1>1 DEF Operations!ResultIsOwn, Operations!None, Pages!Operations!ResultIsOwn,
    Pages!Operations!None
<1>5. Operations!SummaryOfLastAttempt
  BY <1>1 DEF Operations!SummaryOfLastAttempt, Operations!None, Operations!Dialogs,
    Operations!AssetImport, Operations!UserImport, Operations!BulkAuthorize,
    Operations!CertificateCreate, Operations!CertificateUpload, Operations!CertificateACME,
    Operations!CertificateMTLS, Operations!CertificateLogs, Operations!TaskLogs,
    Operations!SSHExec, Operations!Plain, Pages!Operations!SummaryOfLastAttempt,
    Pages!Operations!None, Pages!Operations!Dialogs, Pages!Operations!AssetImport,
    Pages!Operations!UserImport, Pages!Operations!BulkAuthorize,
    Pages!Operations!CertificateCreate, Pages!Operations!CertificateUpload,
    Pages!Operations!CertificateACME, Pages!Operations!CertificateMTLS,
    Pages!Operations!CertificateLogs, Pages!Operations!TaskLogs, Pages!Operations!SSHExec,
    Pages!Operations!Plain
<1>6. Operations!OneRequestPerDialog
  BY <1>1 DEF Operations!OneRequestPerDialog, Operations!Kind, Operations!Dialogs,
    Operations!AssetImport, Operations!UserImport, Operations!BulkAuthorize,
    Operations!CertificateCreate, Operations!CertificateUpload, Operations!CertificateACME,
    Operations!CertificateMTLS, Operations!CertificateLogs, Operations!TaskLogs,
    Operations!SSHExec, Operations!Plain, Pages!Operations!OneRequestPerDialog,
    Pages!Operations!Kind, Pages!Operations!Dialogs, Pages!Operations!AssetImport,
    Pages!Operations!UserImport, Pages!Operations!BulkAuthorize,
    Pages!Operations!CertificateCreate, Pages!Operations!CertificateUpload,
    Pages!Operations!CertificateACME, Pages!Operations!CertificateMTLS,
    Pages!Operations!CertificateLogs, Pages!Operations!TaskLogs, Pages!Operations!SSHExec,
    Pages!Operations!Plain
<1> QED BY <1>2, <1>3, <1>4, <1>5, <1>6

(* Providers: its first states and its steps, and what its invariant says. *)
LEMMA ProvidersOpens == ASSUME Providers!Init PROVE PagesOfTwo!DnsInv
<1>1. PagesOfTwo!Dns!Init
  BY DEF Providers!Init, Providers!NoRow, Providers!Cloudflare, Providers!NoQuestion,
    PagesOfTwo!Dns!Init, PagesOfTwo!Dns!NoRow, PagesOfTwo!Dns!Cloudflare,
    PagesOfTwo!Dns!NoQuestion
<1> QED BY <1>1, DialogsConstants, PagesOfTwo!DnsStarts

LEMMA ProvidersMoves == ASSUME [Providers!Next]_Providers!vars PROVE [PagesOfTwo!Dns!Next]_PagesOfTwo!Dns!vars
<1>1. Providers!vars = PagesOfTwo!Dns!vars
  BY DEF Providers!vars, Providers!form, Providers!history, PagesOfTwo!Dns!vars,
    PagesOfTwo!Dns!form, PagesOfTwo!Dns!history
<1>2. Providers!vars' = PagesOfTwo!Dns!vars'
  BY DEF Providers!vars, Providers!form, Providers!history, PagesOfTwo!Dns!vars,
    PagesOfTwo!Dns!form, PagesOfTwo!Dns!history
<1>3. Providers!Next => PagesOfTwo!Dns!Next
  BY DEF Providers!Next, Providers!CancelEdit, Providers!TypeToken, Providers!Submit,
    Providers!Decline, Providers!Accept, Providers!ChooseKind, Providers!EditProvider,
    Providers!AskDelete, Providers!OtherUpdate, Providers!Answered, Providers!Loaded,
    Providers!Done, Providers!Failed, Providers!Hold, Providers!Update, Providers!Delete,
    Providers!Logged, Providers!PutBack, Providers!Refuse, Providers!ServeList,
    Providers!Create, Providers!NoRow, Providers!ResetForm, Providers!history, Providers!Send,
    Providers!form, Providers!NoQuestion, Providers!DeletedRow, Providers!Cloudflare,
    Providers!To, Providers!MayUpdate, Providers!Updated, PagesOfTwo!Dns!Next,
    PagesOfTwo!Dns!CancelEdit, PagesOfTwo!Dns!TypeToken, PagesOfTwo!Dns!Submit,
    PagesOfTwo!Dns!Decline, PagesOfTwo!Dns!Accept, PagesOfTwo!Dns!ChooseKind,
    PagesOfTwo!Dns!EditProvider, PagesOfTwo!Dns!AskDelete, PagesOfTwo!Dns!OtherUpdate,
    PagesOfTwo!Dns!Answered, PagesOfTwo!Dns!Loaded, PagesOfTwo!Dns!Done, PagesOfTwo!Dns!Failed,
    PagesOfTwo!Dns!Hold, PagesOfTwo!Dns!Update, PagesOfTwo!Dns!Delete, PagesOfTwo!Dns!Logged,
    PagesOfTwo!Dns!PutBack, PagesOfTwo!Dns!Refuse, PagesOfTwo!Dns!ServeList,
    PagesOfTwo!Dns!Create, PagesOfTwo!Dns!NoRow, PagesOfTwo!Dns!ResetForm,
    PagesOfTwo!Dns!history, PagesOfTwo!Dns!Send, PagesOfTwo!Dns!form, PagesOfTwo!Dns!NoQuestion,
    PagesOfTwo!Dns!DeletedRow, PagesOfTwo!Dns!Cloudflare, PagesOfTwo!Dns!To,
    PagesOfTwo!Dns!MayUpdate, PagesOfTwo!Dns!Updated
<1> QED BY <1>1, <1>2, <1>3

LEMMA ProvidersKeeps == ASSUME PagesOfTwo!DnsInv, [Providers!Next]_Providers!vars PROVE PagesOfTwo!DnsInv'
BY DialogsConstants, ProvidersMoves, PagesOfTwo!DnsSteps

LEMMA ProvidersShows ==
  ASSUME PagesOfTwo!DnsInv
  PROVE  Providers!TypeOK /\ Providers!TokenOfItsProvider /\ Providers!SecretFitsUnlessRaced /\
         Providers!DeletedWereConfirmed
<1>1. PagesOfTwo!Dns!TypeOK /\ PagesOfTwo!Dns!TokenOfItsProvider /\
      PagesOfTwo!Dns!SecretFitsUnlessRaced /\ PagesOfTwo!Dns!DeletedWereConfirmed
  BY DialogsConstants, PagesOfTwo!DnsShows DEF PagesOfTwo!DnsInv
<1>2. Providers!TypeOK
  BY <1>1 DEF Providers!TypeOK, Providers!Rows, Providers!NoRow, Providers!Requests,
    PagesOfTwo!Dns!TypeOK, PagesOfTwo!Dns!Rows, PagesOfTwo!Dns!NoRow, PagesOfTwo!Dns!Requests
<1>3. Providers!TokenOfItsProvider
  BY <1>1 DEF Providers!TokenOfItsProvider, Providers!NoRow, PagesOfTwo!Dns!TokenOfItsProvider,
    PagesOfTwo!Dns!NoRow
<1>4. Providers!SecretFitsUnlessRaced
  BY <1>1 DEF Providers!SecretFitsUnlessRaced, Providers!NoRow,
    PagesOfTwo!Dns!SecretFitsUnlessRaced, PagesOfTwo!Dns!NoRow
<1>5. Providers!DeletedWereConfirmed
  BY <1>1 DEF Providers!DeletedWereConfirmed, PagesOfTwo!Dns!DeletedWereConfirmed
<1> QED BY <1>2, <1>3, <1>4, <1>5

(* Provider: its first states and its steps, and what its invariant says. *)
LEMMA ProviderOpens == ASSUME Provider!Init PROVE PagesOfKinds!DnsInv
<1>1. PagesOfKinds!Dns!Init
  BY DEF Provider!Init, Provider!NoRow, Provider!Cloudflare, Provider!NoQuestion,
    PagesOfKinds!Dns!Init, PagesOfKinds!Dns!NoRow, PagesOfKinds!Dns!Cloudflare,
    PagesOfKinds!Dns!NoQuestion
<1> QED BY <1>1, DialogsConstants, PagesOfKinds!DnsStarts

LEMMA ProviderMoves == ASSUME [Provider!Next]_Provider!vars PROVE [PagesOfKinds!Dns!Next]_PagesOfKinds!Dns!vars
<1>1. Provider!vars = PagesOfKinds!Dns!vars
  BY DEF Provider!vars, Provider!form, Provider!history, PagesOfKinds!Dns!vars,
    PagesOfKinds!Dns!form, PagesOfKinds!Dns!history
<1>2. Provider!vars' = PagesOfKinds!Dns!vars'
  BY DEF Provider!vars, Provider!form, Provider!history, PagesOfKinds!Dns!vars,
    PagesOfKinds!Dns!form, PagesOfKinds!Dns!history
<1>3. Provider!Next => PagesOfKinds!Dns!Next
  BY DEF Provider!Next, Provider!CancelEdit, Provider!TypeToken, Provider!Submit,
    Provider!Decline, Provider!Accept, Provider!ChooseKind, Provider!EditProvider,
    Provider!AskDelete, Provider!OtherUpdate, Provider!Answered, Provider!Loaded, Provider!Done,
    Provider!Failed, Provider!Hold, Provider!Update, Provider!Delete, Provider!Logged,
    Provider!PutBack, Provider!Refuse, Provider!ServeList, Provider!Create, Provider!NoRow,
    Provider!ResetForm, Provider!history, Provider!Send, Provider!form, Provider!NoQuestion,
    Provider!DeletedRow, Provider!Cloudflare, Provider!To, Provider!MayUpdate, Provider!Updated,
    PagesOfKinds!Dns!Next, PagesOfKinds!Dns!CancelEdit, PagesOfKinds!Dns!TypeToken,
    PagesOfKinds!Dns!Submit, PagesOfKinds!Dns!Decline, PagesOfKinds!Dns!Accept,
    PagesOfKinds!Dns!ChooseKind, PagesOfKinds!Dns!EditProvider, PagesOfKinds!Dns!AskDelete,
    PagesOfKinds!Dns!OtherUpdate, PagesOfKinds!Dns!Answered, PagesOfKinds!Dns!Loaded,
    PagesOfKinds!Dns!Done, PagesOfKinds!Dns!Failed, PagesOfKinds!Dns!Hold,
    PagesOfKinds!Dns!Update, PagesOfKinds!Dns!Delete, PagesOfKinds!Dns!Logged,
    PagesOfKinds!Dns!PutBack, PagesOfKinds!Dns!Refuse, PagesOfKinds!Dns!ServeList,
    PagesOfKinds!Dns!Create, PagesOfKinds!Dns!NoRow, PagesOfKinds!Dns!ResetForm,
    PagesOfKinds!Dns!history, PagesOfKinds!Dns!Send, PagesOfKinds!Dns!form,
    PagesOfKinds!Dns!NoQuestion, PagesOfKinds!Dns!DeletedRow, PagesOfKinds!Dns!Cloudflare,
    PagesOfKinds!Dns!To, PagesOfKinds!Dns!MayUpdate, PagesOfKinds!Dns!Updated
<1> QED BY <1>1, <1>2, <1>3

LEMMA ProviderKeeps == ASSUME PagesOfKinds!DnsInv, [Provider!Next]_Provider!vars PROVE PagesOfKinds!DnsInv'
BY DialogsConstants, ProviderMoves, PagesOfKinds!DnsSteps

LEMMA ProviderShows ==
  ASSUME PagesOfKinds!DnsInv
  PROVE  Provider!TypeOK /\ Provider!TokenOfItsProvider /\ Provider!SecretFitsUnlessRaced /\
         Provider!DeletedWereConfirmed
<1>1. PagesOfKinds!Dns!TypeOK /\ PagesOfKinds!Dns!TokenOfItsProvider /\
      PagesOfKinds!Dns!SecretFitsUnlessRaced /\ PagesOfKinds!Dns!DeletedWereConfirmed
  BY DialogsConstants, PagesOfKinds!DnsShows DEF PagesOfKinds!DnsInv
<1>2. Provider!TypeOK
  BY <1>1 DEF Provider!TypeOK, Provider!Rows, Provider!NoRow, Provider!Requests,
    PagesOfKinds!Dns!TypeOK, PagesOfKinds!Dns!Rows, PagesOfKinds!Dns!NoRow,
    PagesOfKinds!Dns!Requests
<1>3. Provider!TokenOfItsProvider
  BY <1>1 DEF Provider!TokenOfItsProvider, Provider!NoRow, PagesOfKinds!Dns!TokenOfItsProvider,
    PagesOfKinds!Dns!NoRow
<1>4. Provider!SecretFitsUnlessRaced
  BY <1>1 DEF Provider!SecretFitsUnlessRaced, Provider!NoRow,
    PagesOfKinds!Dns!SecretFitsUnlessRaced, PagesOfKinds!Dns!NoRow
<1>5. Provider!DeletedWereConfirmed
  BY <1>1 DEF Provider!DeletedWereConfirmed, PagesOfKinds!Dns!DeletedWereConfirmed
<1> QED BY <1>2, <1>3, <1>4, <1>5

(* Storage: its first states and its steps, and what its invariant says. *)
LEMMA StorageOpens == ASSUME Storage!Init PROVE PagesOfTwo!FilesInv
<1>1. PagesOfTwo!Panels!Init
  BY DEF Storage!Init, Storage!Closed, Storage!NoAction, Storage!Forms, Storage!FormOf, Storage!Modes, PagesOfTwo!Panels!Init,
    PagesOfTwo!Panels!Closed, PagesOfTwo!Panels!NoAction, PagesOfTwo!Panels!Forms, PagesOfTwo!Panels!FormOf, PagesOfTwo!Panels!Modes
<1> QED BY <1>1, DialogsConstants, PagesOfTwo!FilesInit

LEMMA StorageMoves == ASSUME [Storage!Next]_Storage!vars PROVE [PagesOfTwo!Panels!Next]_PagesOfTwo!Panels!vars
<1>1. Storage!vars = PagesOfTwo!Panels!vars
  BY DEF Storage!vars, Storage!place, Storage!text, Storage!forms, Storage!counters,
    Storage!history, PagesOfTwo!Panels!vars, PagesOfTwo!Panels!place, PagesOfTwo!Panels!text,
    PagesOfTwo!Panels!forms, PagesOfTwo!Panels!counters, PagesOfTwo!Panels!history
<1>2. Storage!vars' = PagesOfTwo!Panels!vars'
  BY DEF Storage!vars, Storage!place, Storage!text, Storage!forms, Storage!counters,
    Storage!history, PagesOfTwo!Panels!vars, PagesOfTwo!Panels!place, PagesOfTwo!Panels!text,
    PagesOfTwo!Panels!forms, PagesOfTwo!Panels!counters, PagesOfTwo!Panels!history
<1>3. Storage!Next => PagesOfTwo!Panels!Next
  BY DEF Storage!Next, Storage!ClearEditor, Storage!WriteFile, Storage!TickOverwrite,
    Storage!CancelAction, Storage!RunAction, Storage!TypeSource, Storage!UploadFile, Storage!CreateFolder,
    Storage!Decline, Storage!Accept, Storage!OpenFolder, Storage!TypePath, Storage!EditEntry,
    Storage!NameFile, Storage!AskDelete, Storage!DeleteDriveEntry, Storage!BeginAction,
    Storage!Listed, Storage!TextArrives, Storage!Succeeded, Storage!Reloaded, Storage!Failed,
    Storage!Closed, Storage!place, Storage!forms, Storage!counters, Storage!history,
    Storage!Send, Storage!text, Storage!HasEditor, Storage!ConfirmedFile, Storage!OtherForm,
    Storage!Begun, Storage!Opened, Storage!NoAction, Storage!Forms, Storage!FormOf, Storage!Modes, Storage!To, PagesOfTwo!Panels!Next,
    PagesOfTwo!Panels!ClearEditor, PagesOfTwo!Panels!WriteFile, PagesOfTwo!Panels!TickOverwrite,
    PagesOfTwo!Panels!CancelAction, PagesOfTwo!Panels!RunAction, PagesOfTwo!Panels!TypeSource, PagesOfTwo!Panels!UploadFile,
    PagesOfTwo!Panels!CreateFolder, PagesOfTwo!Panels!Decline, PagesOfTwo!Panels!Accept,
    PagesOfTwo!Panels!OpenFolder, PagesOfTwo!Panels!TypePath, PagesOfTwo!Panels!EditEntry,
    PagesOfTwo!Panels!NameFile, PagesOfTwo!Panels!AskDelete, PagesOfTwo!Panels!DeleteDriveEntry,
    PagesOfTwo!Panels!BeginAction, PagesOfTwo!Panels!Listed, PagesOfTwo!Panels!TextArrives,
    PagesOfTwo!Panels!Succeeded, PagesOfTwo!Panels!Reloaded, PagesOfTwo!Panels!Failed,
    PagesOfTwo!Panels!Closed, PagesOfTwo!Panels!place, PagesOfTwo!Panels!forms,
    PagesOfTwo!Panels!counters, PagesOfTwo!Panels!history, PagesOfTwo!Panels!Send,
    PagesOfTwo!Panels!text, PagesOfTwo!Panels!HasEditor, PagesOfTwo!Panels!ConfirmedFile,
    PagesOfTwo!Panels!OtherForm, PagesOfTwo!Panels!Begun, PagesOfTwo!Panels!Opened,
    PagesOfTwo!Panels!NoAction, PagesOfTwo!Panels!Forms, PagesOfTwo!Panels!FormOf, PagesOfTwo!Panels!Modes, PagesOfTwo!Panels!To
<1> QED BY <1>1, <1>2, <1>3

LEMMA StorageKeeps == ASSUME PagesOfTwo!FilesInv, [Storage!Next]_Storage!vars PROVE PagesOfTwo!FilesInv'
BY DialogsConstants, StorageMoves, PagesOfTwo!FilesSteps

LEMMA StorageShows ==
  ASSUME PagesOfTwo!FilesInv
  PROVE  Storage!TypeOK /\ Storage!TextOfItsFile /\ Storage!OperatesWhereShown /\
         Storage!OverwriteWasTicked /\ Storage!DeletedWereConfirmed /\
         Storage!OneFormAtATime
<1>1. PagesOfTwo!Panels!TypeOK /\ PagesOfTwo!Panels!TextOfItsFile /\
      PagesOfTwo!Panels!OperatesWhereShown /\ PagesOfTwo!Panels!OverwriteWasTicked /\
      PagesOfTwo!Panels!DeletedWereConfirmed /\ PagesOfTwo!Panels!OneFormAtATime
  BY DEF PagesOfTwo!FilesInv
<1>f. Storage!Forms = PagesOfTwo!Panels!Forms /\ Storage!Modes = PagesOfTwo!Panels!Modes
  BY DEF Storage!Forms, Storage!Modes, PagesOfTwo!Panels!Forms, PagesOfTwo!Panels!Modes
<1>2. Storage!TypeOK
  BY <1>1, <1>f DEF Storage!TypeOK, Storage!Ops, PagesOfTwo!Panels!TypeOK, PagesOfTwo!Panels!Ops
<1>3. Storage!TextOfItsFile
  BY <1>1 DEF Storage!TextOfItsFile, PagesOfTwo!Panels!TextOfItsFile
<1>4. Storage!OperatesWhereShown
  BY <1>1 DEF Storage!OperatesWhereShown, PagesOfTwo!Panels!OperatesWhereShown
<1>5. Storage!OverwriteWasTicked
  BY <1>1, <1>f DEF Storage!OverwriteWasTicked, PagesOfTwo!Panels!OverwriteWasTicked
<1>6. Storage!DeletedWereConfirmed
  BY <1>1 DEF Storage!DeletedWereConfirmed, PagesOfTwo!Panels!DeletedWereConfirmed
<1>7. Storage!OneFormAtATime
  BY <1>1 DEF Storage!OneFormAtATime, Storage!Closed, PagesOfTwo!Panels!OneFormAtATime,
    PagesOfTwo!Panels!Closed
<1> QED BY <1>2, <1>3, <1>4, <1>5, <1>6, <1>7

(* Editor: its first states and its steps, and what its invariant says. *)
LEMMA EditorOpens == ASSUME Editor!Init PROVE PagesOfOneFolder!FilesInv
<1>1. PagesOfOneFolder!Panels!Init
  BY DEF Editor!Init, Editor!Closed, Editor!NoAction, Editor!Forms, Editor!FormOf, Editor!Modes, PagesOfOneFolder!Panels!Init,
    PagesOfOneFolder!Panels!Closed, PagesOfOneFolder!Panels!NoAction, PagesOfOneFolder!Panels!Forms, PagesOfOneFolder!Panels!FormOf, PagesOfOneFolder!Panels!Modes
<1> QED BY <1>1, DialogsConstants, PagesOfOneFolder!FilesInit

LEMMA EditorMoves == ASSUME [Editor!Next]_Editor!vars PROVE [PagesOfOneFolder!Panels!Next]_PagesOfOneFolder!Panels!vars
<1>1. Editor!vars = PagesOfOneFolder!Panels!vars
  BY DEF Editor!vars, Editor!place, Editor!text, Editor!forms, Editor!counters, Editor!history,
    PagesOfOneFolder!Panels!vars, PagesOfOneFolder!Panels!place, PagesOfOneFolder!Panels!text,
    PagesOfOneFolder!Panels!forms, PagesOfOneFolder!Panels!counters,
    PagesOfOneFolder!Panels!history
<1>2. Editor!vars' = PagesOfOneFolder!Panels!vars'
  BY DEF Editor!vars, Editor!place, Editor!text, Editor!forms, Editor!counters, Editor!history,
    PagesOfOneFolder!Panels!vars, PagesOfOneFolder!Panels!place, PagesOfOneFolder!Panels!text,
    PagesOfOneFolder!Panels!forms, PagesOfOneFolder!Panels!counters,
    PagesOfOneFolder!Panels!history
<1>3. Editor!Next => PagesOfOneFolder!Panels!Next
  BY DEF Editor!Next, Editor!ClearEditor, Editor!WriteFile, Editor!TickOverwrite,
    Editor!CancelAction, Editor!RunAction, Editor!TypeSource, Editor!UploadFile, Editor!CreateFolder,
    Editor!Decline, Editor!Accept, Editor!OpenFolder, Editor!TypePath, Editor!EditEntry,
    Editor!NameFile, Editor!AskDelete, Editor!DeleteDriveEntry, Editor!BeginAction,
    Editor!Listed, Editor!TextArrives, Editor!Succeeded, Editor!Reloaded, Editor!Failed,
    Editor!Closed, Editor!place, Editor!forms, Editor!counters, Editor!history, Editor!Send,
    Editor!text, Editor!HasEditor, Editor!ConfirmedFile, Editor!OtherForm, Editor!Begun,
    Editor!Opened, Editor!NoAction, Editor!Forms, Editor!FormOf, Editor!Modes, Editor!To, PagesOfOneFolder!Panels!Next,
    PagesOfOneFolder!Panels!ClearEditor, PagesOfOneFolder!Panels!WriteFile,
    PagesOfOneFolder!Panels!TickOverwrite, PagesOfOneFolder!Panels!CancelAction,
    PagesOfOneFolder!Panels!RunAction, PagesOfOneFolder!Panels!TypeSource, PagesOfOneFolder!Panels!UploadFile,
    PagesOfOneFolder!Panels!CreateFolder, PagesOfOneFolder!Panels!Decline,
    PagesOfOneFolder!Panels!Accept, PagesOfOneFolder!Panels!OpenFolder,
    PagesOfOneFolder!Panels!TypePath, PagesOfOneFolder!Panels!EditEntry,
    PagesOfOneFolder!Panels!NameFile, PagesOfOneFolder!Panels!AskDelete,
    PagesOfOneFolder!Panels!DeleteDriveEntry, PagesOfOneFolder!Panels!BeginAction,
    PagesOfOneFolder!Panels!Listed, PagesOfOneFolder!Panels!TextArrives,
    PagesOfOneFolder!Panels!Succeeded, PagesOfOneFolder!Panels!Reloaded,
    PagesOfOneFolder!Panels!Failed, PagesOfOneFolder!Panels!Closed,
    PagesOfOneFolder!Panels!place, PagesOfOneFolder!Panels!forms,
    PagesOfOneFolder!Panels!counters, PagesOfOneFolder!Panels!history,
    PagesOfOneFolder!Panels!Send, PagesOfOneFolder!Panels!text,
    PagesOfOneFolder!Panels!HasEditor, PagesOfOneFolder!Panels!ConfirmedFile,
    PagesOfOneFolder!Panels!OtherForm, PagesOfOneFolder!Panels!Begun,
    PagesOfOneFolder!Panels!Opened, PagesOfOneFolder!Panels!NoAction, PagesOfOneFolder!Panels!Forms, PagesOfOneFolder!Panels!FormOf, PagesOfOneFolder!Panels!Modes, PagesOfOneFolder!Panels!To
<1> QED BY <1>1, <1>2, <1>3

LEMMA EditorKeeps == ASSUME PagesOfOneFolder!FilesInv, [Editor!Next]_Editor!vars PROVE PagesOfOneFolder!FilesInv'
BY DialogsConstants, EditorMoves, PagesOfOneFolder!FilesSteps

LEMMA EditorShows ==
  ASSUME PagesOfOneFolder!FilesInv
  PROVE  Editor!TypeOK /\ Editor!TextOfItsFile /\ Editor!OperatesWhereShown /\
         Editor!OverwriteWasTicked /\ Editor!DeletedWereConfirmed /\ Editor!OneFormAtATime
<1>1. PagesOfOneFolder!Panels!TypeOK /\ PagesOfOneFolder!Panels!TextOfItsFile /\
      PagesOfOneFolder!Panels!OperatesWhereShown /\
      PagesOfOneFolder!Panels!OverwriteWasTicked /\
      PagesOfOneFolder!Panels!DeletedWereConfirmed /\ PagesOfOneFolder!Panels!OneFormAtATime
  BY DEF PagesOfOneFolder!FilesInv
<1>f. Editor!Forms = PagesOfOneFolder!Panels!Forms /\ Editor!Modes = PagesOfOneFolder!Panels!Modes
  BY DEF Editor!Forms, Editor!Modes, PagesOfOneFolder!Panels!Forms, PagesOfOneFolder!Panels!Modes
<1>2. Editor!TypeOK
  BY <1>1, <1>f DEF Editor!TypeOK, Editor!Ops, PagesOfOneFolder!Panels!TypeOK,
    PagesOfOneFolder!Panels!Ops
<1>3. Editor!TextOfItsFile
  BY <1>1 DEF Editor!TextOfItsFile, PagesOfOneFolder!Panels!TextOfItsFile
<1>4. Editor!OperatesWhereShown
  BY <1>1 DEF Editor!OperatesWhereShown, PagesOfOneFolder!Panels!OperatesWhereShown
<1>5. Editor!OverwriteWasTicked
  BY <1>1, <1>f DEF Editor!OverwriteWasTicked, PagesOfOneFolder!Panels!OverwriteWasTicked
<1>6. Editor!DeletedWereConfirmed
  BY <1>1 DEF Editor!DeletedWereConfirmed, PagesOfOneFolder!Panels!DeletedWereConfirmed
<1>7. Editor!OneFormAtATime
  BY <1>1 DEF Editor!OneFormAtATime, Editor!Closed, PagesOfOneFolder!Panels!OneFormAtATime,
    PagesOfOneFolder!Panels!Closed
<1> QED BY <1>2, <1>3, <1>4, <1>5, <1>6, <1>7

(* Sftp: its first states and its steps, and what its invariant says. *)
LEMMA SftpOpens == ASSUME Sftp!Init PROVE Pages!FilesInv
<1>1. Pages!Panels!Init
  BY DEF Sftp!Init, Sftp!Closed, Sftp!NoAction, Sftp!Forms, Sftp!FormOf, Sftp!Modes, Pages!Panels!Init, Pages!Panels!Closed,
    Pages!Panels!NoAction, Pages!Panels!Forms, Pages!Panels!FormOf, Pages!Panels!Modes
<1> QED BY <1>1, DialogsConstants, Pages!FilesInit

LEMMA SftpMoves == ASSUME [Sftp!Next]_Sftp!vars PROVE [Pages!Panels!Next]_Pages!Panels!vars
<1>1. Sftp!vars = Pages!Panels!vars
  BY DEF Sftp!vars, Sftp!place, Sftp!text, Sftp!forms, Sftp!counters, Sftp!history,
    Pages!Panels!vars, Pages!Panels!place, Pages!Panels!text, Pages!Panels!forms,
    Pages!Panels!counters, Pages!Panels!history
<1>2. Sftp!vars' = Pages!Panels!vars'
  BY DEF Sftp!vars, Sftp!place, Sftp!text, Sftp!forms, Sftp!counters, Sftp!history,
    Pages!Panels!vars, Pages!Panels!place, Pages!Panels!text, Pages!Panels!forms,
    Pages!Panels!counters, Pages!Panels!history
<1>3. Sftp!Next => Pages!Panels!Next
  BY DEF Sftp!Next, Sftp!ClearEditor, Sftp!WriteFile, Sftp!TickOverwrite, Sftp!CancelAction,
    Sftp!RunAction, Sftp!TypeSource, Sftp!UploadFile, Sftp!CreateFolder, Sftp!Decline, Sftp!Accept,
    Sftp!OpenFolder, Sftp!TypePath, Sftp!EditEntry, Sftp!NameFile, Sftp!AskDelete,
    Sftp!DeleteDriveEntry, Sftp!BeginAction, Sftp!Listed, Sftp!TextArrives, Sftp!Succeeded,
    Sftp!Reloaded, Sftp!Failed, Sftp!Closed, Sftp!place, Sftp!forms, Sftp!counters, Sftp!history,
    Sftp!Send, Sftp!text, Sftp!HasEditor, Sftp!ConfirmedFile, Sftp!OtherForm, Sftp!Begun,
    Sftp!Opened, Sftp!NoAction, Sftp!Forms, Sftp!FormOf, Sftp!Modes, Sftp!To, Pages!Panels!Next, Pages!Panels!ClearEditor,
    Pages!Panels!WriteFile, Pages!Panels!TickOverwrite, Pages!Panels!CancelAction,
    Pages!Panels!RunAction, Pages!Panels!TypeSource, Pages!Panels!UploadFile, Pages!Panels!CreateFolder,
    Pages!Panels!Decline, Pages!Panels!Accept, Pages!Panels!OpenFolder, Pages!Panels!TypePath,
    Pages!Panels!EditEntry, Pages!Panels!NameFile, Pages!Panels!AskDelete,
    Pages!Panels!DeleteDriveEntry, Pages!Panels!BeginAction, Pages!Panels!Listed,
    Pages!Panels!TextArrives, Pages!Panels!Succeeded, Pages!Panels!Reloaded,
    Pages!Panels!Failed, Pages!Panels!Closed, Pages!Panels!place, Pages!Panels!forms,
    Pages!Panels!counters, Pages!Panels!history, Pages!Panels!Send, Pages!Panels!text,
    Pages!Panels!HasEditor, Pages!Panels!ConfirmedFile, Pages!Panels!OtherForm,
    Pages!Panels!Begun, Pages!Panels!Opened, Pages!Panels!NoAction, Pages!Panels!Forms, Pages!Panels!FormOf, Pages!Panels!Modes, Pages!Panels!To
<1> QED BY <1>1, <1>2, <1>3

LEMMA SftpKeeps == ASSUME Pages!FilesInv, [Sftp!Next]_Sftp!vars PROVE Pages!FilesInv'
BY DialogsConstants, SftpMoves, Pages!FilesSteps

LEMMA SftpShows ==
  ASSUME Pages!FilesInv
  PROVE  Sftp!TypeOK /\ Sftp!TextOfItsFile /\ Sftp!OperatesWhereShown /\ Sftp!OverwriteWasTicked /\
         Sftp!DeletedWereConfirmed /\ Sftp!OneFormAtATime
<1>1. Pages!Panels!TypeOK /\ Pages!Panels!TextOfItsFile /\ Pages!Panels!OperatesWhereShown /\
      Pages!Panels!OverwriteWasTicked /\ Pages!Panels!DeletedWereConfirmed /\
      Pages!Panels!OneFormAtATime
  BY DEF Pages!FilesInv
<1>f. Sftp!Forms = Pages!Panels!Forms /\ Sftp!Modes = Pages!Panels!Modes
  BY DEF Sftp!Forms, Sftp!Modes, Pages!Panels!Forms, Pages!Panels!Modes
<1>2. Sftp!TypeOK
  BY <1>1, <1>f DEF Sftp!TypeOK, Sftp!Ops, Pages!Panels!TypeOK, Pages!Panels!Ops
<1>3. Sftp!TextOfItsFile
  BY <1>1 DEF Sftp!TextOfItsFile, Pages!Panels!TextOfItsFile
<1>4. Sftp!OperatesWhereShown
  BY <1>1 DEF Sftp!OperatesWhereShown, Pages!Panels!OperatesWhereShown
<1>5. Sftp!OverwriteWasTicked
  BY <1>1, <1>f DEF Sftp!OverwriteWasTicked, Pages!Panels!OverwriteWasTicked
<1>6. Sftp!DeletedWereConfirmed
  BY <1>1 DEF Sftp!DeletedWereConfirmed, Pages!Panels!DeletedWereConfirmed
<1>7. Sftp!OneFormAtATime
  BY <1>1 DEF Sftp!OneFormAtATime, Sftp!Closed, Pages!Panels!OneFormAtATime, Pages!Panels!Closed
<1> QED BY <1>2, <1>3, <1>4, <1>5, <1>6, <1>7

(* Drive: its first states and its steps, and what its invariant says. *)
LEMMA DriveOpens == ASSUME Drive!Init PROVE PagesOfDrive!FilesInv
<1>1. PagesOfDrive!Panels!Init
  BY DEF Drive!Init, Drive!Closed, Drive!NoAction, Drive!Forms, Drive!FormOf, Drive!Modes, PagesOfDrive!Panels!Init,
    PagesOfDrive!Panels!Closed, PagesOfDrive!Panels!NoAction, PagesOfDrive!Panels!Forms, PagesOfDrive!Panels!FormOf, PagesOfDrive!Panels!Modes
<1> QED BY <1>1, DialogsConstants, PagesOfDrive!FilesInit

LEMMA DriveMoves == ASSUME [Drive!Next]_Drive!vars PROVE [PagesOfDrive!Panels!Next]_PagesOfDrive!Panels!vars
<1>1. Drive!vars = PagesOfDrive!Panels!vars
  BY DEF Drive!vars, Drive!place, Drive!text, Drive!forms, Drive!counters, Drive!history,
    PagesOfDrive!Panels!vars, PagesOfDrive!Panels!place, PagesOfDrive!Panels!text,
    PagesOfDrive!Panels!forms, PagesOfDrive!Panels!counters, PagesOfDrive!Panels!history
<1>2. Drive!vars' = PagesOfDrive!Panels!vars'
  BY DEF Drive!vars, Drive!place, Drive!text, Drive!forms, Drive!counters, Drive!history,
    PagesOfDrive!Panels!vars, PagesOfDrive!Panels!place, PagesOfDrive!Panels!text,
    PagesOfDrive!Panels!forms, PagesOfDrive!Panels!counters, PagesOfDrive!Panels!history
<1>3. Drive!Next => PagesOfDrive!Panels!Next
  BY DEF Drive!Next, Drive!ClearEditor, Drive!WriteFile, Drive!TickOverwrite,
    Drive!CancelAction, Drive!RunAction, Drive!TypeSource, Drive!UploadFile, Drive!CreateFolder, Drive!Decline,
    Drive!Accept, Drive!OpenFolder, Drive!TypePath, Drive!EditEntry, Drive!NameFile,
    Drive!AskDelete, Drive!DeleteDriveEntry, Drive!BeginAction, Drive!Listed, Drive!TextArrives,
    Drive!Succeeded, Drive!Reloaded, Drive!Failed, Drive!Closed, Drive!place, Drive!forms,
    Drive!counters, Drive!history, Drive!Send, Drive!text, Drive!HasEditor, Drive!ConfirmedFile,
    Drive!OtherForm, Drive!Begun, Drive!Opened, Drive!NoAction, Drive!Forms, Drive!FormOf, Drive!Modes, Drive!To,
    PagesOfDrive!Panels!Next, PagesOfDrive!Panels!ClearEditor, PagesOfDrive!Panels!WriteFile,
    PagesOfDrive!Panels!TickOverwrite, PagesOfDrive!Panels!CancelAction,
    PagesOfDrive!Panels!RunAction, PagesOfDrive!Panels!TypeSource, PagesOfDrive!Panels!UploadFile,
    PagesOfDrive!Panels!CreateFolder, PagesOfDrive!Panels!Decline, PagesOfDrive!Panels!Accept,
    PagesOfDrive!Panels!OpenFolder, PagesOfDrive!Panels!TypePath, PagesOfDrive!Panels!EditEntry,
    PagesOfDrive!Panels!NameFile, PagesOfDrive!Panels!AskDelete,
    PagesOfDrive!Panels!DeleteDriveEntry, PagesOfDrive!Panels!BeginAction,
    PagesOfDrive!Panels!Listed, PagesOfDrive!Panels!TextArrives, PagesOfDrive!Panels!Succeeded,
    PagesOfDrive!Panels!Reloaded, PagesOfDrive!Panels!Failed, PagesOfDrive!Panels!Closed,
    PagesOfDrive!Panels!place, PagesOfDrive!Panels!forms, PagesOfDrive!Panels!counters,
    PagesOfDrive!Panels!history, PagesOfDrive!Panels!Send, PagesOfDrive!Panels!text,
    PagesOfDrive!Panels!HasEditor, PagesOfDrive!Panels!ConfirmedFile,
    PagesOfDrive!Panels!OtherForm, PagesOfDrive!Panels!Begun, PagesOfDrive!Panels!Opened,
    PagesOfDrive!Panels!NoAction, PagesOfDrive!Panels!Forms, PagesOfDrive!Panels!FormOf, PagesOfDrive!Panels!Modes, PagesOfDrive!Panels!To
<1> QED BY <1>1, <1>2, <1>3

LEMMA DriveKeeps == ASSUME PagesOfDrive!FilesInv, [Drive!Next]_Drive!vars PROVE PagesOfDrive!FilesInv'
BY DialogsConstants, DriveMoves, PagesOfDrive!FilesSteps

LEMMA DriveShows ==
  ASSUME PagesOfDrive!FilesInv
  PROVE  Drive!TypeOK /\ Drive!TextOfItsFile /\ Drive!OperatesWhereShown /\
         Drive!OverwriteWasTicked /\ Drive!DeletedWereConfirmed /\ Drive!OneFormAtATime
<1>1. PagesOfDrive!Panels!TypeOK /\ PagesOfDrive!Panels!TextOfItsFile /\
      PagesOfDrive!Panels!OperatesWhereShown /\ PagesOfDrive!Panels!OverwriteWasTicked /\
      PagesOfDrive!Panels!DeletedWereConfirmed /\ PagesOfDrive!Panels!OneFormAtATime
  BY DEF PagesOfDrive!FilesInv
<1>f. Drive!Forms = PagesOfDrive!Panels!Forms /\ Drive!Modes = PagesOfDrive!Panels!Modes
  BY DEF Drive!Forms, Drive!Modes, PagesOfDrive!Panels!Forms, PagesOfDrive!Panels!Modes
<1>2. Drive!TypeOK
  BY <1>1, <1>f DEF Drive!TypeOK, Drive!Ops, PagesOfDrive!Panels!TypeOK, PagesOfDrive!Panels!Ops
<1>3. Drive!TextOfItsFile
  BY <1>1 DEF Drive!TextOfItsFile, PagesOfDrive!Panels!TextOfItsFile
<1>4. Drive!OperatesWhereShown
  BY <1>1 DEF Drive!OperatesWhereShown, PagesOfDrive!Panels!OperatesWhereShown
<1>5. Drive!OverwriteWasTicked
  BY <1>1, <1>f DEF Drive!OverwriteWasTicked, PagesOfDrive!Panels!OverwriteWasTicked
<1>6. Drive!DeletedWereConfirmed
  BY <1>1 DEF Drive!DeletedWereConfirmed, PagesOfDrive!Panels!DeletedWereConfirmed
<1>7. Drive!OneFormAtATime
  BY <1>1 DEF Drive!OneFormAtATime, Drive!Closed, PagesOfDrive!Panels!OneFormAtATime,
    PagesOfDrive!Panels!Closed
<1> QED BY <1>2, <1>3, <1>4, <1>5, <1>6, <1>7

(* Assets: its first states and its steps, and what its invariant says. *)
LEMMA AssetsOpens == ASSUME Assets!Init PROVE Pages!AssetInv
<1>1. Pages!Assets!Init
  BY DEF Assets!Init, Assets!NoModal, Assets!NoLoad, Pages!Assets!Init, Pages!Assets!NoModal,
    Pages!Assets!NoLoad
<1> QED BY <1>1, DialogsConstants, Pages!AssetInit

LEMMA AssetsMoves == ASSUME [Assets!Next]_Assets!vars PROVE [Pages!Assets!Next]_Pages!Assets!vars
<1>1. Assets!vars = Pages!Assets!vars
  BY DEF Assets!vars, Assets!stored, Assets!dialog, Assets!history, Pages!Assets!vars,
    Pages!Assets!stored, Pages!Assets!dialog, Pages!Assets!history
<1>2. Assets!vars' = Pages!Assets!vars'
  BY DEF Assets!vars, Assets!stored, Assets!dialog, Assets!history, Pages!Assets!vars,
    Pages!Assets!stored, Pages!Assets!dialog, Pages!Assets!history
<1>3. Assets!Next => Pages!Assets!Next
  BY DEF Assets!Next, Assets!OpenServer, Assets!Close, Assets!ServeBootstrap, Assets!Refreshed,
    Assets!OpenCredential, Assets!Systems, Assets!OnOSChange, Assets!Types, Assets!ChooseType,
    Assets!Submit, Assets!StoreServer, Assets!CheckCredential, Assets!Lost,
    Assets!ThenCredential, Assets!Saved, Assets!Failed, Assets!LogServer,
    Assets!StoreCredential, Assets!NoModal, Assets!stored, Assets!history, Assets!dialog,
    Assets!NoLoad, Assets!Shown, Assets!Mounted, Assets!Default, Assets!TypeFor, Assets!Offered,
    Assets!To, Assets!Accepts, Assets!Idle, Assets!RolledBack, Assets!Answer, Pages!Assets!Next,
    Pages!Assets!OpenServer, Pages!Assets!Close, Pages!Assets!ServeBootstrap,
    Pages!Assets!Refreshed, Pages!Assets!OpenCredential, Pages!Assets!Systems,
    Pages!Assets!OnOSChange, Pages!Assets!Types, Pages!Assets!ChooseType, Pages!Assets!Submit,
    Pages!Assets!StoreServer, Pages!Assets!CheckCredential, Pages!Assets!Lost,
    Pages!Assets!ThenCredential, Pages!Assets!Saved, Pages!Assets!Failed,
    Pages!Assets!LogServer, Pages!Assets!StoreCredential, Pages!Assets!NoModal,
    Pages!Assets!stored, Pages!Assets!history, Pages!Assets!dialog, Pages!Assets!NoLoad,
    Pages!Assets!Shown, Pages!Assets!Mounted, Pages!Assets!Default, Pages!Assets!TypeFor,
    Pages!Assets!Offered, Pages!Assets!To, Pages!Assets!Accepts, Pages!Assets!Idle,
    Pages!Assets!RolledBack, Pages!Assets!Answer
<1> QED BY <1>1, <1>2, <1>3

LEMMA AssetsKeeps == ASSUME Pages!AssetInv, [Assets!Next]_Assets!vars PROVE Pages!AssetInv'
BY DialogsConstants, AssetsMoves, Pages!AssetKeeps

LEMMA AssetsShows ==
  ASSUME Pages!AssetInv
  PROVE  Assets!TypeOK /\ Assets!ReportedIsStored /\ Assets!SentTypeFits /\
         Assets!CredentialsHaveServers /\ Assets!BusyIsTrue /\ Assets!ListEndsAsStored
<1>1. Pages!Assets!TypeOK /\ Pages!Assets!ReportedIsStored /\ Pages!Assets!SentTypeFits /\
      Pages!Assets!CredentialsHaveServers /\ Pages!Assets!BusyIsTrue /\
      Pages!Assets!ListEndsAsStored
  BY DialogsConstants, Pages!AssetShows DEF Pages!AssetInv
<1>2. Assets!TypeOK
  BY <1>1 DEF Assets!TypeOK, Assets!Servers, Assets!Ids, Assets!Types, Assets!Systems,
    Pages!Assets!TypeOK, Pages!Assets!Servers, Pages!Assets!Ids, Pages!Assets!Types,
    Pages!Assets!Systems
<1>3. Assets!ReportedIsStored
  BY <1>1 DEF Assets!ReportedIsStored, Pages!Assets!ReportedIsStored
<1>4. Assets!SentTypeFits
  BY <1>1 DEF Assets!SentTypeFits, Assets!Offered, Pages!Assets!SentTypeFits,
    Pages!Assets!Offered
<1>5. Assets!CredentialsHaveServers
  BY <1>1 DEF Assets!CredentialsHaveServers, Pages!Assets!CredentialsHaveServers
<1>6. Assets!BusyIsTrue
  BY <1>1 DEF Assets!BusyIsTrue, Assets!NoModal, Pages!Assets!BusyIsTrue, Pages!Assets!NoModal
<1>7. Assets!ListEndsAsStored
  BY <1>1 DEF Assets!ListEndsAsStored, Assets!NoLoad, Pages!Assets!ListEndsAsStored,
    Pages!Assets!NoLoad
<1> QED BY <1>2, <1>3, <1>4, <1>5, <1>6, <1>7

LEMMA DialogsStart == ASSUME Init PROVE DialogsInv
<1>1. CASE showing = "orders"
  BY <1>1, OrdersOpens DEF Init, DialogsInv
<1>2. CASE showing = "token"
  BY <1>2, TokenOpens DEF Init, DialogsInv
<1>3. CASE showing = "operations"
  BY <1>3, OperationsOpens DEF Init, DialogsInv
<1>4. CASE showing = "providers"
  BY <1>4, ProvidersOpens DEF Init, DialogsInv
<1>5. CASE showing = "provider"
  BY <1>5, ProviderOpens DEF Init, DialogsInv
<1>6. CASE showing = "files"
  BY <1>6, StorageOpens DEF Init, DialogsInv
<1>7. CASE showing = "file"
  BY <1>7, EditorOpens DEF Init, DialogsInv
<1>8. CASE showing = "sftp"
  BY <1>8, SftpOpens DEF Init, DialogsInv
<1>9. CASE showing = "drive"
  BY <1>9, DriveOpens DEF Init, DialogsInv
<1>10. CASE showing = "assets"
  BY <1>10, AssetsOpens DEF Init, DialogsInv
<1> QED BY <1>1, <1>2, <1>3, <1>4, <1>5, <1>6, <1>7, <1>8, <1>9, <1>10 DEF DialogsInv

LEMMA DialogsStep == ASSUME DialogsInv, [Next]_state PROVE DialogsInv'
<1>1. showing' = showing
  BY DEF Next, state
<1>2. CASE showing = "orders"
  <2>1. Pages!OrdersInv
    BY <1>2 DEF DialogsInv
  <2>2. [Orders!Next]_Orders!vars
    BY <1>2 DEF Next, state, onlyOrders, onlyToken, onlyOperations, onlyDns, onlyFiles,
      onlyAssets, Orders!vars, Orders!orderVars, Orders!pageVars, Orders!history
  <2>3. Pages!OrdersInv'
    BY <2>1, <2>2, OrdersKeeps
  <2> QED BY <1>1, <1>2, <2>3 DEF DialogsInv
<1>3. CASE showing = "token"
  <2>1. Pages!TokenInv
    BY <1>3 DEF DialogsInv
  <2>2. [Token!Next]_Token!vars
    BY <1>3 DEF Next, state, onlyOrders, onlyToken, onlyOperations, onlyDns, onlyFiles,
      onlyAssets, Token!vars, Token!server, Token!page, Token!view, Token!counters
  <2>3. Pages!TokenInv'
    BY <2>1, <2>2, TokenKeeps
  <2> QED BY <1>1, <1>3, <2>3 DEF DialogsInv
<1>4. CASE showing = "operations"
  <2>1. Pages!OpInv
    BY <1>4 DEF DialogsInv
  <2>2. [Operations!Next]_Operations!vars
    BY <1>4 DEF Next, state, onlyOrders, onlyToken, onlyOperations, onlyDns, onlyFiles,
      onlyAssets, Operations!vars, Operations!dialogVars, Operations!counters,
      Operations!serverVars
  <2>3. Pages!OpInv'
    BY <2>1, <2>2, OperationsKeeps
  <2> QED BY <1>1, <1>4, <2>3 DEF DialogsInv
<1>5. CASE showing = "providers"
  <2>1. PagesOfTwo!DnsInv
    BY <1>5 DEF DialogsInv
  <2>2. [Providers!Next]_Providers!vars
    BY <1>5 DEF Next, state, onlyOrders, onlyToken, onlyOperations, onlyDns, onlyFiles,
      onlyAssets, Providers!vars, Providers!form, Providers!history
  <2>3. PagesOfTwo!DnsInv'
    BY <2>1, <2>2, ProvidersKeeps
  <2> QED BY <1>1, <1>5, <2>3 DEF DialogsInv
<1>6. CASE showing = "provider"
  <2>1. PagesOfKinds!DnsInv
    BY <1>6 DEF DialogsInv
  <2>2. [Provider!Next]_Provider!vars
    BY <1>6 DEF Next, state, onlyOrders, onlyToken, onlyOperations, onlyDns, onlyFiles,
      onlyAssets, Provider!vars, Provider!form, Provider!history
  <2>3. PagesOfKinds!DnsInv'
    BY <2>1, <2>2, ProviderKeeps
  <2> QED BY <1>1, <1>6, <2>3 DEF DialogsInv
<1>7. CASE showing = "files"
  <2>1. PagesOfTwo!FilesInv
    BY <1>7 DEF DialogsInv
  <2>2. [Storage!Next]_Storage!vars
    BY <1>7 DEF Next, state, onlyOrders, onlyToken, onlyOperations, onlyDns, onlyFiles,
      onlyAssets, Storage!vars, Storage!place, Storage!text, Storage!forms, Storage!counters,
      Storage!history
  <2>3. PagesOfTwo!FilesInv'
    BY <2>1, <2>2, StorageKeeps
  <2> QED BY <1>1, <1>7, <2>3 DEF DialogsInv
<1>8. CASE showing = "file"
  <2>1. PagesOfOneFolder!FilesInv
    BY <1>8 DEF DialogsInv
  <2>2. [Editor!Next]_Editor!vars
    BY <1>8 DEF Next, state, onlyOrders, onlyToken, onlyOperations, onlyDns, onlyFiles,
      onlyAssets, Editor!vars, Editor!place, Editor!text, Editor!forms, Editor!counters,
      Editor!history
  <2>3. PagesOfOneFolder!FilesInv'
    BY <2>1, <2>2, EditorKeeps
  <2> QED BY <1>1, <1>8, <2>3 DEF DialogsInv
<1>9. CASE showing = "sftp"
  <2>1. Pages!FilesInv
    BY <1>9 DEF DialogsInv
  <2>2. [Sftp!Next]_Sftp!vars
    BY <1>9 DEF Next, state, onlyOrders, onlyToken, onlyOperations, onlyDns, onlyFiles,
      onlyAssets, Sftp!vars, Sftp!place, Sftp!text, Sftp!forms, Sftp!counters, Sftp!history
  <2>3. Pages!FilesInv'
    BY <2>1, <2>2, SftpKeeps
  <2> QED BY <1>1, <1>9, <2>3 DEF DialogsInv
<1>10. CASE showing = "drive"
  <2>1. PagesOfDrive!FilesInv
    BY <1>10 DEF DialogsInv
  <2>2. [Drive!Next]_Drive!vars
    BY <1>10 DEF Next, state, onlyOrders, onlyToken, onlyOperations, onlyDns, onlyFiles,
      onlyAssets, Drive!vars, Drive!place, Drive!text, Drive!forms, Drive!counters, Drive!history
  <2>3. PagesOfDrive!FilesInv'
    BY <2>1, <2>2, DriveKeeps
  <2> QED BY <1>1, <1>10, <2>3 DEF DialogsInv
<1>11. CASE showing = "assets"
  <2>1. Pages!AssetInv
    BY <1>11 DEF DialogsInv
  <2>2. [Assets!Next]_Assets!vars
    BY <1>11 DEF Next, state, onlyOrders, onlyToken, onlyOperations, onlyDns, onlyFiles,
      onlyAssets, Assets!vars, Assets!stored, Assets!dialog, Assets!history
  <2>3. Pages!AssetInv'
    BY <2>1, <2>2, AssetsKeeps
  <2> QED BY <1>1, <1>11, <2>3 DEF DialogsInv
<1> QED BY <1>1, <1>2, <1>3, <1>4, <1>5, <1>6, <1>7, <1>8, <1>9, <1>10, <1>11 DEF DialogsInv

LEMMA DialogsInvariance == Spec => []DialogsInv
<1>1. Init => DialogsInv
  BY DialogsStart
<1>2. DialogsInv /\ [Next]_state => DialogsInv'
  BY DialogsStep
<1> QED BY <1>1, <1>2, PTL DEF Spec

(* The variables of every dialog hold values the code can give them, in    *)
(* behaviours of any length.                                               *)
THEOREM DialogTypes == Spec => []TypesOK
<1>1. DialogsInv => TypesOK
  BY OrdersShows, TokenShows, OperationsShows, ProvidersShows, ProviderShows, StorageShows,
    EditorShows, SftpShows, DriveShows, AssetsShows DEF DialogsInv, TypesOK
<1> QED BY <1>1, DialogsInvariance, PTL

(* The server does what the user saw and agreed to, however loads, edits   *)
(* and answers overlap: orders run as approved, deletions were confirmed   *)
(* by the user wherever the program asks, files go where the panel shows,  *)
(* and a tick to overwrite stays in the form only while the user keeps it  *)
(* there: an entry put into the form and a late answer clear it, retyping  *)
(* the source does not (handleSQLWorkOrderExecute, deleteProvider,         *)
(* beginFileAction, runFileAction). The drive panel deletes without        *)
(* asking.                                                                 *)
THEOREM DialogsActAsAsked == Spec => []ActsAsAsked
<1>1. DialogsInv => ActsAsAsked
  BY OrdersShows, ProvidersShows, ProviderShows, StorageShows, EditorShows, SftpShows,
    DriveShows DEF DialogsInv, ActsAsAsked
<1> QED BY <1>1, DialogsInvariance, PTL

(* What a dialog shows is its own and as new as its last answer: results   *)
(* and summaries of this opening, a file's own text, a provider's own      *)
(* token, a gateway token that is accepted, and rows that hold what was    *)
(* written (setResult, editTextEntry, AgentGatewayTokenDialog).            *)
THEOREM DialogsShowTheirOwn == Spec => []ShowsItsOwn
<1>1. DialogsInv => ShowsItsOwn
  BY OrdersShows, TokenShows, OperationsShows, ProvidersShows, ProviderShows, StorageShows,
    EditorShows, AssetsShows DEF DialogsInv, ShowsItsOwn
<1> QED BY <1>1, DialogsInvariance, PTL

(* Where the buttons promise one request at a time there is one, whatever  *)
(* the requests of closed dialogs still do.                                *)
THEOREM DialogsActOneAtATime == Spec => []OneAtATime
<1>1. DialogsInv => OneAtATime
  BY OrdersShows, OperationsShows, SftpShows, AssetsShows DEF DialogsInv, OneAtATime
<1> QED BY <1>1, DialogsInvariance, PTL

(* Records that belong together fit: an order and the decision that was    *)
(* answered, a token and the service its provider names, a credential and  *)
(* its server, also when the second of two requests fails (ServerDialog,   *)
(* handleCertificateDNSProviderItem).                                      *)
THEOREM DialogRecordsFit == Spec => []StoreFits
<1>1. DialogsInv => StoreFits
  BY OrdersShows, ProvidersShows, ProviderShows, AssetsShows DEF DialogsInv, StoreFits
<1> QED BY <1>1, DialogsInvariance, PTL

(* A settled order changes no more once no handler holds an older copy,    *)
(* and while the token dialog stays open its token is only replaced by a   *)
(* later one, whatever answer arrives late.                                *)
THEOREM DialogsDoNotGoBack == Spec => NoWayBack
<1> DEFINE A == (showing = "orders" => Orders!SettledIsFinal) /\ (showing = "token" => Token!ShownNeverOlder)
<1>1. DialogsInv /\ [Next]_state => A
  <2> SUFFICES ASSUME DialogsInv, [Next]_state PROVE A
    OBVIOUS
  <2>1. ASSUME showing = "orders" PROVE Orders!SettledIsFinal
    <3>1. Pages!OrdersInv
      BY <2>1 DEF DialogsInv
    <3>2. [Orders!Next]_Orders!vars
      BY <2>1 DEF Next, state, onlyOrders, onlyToken, onlyOperations, onlyDns, onlyFiles,
        onlyAssets, Orders!vars, Orders!orderVars, Orders!pageVars, Orders!history
    <3> QED BY <3>1, <3>2, OrdersStays
  <2>2. ASSUME showing = "token" PROVE Token!ShownNeverOlder
    <3>1. Pages!TokenInv
      BY <2>2 DEF DialogsInv
    <3>2. [Token!Next]_Token!vars
      BY <2>2 DEF Next, state, onlyOrders, onlyToken, onlyOperations, onlyDns, onlyFiles,
        onlyAssets, Token!vars, Token!server, Token!page, Token!view, Token!counters
    <3> QED BY <3>1, <3>2, TokenStays
  <2> QED BY <2>1, <2>2
<1>2. Spec => [][A]_state
  BY <1>1, DialogsInvariance, PTL DEF Spec
<1> QED BY <1>2, PTL DEF NoWayBack

=============================================================================
