------------------------------ MODULE ListsProofs ------------------------------
(***************************************************************************)
(* MCLists, for behaviours of any length: each property of its run follows *)
(* from the invariant that ListPagesProofs proves of the page on display,  *)
(* at the page's own constants. A page of MCLists and the page of that     *)
(* module are the same formulas, and the steps that say so expand both.    *)
(***************************************************************************)
EXTENDS MCLists, TLAPS

Pages == INSTANCE ListPagesProofs
  WITH Used <- {"security", "oidc"}, MaxSaves <- 2, Lists <- {"passkeys", "ssh"},
       Ids <- {"k1", "k2"}, Limit <- 1, MaxRequests <- 3, Texts <- {"a"},
       Types <- {"confidential"}, Secrets <- {}, Rows <- 1 .. 5, Queries <- {"some", "none"},
       Matches <- Finds, Sizes <- 1 .. 3, Columns <- {"name", "host"}
OtherPages == INSTANCE ListPagesProofs
  WITH Used <- {"retention", "wecom"}, MaxSaves <- 2, Lists <- {"policies", "locks"},
       Ids <- {"k1", "k2"}, Limit <- 1, MaxRequests <- 3, Texts <- {"a"},
       Types <- {"confidential"}, Secrets <- {}, Rows <- 1 .. 5, Queries <- {"some", "none"},
       Matches <- Finds, Sizes <- 1 .. 3, Columns <- {"name", "host"}
MfaPages == INSTANCE ListPagesProofs
  WITH Used <- {"security", "oidc"}, MaxSaves <- 2, Lists <- {"passkeys", "ssh"},
       Ids <- {"k1", "k2"}, Limit <- 1, MaxRequests <- 5, Texts <- {"a"},
       Types <- {"confidential"}, Secrets <- {}, Rows <- 1 .. 5, Queries <- {"some", "none"},
       Matches <- Finds, Sizes <- 1 .. 3, Columns <- {"name", "host"}
RowsPages == INSTANCE ListPagesProofs
  WITH Used <- {"security", "oidc"}, MaxSaves <- 2, Lists <- {"passkeys", "ssh"},
       Ids <- {"i", "j"}, Limit <- 1, MaxRequests <- 2, Texts <- {"a"},
       Types <- {"confidential"}, Secrets <- {}, Rows <- 1 .. 5, Queries <- {"some", "none"},
       Matches <- Finds, Sizes <- 1 .. 3, Columns <- {"name", "host"}
FormPages == INSTANCE ListPagesProofs
  WITH Used <- {"security", "oidc"}, MaxSaves <- 2, Lists <- {"passkeys", "ssh"}, Ids <- {"i"},
       Limit <- 1, MaxRequests <- 2, Texts <- {"a"}, Types <- {"confidential", "public"},
       Secrets <- {"s1"}, Rows <- 1 .. 5, Queries <- {"some", "none"}, Matches <- Finds,
       Sizes <- 1 .. 3, Columns <- {"name", "host"}
FieldsPages == INSTANCE ListPagesProofs
  WITH Used <- {"security", "oidc"}, MaxSaves <- 2, Lists <- {"passkeys", "ssh"}, Ids <- {"i"},
       Limit <- 1, MaxRequests <- 1, Texts <- {"", "a"}, Types <- {"confidential", "public"},
       Secrets <- {"s1"}, Rows <- 1 .. 5, Queries <- {"some", "none"}, Matches <- Finds,
       Sizes <- 1 .. 3, Columns <- {"name", "host"}

(* The page on display has its invariant, the others are not there.        *)
ListsInv ==
  /\ showing = "settings" => Pages!SysInv
  /\ showing = "retention" => OtherPages!SysInv
  /\ showing = "keys" => Pages!AcctInv
  /\ showing = "policies" => OtherPages!AcctInv
  /\ showing = "mfa" => MfaPages!MfaInv
  /\ showing = "rows" => RowsPages!RecInv
  /\ showing = "form" => FormPages!RecInv
  /\ showing = "fields" => FieldsPages!RecInv
  /\ showing = "table" => Pages!TableInv

(* The constants of the run are ones the proofs of the pages allow.        *)
LEMMA ListsConstants ==
  /\ Pages!Settings!ConstantsOK
  /\ OtherPages!Settings!ConstantsOK
  /\ Pages!Account!ConstantsOK
  /\ OtherPages!Account!ConstantsOK
  /\ MfaPages!Mfa!ConstantsOK
  /\ RowsPages!Records!ConstantsOK
  /\ FormPages!Records!ConstantsOK
  /\ FieldsPages!Records!ConstantsOK
  /\ Pages!Table!ConstantsOK
<1>1. Pages!Settings!ConstantsOK
  BY ListsAssumption DEF Settings!ConstantsOK, Settings!Sections, Settings!Handler,
    Settings!UpdateLoginSecurity, Settings!SaveRetentionSettings, Settings!SaveOIDCSettings,
    Settings!SaveLDAPSettings, Settings!SaveWeComSettings, Pages!Settings!ConstantsOK,
    Pages!Settings!Sections, Pages!Settings!Handler, Pages!Settings!UpdateLoginSecurity,
    Pages!Settings!SaveRetentionSettings, Pages!Settings!SaveOIDCSettings,
    Pages!Settings!SaveLDAPSettings, Pages!Settings!SaveWeComSettings
<1>2. OtherPages!Settings!ConstantsOK
  BY ListsAssumption DEF Retention!ConstantsOK, Retention!Sections, Retention!Handler,
    Retention!UpdateLoginSecurity, Retention!SaveRetentionSettings, Retention!SaveOIDCSettings,
    Retention!SaveLDAPSettings, Retention!SaveWeComSettings, OtherPages!Settings!ConstantsOK,
    OtherPages!Settings!Sections, OtherPages!Settings!Handler,
    OtherPages!Settings!UpdateLoginSecurity, OtherPages!Settings!SaveRetentionSettings,
    OtherPages!Settings!SaveOIDCSettings, OtherPages!Settings!SaveLDAPSettings,
    OtherPages!Settings!SaveWeComSettings
<1>3. Pages!Account!ConstantsOK
  BY ListsAssumption DEF Keys!ConstantsOK, Keys!Kind, Keys!Passkeys, Keys!SSHPublicKeys,
    Keys!LoginPolicies, Keys!LoginLocks, Keys!IsFiniteSet, Pages!Account!ConstantsOK,
    Pages!Account!Kind, Pages!Account!Passkeys, Pages!Account!SSHPublicKeys,
    Pages!Account!LoginPolicies, Pages!Account!LoginLocks, Pages!Account!IsFiniteSet
<1>4. OtherPages!Account!ConstantsOK
  BY ListsAssumption DEF Policies!ConstantsOK, Policies!Kind, Policies!Passkeys,
    Policies!SSHPublicKeys, Policies!LoginPolicies, Policies!LoginLocks, Policies!IsFiniteSet,
    OtherPages!Account!ConstantsOK, OtherPages!Account!Kind, OtherPages!Account!Passkeys,
    OtherPages!Account!SSHPublicKeys, OtherPages!Account!LoginPolicies,
    OtherPages!Account!LoginLocks, OtherPages!Account!IsFiniteSet
<1>5. MfaPages!Mfa!ConstantsOK
  BY ListsAssumption DEF Mfa!ConstantsOK, MfaPages!Mfa!ConstantsOK
<1>6. RowsPages!Records!ConstantsOK
  BY ListsAssumption DEF Records!ConstantsOK, RowsPages!Records!ConstantsOK
<1>7. FormPages!Records!ConstantsOK
  BY ListsAssumption DEF Form!ConstantsOK, FormPages!Records!ConstantsOK
<1>8. FieldsPages!Records!ConstantsOK
  BY ListsAssumption DEF Fields!ConstantsOK, FieldsPages!Records!ConstantsOK
<1>9. Pages!Table!ConstantsOK
  BY ListsAssumption DEF Table!ConstantsOK, Table!IsFiniteSet, Pages!Table!ConstantsOK,
    Pages!Table!IsFiniteSet
<1> QED BY <1>1, <1>2, <1>3, <1>4, <1>5, <1>6, <1>7, <1>8, <1>9

(* Settings: its first states and its steps, and what its invariant says. *)
LEMMA SettingsOpens == ASSUME Settings!Init PROVE Pages!SysInv
<1>1. Pages!Settings!Init
  BY DEF Settings!Init, Settings!FirstItems, Settings!Defaults, Settings!NoItem,
    Settings!Identity, Settings!Blank, Pages!Settings!Init, Pages!Settings!FirstItems,
    Pages!Settings!Defaults, Pages!Settings!NoItem, Pages!Settings!Identity,
    Pages!Settings!Blank
<1> QED BY <1>1, ListsConstants, Pages!SysInit

LEMMA SettingsMoves == ASSUME [Settings!Next]_Settings!vars PROVE [Pages!Settings!Next]_Pages!Settings!vars
<1>1. Settings!vars = Pages!Settings!vars
  BY DEF Settings!vars, Settings!page, Pages!Settings!vars, Pages!Settings!page
<1>2. Settings!vars' = Pages!Settings!vars'
  BY DEF Settings!vars, Settings!page, Pages!Settings!vars, Pages!Settings!page
<1>3. Settings!Next => Pages!Settings!Next
  BY DEF Settings!Next, Settings!User, Settings!Fetched, Settings!Write, Settings!Saved,
    Settings!Refreshed, Settings!Serve, Settings!Loaded, Settings!Fail, Settings!Values,
    Settings!EditOIDC, Settings!EditLDAP, Settings!EditWeCom, Settings!EditRetention,
    Settings!SaveLoginSecurity, Settings!ToggleCaptcha, Settings!Save, Settings!ItemOf,
    Settings!page, Settings!Metadata, Settings!SavedItem, Settings!Handler, Settings!To,
    Settings!AfterWrite, Settings!CaptchaRequired, Settings!LoadedForm, Settings!LoadedSetting,
    Settings!Edit, Settings!Begin, Settings!Other, Settings!FormValid, Settings!Target,
    Settings!NoItem, Settings!UpdateLoginSecurity, Settings!SaveRetentionSettings,
    Settings!SaveOIDCSettings, Settings!SaveLDAPSettings, Settings!SaveWeComSettings,
    Settings!SecurityFrom, Settings!SettingsFrom, Settings!Request, Settings!Candidates,
    Settings!Blank, Settings!Defaults, Settings!Identity, Settings!Max, Pages!Settings!Next,
    Pages!Settings!User, Pages!Settings!Fetched, Pages!Settings!Write, Pages!Settings!Saved,
    Pages!Settings!Refreshed, Pages!Settings!Serve, Pages!Settings!Loaded, Pages!Settings!Fail,
    Pages!Settings!Values, Pages!Settings!EditOIDC, Pages!Settings!EditLDAP,
    Pages!Settings!EditWeCom, Pages!Settings!EditRetention, Pages!Settings!SaveLoginSecurity,
    Pages!Settings!ToggleCaptcha, Pages!Settings!Save, Pages!Settings!ItemOf,
    Pages!Settings!page, Pages!Settings!Metadata, Pages!Settings!SavedItem,
    Pages!Settings!Handler, Pages!Settings!To, Pages!Settings!AfterWrite,
    Pages!Settings!CaptchaRequired, Pages!Settings!LoadedForm, Pages!Settings!LoadedSetting,
    Pages!Settings!Edit, Pages!Settings!Begin, Pages!Settings!Other, Pages!Settings!FormValid,
    Pages!Settings!Target, Pages!Settings!NoItem, Pages!Settings!UpdateLoginSecurity,
    Pages!Settings!SaveRetentionSettings, Pages!Settings!SaveOIDCSettings,
    Pages!Settings!SaveLDAPSettings, Pages!Settings!SaveWeComSettings,
    Pages!Settings!SecurityFrom, Pages!Settings!SettingsFrom, Pages!Settings!Request,
    Pages!Settings!Candidates, Pages!Settings!Blank, Pages!Settings!Defaults,
    Pages!Settings!Identity, Pages!Settings!Max
<1> QED BY <1>1, <1>2, <1>3

LEMMA SettingsKeeps == ASSUME Pages!SysInv, [Settings!Next]_Settings!vars PROVE Pages!SysInv'
BY ListsConstants, SettingsMoves, Pages!SysKeeps

LEMMA SettingsShows ==
  ASSUME Pages!SysInv
  PROVE  Settings!TypeOK /\ Settings!SectionsShowStored /\ Settings!SavedIsStored /\
         Settings!NoDuplicateItem /\ Settings!BusyIsTrue
<1>1. Pages!Settings!TypeOK /\ Pages!Settings!SectionsShowStored /\ Pages!Settings!SavedIsStored /\
      Pages!Settings!NoDuplicateItem /\ Pages!Settings!BusyIsTrue
  BY ListsConstants, Pages!SysShows
<1>2. Settings!TypeOK
  BY <1>1 DEF Settings!TypeOK, Settings!Values, Settings!Items, Pages!Settings!TypeOK,
    Pages!Settings!Values, Pages!Settings!Items
<1>3. Settings!SectionsShowStored
  BY <1>1 DEF Settings!SectionsShowStored, Settings!Idle, Settings!SettingsFrom,
    Settings!Target, Settings!SecurityFrom, Settings!Defaults, Settings!Candidates,
    Settings!Identity, Settings!Max, Pages!Settings!SectionsShowStored, Pages!Settings!Idle,
    Pages!Settings!SettingsFrom, Pages!Settings!Target, Pages!Settings!SecurityFrom,
    Pages!Settings!Defaults, Pages!Settings!Candidates, Pages!Settings!Identity,
    Pages!Settings!Max
<1>4. Settings!SavedIsStored
  BY <1>1 DEF Settings!SavedIsStored, Settings!Target, Settings!Candidates, Settings!Identity,
    Settings!Max, Pages!Settings!SavedIsStored, Pages!Settings!Target,
    Pages!Settings!Candidates, Pages!Settings!Identity, Pages!Settings!Max
<1>5. Settings!NoDuplicateItem
  BY <1>1 DEF Settings!NoDuplicateItem, Settings!Cardinality, Pages!Settings!NoDuplicateItem,
    Pages!Settings!Cardinality
<1>6. Settings!BusyIsTrue
  BY <1>1 DEF Settings!BusyIsTrue, Pages!Settings!BusyIsTrue
<1> QED BY <1>2, <1>3, <1>4, <1>5, <1>6

(* Retention: its first states and its steps, and what its invariant says. *)
LEMMA RetentionOpens == ASSUME Retention!Init PROVE OtherPages!SysInv
<1>1. OtherPages!Settings!Init
  BY DEF Retention!Init, Retention!FirstItems, Retention!Defaults, Retention!NoItem,
    Retention!Identity, Retention!Blank, OtherPages!Settings!Init,
    OtherPages!Settings!FirstItems, OtherPages!Settings!Defaults, OtherPages!Settings!NoItem,
    OtherPages!Settings!Identity, OtherPages!Settings!Blank
<1> QED BY <1>1, ListsConstants, OtherPages!SysInit

LEMMA RetentionMoves == ASSUME [Retention!Next]_Retention!vars PROVE [OtherPages!Settings!Next]_OtherPages!Settings!vars
<1>1. Retention!vars = OtherPages!Settings!vars
  BY DEF Retention!vars, Retention!page, OtherPages!Settings!vars, OtherPages!Settings!page
<1>2. Retention!vars' = OtherPages!Settings!vars'
  BY DEF Retention!vars, Retention!page, OtherPages!Settings!vars, OtherPages!Settings!page
<1>3. Retention!Next => OtherPages!Settings!Next
  BY DEF Retention!Next, Retention!User, Retention!Fetched, Retention!Write, Retention!Saved,
    Retention!Refreshed, Retention!Serve, Retention!Loaded, Retention!Fail, Retention!Values,
    Retention!EditOIDC, Retention!EditLDAP, Retention!EditWeCom, Retention!EditRetention,
    Retention!SaveLoginSecurity, Retention!ToggleCaptcha, Retention!Save, Retention!ItemOf,
    Retention!page, Retention!Metadata, Retention!SavedItem, Retention!Handler, Retention!To,
    Retention!AfterWrite, Retention!CaptchaRequired, Retention!LoadedForm,
    Retention!LoadedSetting, Retention!Edit, Retention!Begin, Retention!Other,
    Retention!FormValid, Retention!Target, Retention!NoItem, Retention!UpdateLoginSecurity,
    Retention!SaveRetentionSettings, Retention!SaveOIDCSettings, Retention!SaveLDAPSettings,
    Retention!SaveWeComSettings, Retention!SecurityFrom, Retention!SettingsFrom,
    Retention!Request, Retention!Candidates, Retention!Blank, Retention!Defaults,
    Retention!Identity, Retention!Max, OtherPages!Settings!Next, OtherPages!Settings!User,
    OtherPages!Settings!Fetched, OtherPages!Settings!Write, OtherPages!Settings!Saved,
    OtherPages!Settings!Refreshed, OtherPages!Settings!Serve, OtherPages!Settings!Loaded,
    OtherPages!Settings!Fail, OtherPages!Settings!Values, OtherPages!Settings!EditOIDC,
    OtherPages!Settings!EditLDAP, OtherPages!Settings!EditWeCom,
    OtherPages!Settings!EditRetention, OtherPages!Settings!SaveLoginSecurity,
    OtherPages!Settings!ToggleCaptcha, OtherPages!Settings!Save, OtherPages!Settings!ItemOf,
    OtherPages!Settings!page, OtherPages!Settings!Metadata, OtherPages!Settings!SavedItem,
    OtherPages!Settings!Handler, OtherPages!Settings!To, OtherPages!Settings!AfterWrite,
    OtherPages!Settings!CaptchaRequired, OtherPages!Settings!LoadedForm,
    OtherPages!Settings!LoadedSetting, OtherPages!Settings!Edit, OtherPages!Settings!Begin,
    OtherPages!Settings!Other, OtherPages!Settings!FormValid, OtherPages!Settings!Target,
    OtherPages!Settings!NoItem, OtherPages!Settings!UpdateLoginSecurity,
    OtherPages!Settings!SaveRetentionSettings, OtherPages!Settings!SaveOIDCSettings,
    OtherPages!Settings!SaveLDAPSettings, OtherPages!Settings!SaveWeComSettings,
    OtherPages!Settings!SecurityFrom, OtherPages!Settings!SettingsFrom,
    OtherPages!Settings!Request, OtherPages!Settings!Candidates, OtherPages!Settings!Blank,
    OtherPages!Settings!Defaults, OtherPages!Settings!Identity, OtherPages!Settings!Max
<1> QED BY <1>1, <1>2, <1>3

LEMMA RetentionKeeps == ASSUME OtherPages!SysInv, [Retention!Next]_Retention!vars PROVE OtherPages!SysInv'
BY ListsConstants, RetentionMoves, OtherPages!SysKeeps

LEMMA RetentionShows ==
  ASSUME OtherPages!SysInv
  PROVE  Retention!TypeOK /\ Retention!SectionsShowStored /\ Retention!SavedIsStored /\
         Retention!NoDuplicateItem /\ Retention!BusyIsTrue
<1>1. OtherPages!Settings!TypeOK /\ OtherPages!Settings!SectionsShowStored /\
      OtherPages!Settings!SavedIsStored /\ OtherPages!Settings!NoDuplicateItem /\
      OtherPages!Settings!BusyIsTrue
  BY ListsConstants, OtherPages!SysShows
<1>2. Retention!TypeOK
  BY <1>1 DEF Retention!TypeOK, Retention!Values, Retention!Items, OtherPages!Settings!TypeOK,
    OtherPages!Settings!Values, OtherPages!Settings!Items
<1>3. Retention!SectionsShowStored
  BY <1>1 DEF Retention!SectionsShowStored, Retention!Idle, Retention!SettingsFrom,
    Retention!Target, Retention!SecurityFrom, Retention!Defaults, Retention!Candidates,
    Retention!Identity, Retention!Max, OtherPages!Settings!SectionsShowStored,
    OtherPages!Settings!Idle, OtherPages!Settings!SettingsFrom, OtherPages!Settings!Target,
    OtherPages!Settings!SecurityFrom, OtherPages!Settings!Defaults,
    OtherPages!Settings!Candidates, OtherPages!Settings!Identity, OtherPages!Settings!Max
<1>4. Retention!SavedIsStored
  BY <1>1 DEF Retention!SavedIsStored, Retention!Target, Retention!Candidates,
    Retention!Identity, Retention!Max, OtherPages!Settings!SavedIsStored,
    OtherPages!Settings!Target, OtherPages!Settings!Candidates, OtherPages!Settings!Identity,
    OtherPages!Settings!Max
<1>5. Retention!NoDuplicateItem
  BY <1>1 DEF Retention!NoDuplicateItem, Retention!Cardinality,
    OtherPages!Settings!NoDuplicateItem, OtherPages!Settings!Cardinality
<1>6. Retention!BusyIsTrue
  BY <1>1 DEF Retention!BusyIsTrue, OtherPages!Settings!BusyIsTrue
<1> QED BY <1>2, <1>3, <1>4, <1>5, <1>6

(* Keys: its first states and its steps, and what its invariant says. *)
LEMMA KeysOpens == ASSUME Keys!Init PROVE Pages!AcctInv
<1>1. Pages!Account!Init
  BY DEF Keys!Init, Keys!Present, Keys!Nothing, Keys!Request, Keys!Cardinality,
    Pages!Account!Init, Pages!Account!Present, Pages!Account!Nothing, Pages!Account!Request,
    Pages!Account!Cardinality
<1> QED BY <1>1, ListsConstants, Pages!AcctInit

LEMMA KeysMoves == ASSUME [Keys!Next]_Keys!vars PROVE [Pages!Account!Next]_Pages!Account!vars
<1>1. Keys!vars = Pages!Account!vars
  BY DEF Keys!vars, Keys!server, Keys!history, Pages!Account!vars, Pages!Account!server,
    Pages!Account!history
<1>2. Keys!vars' = Pages!Account!vars'
  BY DEF Keys!vars, Keys!server, Keys!history, Pages!Account!vars, Pages!Account!server,
    Pages!Account!history
<1>3. Keys!Next => Pages!Account!Next
  BY DEF Keys!Next, Keys!Decline, Keys!Accept, Keys!OtherVerifies, Keys!OtherCreates,
    Keys!Register, Keys!ToggleLoginPolicy, Keys!AskDelete, Keys!DeleteAtOnce, Keys!Options,
    Keys!Authenticator, Keys!Verify, Keys!Write, Keys!Serve, Keys!Loaded, Keys!Fail,
    Keys!Nothing, Keys!server, Keys!history, Keys!Begin, Keys!Confirmed, Keys!MayRegister,
    Keys!Present, Keys!Kind, Keys!Free, Keys!To, Keys!Written, Keys!LoadedList, Keys!Request,
    Keys!Passkeys, Keys!SSHPublicKeys, Keys!LoginPolicies, Keys!LoginLocks, Keys!Cardinality,
    Pages!Account!Next, Pages!Account!Decline, Pages!Account!Accept,
    Pages!Account!OtherVerifies, Pages!Account!OtherCreates, Pages!Account!Register,
    Pages!Account!ToggleLoginPolicy, Pages!Account!AskDelete, Pages!Account!DeleteAtOnce,
    Pages!Account!Options, Pages!Account!Authenticator, Pages!Account!Verify,
    Pages!Account!Write, Pages!Account!Serve, Pages!Account!Loaded, Pages!Account!Fail,
    Pages!Account!Nothing, Pages!Account!server, Pages!Account!history, Pages!Account!Begin,
    Pages!Account!Confirmed, Pages!Account!MayRegister, Pages!Account!Present,
    Pages!Account!Kind, Pages!Account!Free, Pages!Account!To, Pages!Account!Written,
    Pages!Account!LoadedList, Pages!Account!Request, Pages!Account!Passkeys,
    Pages!Account!SSHPublicKeys, Pages!Account!LoginPolicies, Pages!Account!LoginLocks,
    Pages!Account!Cardinality
<1> QED BY <1>1, <1>2, <1>3

LEMMA KeysKeeps == ASSUME Pages!AcctInv, [Keys!Next]_Keys!vars PROVE Pages!AcctInv'
BY ListsConstants, KeysMoves, Pages!AcctKeeps

LEMMA KeysShows ==
  ASSUME Pages!AcctInv
  PROVE  Keys!TypeOK /\ Keys!ListsShowStored /\ Keys!BusyIsTrue /\ Keys!PasskeyLimitInTurn
<1>1. Pages!Account!TypeOK /\ Pages!Account!ListsShowStored /\ Pages!Account!BusyIsTrue /\
      Pages!Account!PasskeyLimitInTurn
  BY ListsConstants, Pages!AcctShows
<1>2. Keys!TypeOK
  BY <1>1 DEF Keys!TypeOK, Keys!States, Keys!Nothing, Pages!Account!TypeOK,
    Pages!Account!States, Pages!Account!Nothing
<1>3. Keys!ListsShowStored
  BY <1>1 DEF Keys!ListsShowStored, Pages!Account!ListsShowStored
<1>4. Keys!BusyIsTrue
  BY <1>1 DEF Keys!BusyIsTrue, Pages!Account!BusyIsTrue
<1>5. Keys!PasskeyLimitInTurn
  BY <1>1 DEF Keys!PasskeyLimitInTurn, Keys!Present, Keys!Cardinality,
    Pages!Account!PasskeyLimitInTurn, Pages!Account!Present, Pages!Account!Cardinality
<1> QED BY <1>2, <1>3, <1>4, <1>5

LEMMA KeysOnlyConfirmedGo == ASSUME Pages!AcctInv, [Keys!Next]_Keys!vars PROVE Keys!OnlyConfirmedGo
<1>1. Pages!Account!OnlyConfirmedGo
  BY ListsConstants, KeysMoves, Pages!AcctConfirmed
<1> QED BY <1>1 DEF Keys!OnlyConfirmedGo, Keys!Kind, Keys!Passkeys, Keys!SSHPublicKeys, Keys!LoginPolicies,
  Keys!LoginLocks, Pages!Account!OnlyConfirmedGo, Pages!Account!Kind, Pages!Account!Passkeys,
  Pages!Account!SSHPublicKeys, Pages!Account!LoginPolicies, Pages!Account!LoginLocks

(* Policies: its first states and its steps, and what its invariant says. *)
LEMMA PoliciesOpens == ASSUME Policies!Init PROVE OtherPages!AcctInv
<1>1. OtherPages!Account!Init
  BY DEF Policies!Init, Policies!Present, Policies!Nothing, Policies!Request,
    Policies!Cardinality, OtherPages!Account!Init, OtherPages!Account!Present,
    OtherPages!Account!Nothing, OtherPages!Account!Request, OtherPages!Account!Cardinality
<1> QED BY <1>1, ListsConstants, OtherPages!AcctInit

LEMMA PoliciesMoves == ASSUME [Policies!Next]_Policies!vars PROVE [OtherPages!Account!Next]_OtherPages!Account!vars
<1>1. Policies!vars = OtherPages!Account!vars
  BY DEF Policies!vars, Policies!server, Policies!history, OtherPages!Account!vars,
    OtherPages!Account!server, OtherPages!Account!history
<1>2. Policies!vars' = OtherPages!Account!vars'
  BY DEF Policies!vars, Policies!server, Policies!history, OtherPages!Account!vars,
    OtherPages!Account!server, OtherPages!Account!history
<1>3. Policies!Next => OtherPages!Account!Next
  BY DEF Policies!Next, Policies!Decline, Policies!Accept, Policies!OtherVerifies,
    Policies!OtherCreates, Policies!Register, Policies!ToggleLoginPolicy, Policies!AskDelete,
    Policies!DeleteAtOnce, Policies!Options, Policies!Authenticator, Policies!Verify,
    Policies!Write, Policies!Serve, Policies!Loaded, Policies!Fail, Policies!Nothing,
    Policies!server, Policies!history, Policies!Begin, Policies!Confirmed, Policies!MayRegister,
    Policies!Present, Policies!Kind, Policies!Free, Policies!To, Policies!Written,
    Policies!LoadedList, Policies!Request, Policies!Passkeys, Policies!SSHPublicKeys,
    Policies!LoginPolicies, Policies!LoginLocks, Policies!Cardinality, OtherPages!Account!Next,
    OtherPages!Account!Decline, OtherPages!Account!Accept, OtherPages!Account!OtherVerifies,
    OtherPages!Account!OtherCreates, OtherPages!Account!Register,
    OtherPages!Account!ToggleLoginPolicy, OtherPages!Account!AskDelete,
    OtherPages!Account!DeleteAtOnce, OtherPages!Account!Options,
    OtherPages!Account!Authenticator, OtherPages!Account!Verify, OtherPages!Account!Write,
    OtherPages!Account!Serve, OtherPages!Account!Loaded, OtherPages!Account!Fail,
    OtherPages!Account!Nothing, OtherPages!Account!server, OtherPages!Account!history,
    OtherPages!Account!Begin, OtherPages!Account!Confirmed, OtherPages!Account!MayRegister,
    OtherPages!Account!Present, OtherPages!Account!Kind, OtherPages!Account!Free,
    OtherPages!Account!To, OtherPages!Account!Written, OtherPages!Account!LoadedList,
    OtherPages!Account!Request, OtherPages!Account!Passkeys, OtherPages!Account!SSHPublicKeys,
    OtherPages!Account!LoginPolicies, OtherPages!Account!LoginLocks,
    OtherPages!Account!Cardinality
<1> QED BY <1>1, <1>2, <1>3

LEMMA PoliciesKeeps == ASSUME OtherPages!AcctInv, [Policies!Next]_Policies!vars PROVE OtherPages!AcctInv'
BY ListsConstants, PoliciesMoves, OtherPages!AcctKeeps

LEMMA PoliciesShows ==
  ASSUME OtherPages!AcctInv
  PROVE  Policies!TypeOK /\ Policies!ListsShowStored /\ Policies!BusyIsTrue
<1>1. OtherPages!Account!TypeOK /\ OtherPages!Account!ListsShowStored /\
      OtherPages!Account!BusyIsTrue
  BY ListsConstants, OtherPages!AcctShows
<1>2. Policies!TypeOK
  BY <1>1 DEF Policies!TypeOK, Policies!States, Policies!Nothing, OtherPages!Account!TypeOK,
    OtherPages!Account!States, OtherPages!Account!Nothing
<1>3. Policies!ListsShowStored
  BY <1>1 DEF Policies!ListsShowStored, OtherPages!Account!ListsShowStored
<1>4. Policies!BusyIsTrue
  BY <1>1 DEF Policies!BusyIsTrue, OtherPages!Account!BusyIsTrue
<1> QED BY <1>2, <1>3, <1>4

(* Mfa: its first states and its steps, and what its invariant says. *)
LEMMA MfaOpens == ASSUME Mfa!Init PROVE MfaPages!MfaInv
<1>1. MfaPages!Mfa!Init
  BY DEF Mfa!Init, MfaPages!Mfa!Init
<1> QED BY <1>1, ListsConstants, MfaPages!MfaInit

LEMMA MfaMoves == ASSUME [Mfa!Next]_Mfa!vars PROVE [MfaPages!Mfa!Next]_MfaPages!Mfa!vars
<1>1. Mfa!vars = MfaPages!Mfa!vars
  BY DEF Mfa!vars, Mfa!server, Mfa!page, Mfa!history, MfaPages!Mfa!vars, MfaPages!Mfa!server,
    MfaPages!Mfa!page, MfaPages!Mfa!history
<1>2. Mfa!vars' = MfaPages!Mfa!vars'
  BY DEF Mfa!vars, Mfa!server, Mfa!page, Mfa!history, MfaPages!Mfa!vars, MfaPages!Mfa!server,
    MfaPages!Mfa!page, MfaPages!Mfa!history
<1>3. Mfa!Next => MfaPages!Mfa!Next
  BY DEF Mfa!Next, Mfa!StartMFASetup, Mfa!EnableMFA, Mfa!DisableMFA,
    Mfa!RegenerateMFARecoveryCodes, Mfa!TypeCode, Mfa!CancelSetup, Mfa!OtherTab, Mfa!Serve,
    Mfa!ServeStatus, Mfa!SetupStarted, Mfa!Answered, Mfa!StatusLoaded, Mfa!Fail, Mfa!Send,
    Mfa!server, Mfa!history, Mfa!page, Mfa!CodesAfterAnswer, Mfa!To, Mfa!NewStatus,
    Mfa!CodesAtEnd, MfaPages!Mfa!Next, MfaPages!Mfa!StartMFASetup, MfaPages!Mfa!EnableMFA,
    MfaPages!Mfa!DisableMFA, MfaPages!Mfa!RegenerateMFARecoveryCodes, MfaPages!Mfa!TypeCode,
    MfaPages!Mfa!CancelSetup, MfaPages!Mfa!OtherTab, MfaPages!Mfa!Serve,
    MfaPages!Mfa!ServeStatus, MfaPages!Mfa!SetupStarted, MfaPages!Mfa!Answered,
    MfaPages!Mfa!StatusLoaded, MfaPages!Mfa!Fail, MfaPages!Mfa!Send, MfaPages!Mfa!server,
    MfaPages!Mfa!history, MfaPages!Mfa!page, MfaPages!Mfa!CodesAfterAnswer, MfaPages!Mfa!To,
    MfaPages!Mfa!NewStatus, MfaPages!Mfa!CodesAtEnd
<1> QED BY <1>1, <1>2, <1>3

LEMMA MfaKeeps == ASSUME MfaPages!MfaInv, [Mfa!Next]_Mfa!vars PROVE MfaPages!MfaInv'
BY ListsConstants, MfaMoves, MfaPages!MfaKeeps

LEMMA MfaShows ==
  ASSUME MfaPages!MfaInv
  PROVE  Mfa!TypeOK /\ Mfa!StatusIsStored /\ Mfa!ShownCodesWork
<1>1. MfaPages!Mfa!TypeOK /\ MfaPages!Mfa!StatusIsStored /\ MfaPages!Mfa!ShownCodesWork
  BY ListsConstants, MfaPages!MfaShows
<1>2. Mfa!TypeOK
  BY <1>1 DEF Mfa!TypeOK, Mfa!Ops, MfaPages!Mfa!TypeOK, MfaPages!Mfa!Ops
<1>3. Mfa!StatusIsStored
  BY <1>1 DEF Mfa!StatusIsStored, Mfa!AtRest, MfaPages!Mfa!StatusIsStored, MfaPages!Mfa!AtRest
<1>4. Mfa!ShownCodesWork
  BY <1>1 DEF Mfa!ShownCodesWork, Mfa!AtRest, MfaPages!Mfa!ShownCodesWork, MfaPages!Mfa!AtRest
<1> QED BY <1>2, <1>3, <1>4

(* Records: its first states and its steps, and what its invariant says. *)
LEMMA RecordsOpens == ASSUME Records!Init PROVE RowsPages!RecInv
<1>1. RowsPages!Records!Init
  BY DEF Records!Init, Records!Gone, Records!NoFetch, Records!Closed, Records!Blank,
    Records!Unsaved, RowsPages!Records!Init, RowsPages!Records!Gone, RowsPages!Records!NoFetch,
    RowsPages!Records!Closed, RowsPages!Records!Blank, RowsPages!Records!Unsaved
<1> QED BY <1>1, ListsConstants, RowsPages!RecInit

LEMMA RecordsMoves == ASSUME [Records!Next]_Records!vars PROVE [RowsPages!Records!Next]_RowsPages!Records!vars
<1>1. Records!vars = RowsPages!Records!vars
  BY DEF Records!vars, Records!server, Records!pageVars, Records!history,
    RowsPages!Records!vars, RowsPages!Records!server, RowsPages!Records!pageVars,
    RowsPages!Records!history
<1>2. Records!vars' = RowsPages!Records!vars'
  BY DEF Records!vars, Records!server, Records!pageVars, Records!history,
    RowsPages!Records!vars, RowsPages!Records!server, RowsPages!Records!pageVars,
    RowsPages!Records!history
<1>3. Records!Next => RowsPages!Records!Next
  BY DEF Records!Next, Records!StartCreate, Records!CloseForm, Records!Save,
    Records!AskBulkDelete, Records!Decline, Records!Accept, Records!Refresh, Records!ServeFetch,
    Records!Fetched, Records!FetchFails, Records!StartEdit, Records!AskRemove,
    Records!OtherDeletes, Records!OtherUpdates, Records!TypeText, Records!ChooseType,
    Records!TypeSecret, Records!TickClear, Records!Select, Records!Read, Records!Write,
    Records!Log, Records!Restore, Records!Refuse, Records!RestoreFails, Records!LoseAnswer, Records!Saved, Records!DeletedOne,
    Records!DeletedAll, Records!StartFetch, Records!Failed, Records!Create, Records!Free,
    Records!Blank, Records!server, Records!history, Records!Closed, Records!Request,
    Records!Present, Records!AskDelete, Records!Targets, Records!NoFetch, Records!pageVars,
    Records!Selection, Records!Finish, Records!Gone, Records!FormFromPlatformItem,
    Records!Typed, Records!ChosenType, Records!Ticked, Records!AtWork, Records!UpdatedRecord,
    Records!To, Records!Unsaved, Records!NextTargets, Records!Refreshed,
    Records!SavingAfterFailure, Records!NewSecret, Records!Cardinality, RowsPages!Records!Next,
    RowsPages!Records!StartCreate, RowsPages!Records!CloseForm, RowsPages!Records!Save,
    RowsPages!Records!AskBulkDelete, RowsPages!Records!Decline, RowsPages!Records!Accept,
    RowsPages!Records!Refresh, RowsPages!Records!ServeFetch, RowsPages!Records!Fetched,
    RowsPages!Records!FetchFails, RowsPages!Records!StartEdit, RowsPages!Records!AskRemove,
    RowsPages!Records!OtherDeletes, RowsPages!Records!OtherUpdates, RowsPages!Records!TypeText,
    RowsPages!Records!ChooseType, RowsPages!Records!TypeSecret, RowsPages!Records!TickClear,
    RowsPages!Records!Select, RowsPages!Records!Read, RowsPages!Records!Write,
    RowsPages!Records!Log, RowsPages!Records!Restore, RowsPages!Records!Refuse, RowsPages!Records!RestoreFails, RowsPages!Records!LoseAnswer,
    RowsPages!Records!Saved, RowsPages!Records!DeletedOne, RowsPages!Records!DeletedAll,
    RowsPages!Records!StartFetch, RowsPages!Records!Failed, RowsPages!Records!Create,
    RowsPages!Records!Free, RowsPages!Records!Blank, RowsPages!Records!server,
    RowsPages!Records!history, RowsPages!Records!Closed, RowsPages!Records!Request,
    RowsPages!Records!Present, RowsPages!Records!AskDelete, RowsPages!Records!Targets,
    RowsPages!Records!NoFetch, RowsPages!Records!pageVars, RowsPages!Records!Selection,
    RowsPages!Records!Finish, RowsPages!Records!Gone, RowsPages!Records!FormFromPlatformItem,
    RowsPages!Records!Typed, RowsPages!Records!ChosenType, RowsPages!Records!Ticked,
    RowsPages!Records!AtWork, RowsPages!Records!UpdatedRecord, RowsPages!Records!To,
    RowsPages!Records!Unsaved, RowsPages!Records!NextTargets, RowsPages!Records!Refreshed,
    RowsPages!Records!SavingAfterFailure, RowsPages!Records!NewSecret,
    RowsPages!Records!Cardinality
<1> QED BY <1>1, <1>2, <1>3

LEMMA RecordsKeeps == ASSUME RowsPages!RecInv, [Records!Next]_Records!vars PROVE RowsPages!RecInv'
BY ListsConstants, RecordsMoves, RowsPages!RecKeeps

LEMMA RecordsShows ==
  ASSUME RowsPages!RecInv
  PROVE  Records!TypeOK /\ Records!RowsShowStored /\ Records!ReportedAreGone /\
         Records!SelectionIsShown /\ Records!SavingIsTrue
<1>1. RowsPages!Records!TypeOK /\ RowsPages!Records!RowsShowStored /\
      RowsPages!Records!ReportedAreGone /\ RowsPages!Records!SelectionIsShown /\
      RowsPages!Records!SavingIsTrue
  BY ListsConstants, RowsPages!RecShows
<1>2. Records!TypeOK
  BY <1>1 DEF Records!TypeOK, Records!Records, Records!Gone, Records!Forms, Records!Phases,
    RowsPages!Records!TypeOK, RowsPages!Records!Records, RowsPages!Records!Gone,
    RowsPages!Records!Forms, RowsPages!Records!Phases
<1>3. Records!RowsShowStored
  BY <1>1 DEF Records!RowsShowStored, RowsPages!Records!RowsShowStored
<1>4. Records!ReportedAreGone
  BY <1>1 DEF Records!ReportedAreGone, Records!Gone, RowsPages!Records!ReportedAreGone,
    RowsPages!Records!Gone
<1>5. Records!SelectionIsShown
  BY <1>1 DEF Records!SelectionIsShown, Records!Present, Records!Gone,
    RowsPages!Records!SelectionIsShown, RowsPages!Records!Present, RowsPages!Records!Gone
<1>6. Records!SavingIsTrue
  BY <1>1 DEF Records!SavingIsTrue, RowsPages!Records!SavingIsTrue
<1> QED BY <1>2, <1>3, <1>4, <1>5, <1>6

LEMMA RecordsOnlyConfirmedGo == ASSUME RowsPages!RecInv, [Records!Next]_Records!vars PROVE Records!OnlyConfirmedGo
<1>1. RowsPages!Records!OnlyConfirmedGo
  BY ListsConstants, RecordsMoves, RowsPages!RecConfirmed
<1> QED BY <1>1 DEF Records!OnlyConfirmedGo, Records!Gone, RowsPages!Records!OnlyConfirmedGo, RowsPages!Records!Gone

(* Form: its first states and its steps, and what its invariant says. *)
LEMMA FormOpens == ASSUME Form!Init PROVE FormPages!RecInv
<1>1. FormPages!Records!Init
  BY DEF Form!Init, Form!Gone, Form!NoFetch, Form!Closed, Form!Blank, Form!Unsaved,
    FormPages!Records!Init, FormPages!Records!Gone, FormPages!Records!NoFetch,
    FormPages!Records!Closed, FormPages!Records!Blank, FormPages!Records!Unsaved
<1> QED BY <1>1, ListsConstants, FormPages!RecInit

LEMMA FormMoves == ASSUME [Form!Next]_Form!vars PROVE [FormPages!Records!Next]_FormPages!Records!vars
<1>1. Form!vars = FormPages!Records!vars
  BY DEF Form!vars, Form!server, Form!pageVars, Form!history, FormPages!Records!vars,
    FormPages!Records!server, FormPages!Records!pageVars, FormPages!Records!history
<1>2. Form!vars' = FormPages!Records!vars'
  BY DEF Form!vars, Form!server, Form!pageVars, Form!history, FormPages!Records!vars,
    FormPages!Records!server, FormPages!Records!pageVars, FormPages!Records!history
<1>3. Form!Next => FormPages!Records!Next
  BY DEF Form!Next, Form!StartCreate, Form!CloseForm, Form!Save, Form!AskBulkDelete,
    Form!Decline, Form!Accept, Form!Refresh, Form!ServeFetch, Form!Fetched, Form!FetchFails,
    Form!StartEdit, Form!AskRemove, Form!OtherDeletes, Form!OtherUpdates, Form!TypeText,
    Form!ChooseType, Form!TypeSecret, Form!TickClear, Form!Select, Form!Read, Form!Write,
    Form!Log, Form!Restore, Form!Refuse, Form!RestoreFails, Form!LoseAnswer, Form!Saved, Form!DeletedOne, Form!DeletedAll,
    Form!StartFetch, Form!Failed, Form!Create, Form!Free, Form!Blank, Form!server, Form!history,
    Form!Closed, Form!Request, Form!Present, Form!AskDelete, Form!Targets, Form!NoFetch,
    Form!pageVars, Form!Selection, Form!Finish, Form!Gone, Form!FormFromPlatformItem,
    Form!Typed, Form!ChosenType, Form!Ticked, Form!AtWork, Form!UpdatedRecord, Form!To,
    Form!Unsaved, Form!NextTargets, Form!Refreshed, Form!SavingAfterFailure, Form!NewSecret,
    Form!Cardinality, FormPages!Records!Next, FormPages!Records!StartCreate,
    FormPages!Records!CloseForm, FormPages!Records!Save, FormPages!Records!AskBulkDelete,
    FormPages!Records!Decline, FormPages!Records!Accept, FormPages!Records!Refresh,
    FormPages!Records!ServeFetch, FormPages!Records!Fetched, FormPages!Records!FetchFails,
    FormPages!Records!StartEdit, FormPages!Records!AskRemove, FormPages!Records!OtherDeletes,
    FormPages!Records!OtherUpdates, FormPages!Records!TypeText, FormPages!Records!ChooseType,
    FormPages!Records!TypeSecret, FormPages!Records!TickClear, FormPages!Records!Select,
    FormPages!Records!Read, FormPages!Records!Write, FormPages!Records!Log,
    FormPages!Records!Restore, FormPages!Records!Refuse, FormPages!Records!RestoreFails, FormPages!Records!LoseAnswer, FormPages!Records!Saved,
    FormPages!Records!DeletedOne, FormPages!Records!DeletedAll, FormPages!Records!StartFetch,
    FormPages!Records!Failed, FormPages!Records!Create, FormPages!Records!Free,
    FormPages!Records!Blank, FormPages!Records!server, FormPages!Records!history,
    FormPages!Records!Closed, FormPages!Records!Request, FormPages!Records!Present,
    FormPages!Records!AskDelete, FormPages!Records!Targets, FormPages!Records!NoFetch,
    FormPages!Records!pageVars, FormPages!Records!Selection, FormPages!Records!Finish,
    FormPages!Records!Gone, FormPages!Records!FormFromPlatformItem, FormPages!Records!Typed,
    FormPages!Records!ChosenType, FormPages!Records!Ticked, FormPages!Records!AtWork,
    FormPages!Records!UpdatedRecord, FormPages!Records!To, FormPages!Records!Unsaved,
    FormPages!Records!NextTargets, FormPages!Records!Refreshed,
    FormPages!Records!SavingAfterFailure, FormPages!Records!NewSecret,
    FormPages!Records!Cardinality
<1> QED BY <1>1, <1>2, <1>3

LEMMA FormKeeps == ASSUME FormPages!RecInv, [Form!Next]_Form!vars PROVE FormPages!RecInv'
BY ListsConstants, FormMoves, FormPages!RecKeeps

LEMMA FormShows ==
  ASSUME FormPages!RecInv
  PROVE  Form!TypeOK /\ Form!RowsShowStored /\ Form!ReportedAreGone /\
         Form!SavedIsStoredUnlessEmpty /\ Form!OneSecretWish /\ Form!SavingIsTrue
<1>1. FormPages!Records!TypeOK /\ FormPages!Records!RowsShowStored /\
      FormPages!Records!ReportedAreGone /\ FormPages!Records!SavedIsStoredUnlessEmpty /\
      FormPages!Records!OneSecretWish /\ FormPages!Records!SavingIsTrue
  BY ListsConstants, FormPages!RecShows
<1>2. Form!TypeOK
  BY <1>1 DEF Form!TypeOK, Form!Records, Form!Gone, Form!Forms, Form!Phases,
    FormPages!Records!TypeOK, FormPages!Records!Records, FormPages!Records!Gone,
    FormPages!Records!Forms, FormPages!Records!Phases
<1>3. Form!RowsShowStored
  BY <1>1 DEF Form!RowsShowStored, FormPages!Records!RowsShowStored
<1>4. Form!ReportedAreGone
  BY <1>1 DEF Form!ReportedAreGone, Form!Gone, FormPages!Records!ReportedAreGone,
    FormPages!Records!Gone
<1>5. Form!SavedIsStoredUnlessEmpty
  BY <1>1 DEF Form!SavedIsStoredUnlessEmpty, Form!Unsaved, Form!Blank,
    FormPages!Records!SavedIsStoredUnlessEmpty, FormPages!Records!Unsaved,
    FormPages!Records!Blank
<1>6. Form!OneSecretWish
  BY <1>1 DEF Form!OneSecretWish, FormPages!Records!OneSecretWish
<1>7. Form!SavingIsTrue
  BY <1>1 DEF Form!SavingIsTrue, FormPages!Records!SavingIsTrue
<1> QED BY <1>2, <1>3, <1>4, <1>5, <1>6, <1>7

LEMMA FormOnlyConfirmedGo == ASSUME FormPages!RecInv, [Form!Next]_Form!vars PROVE Form!OnlyConfirmedGo
<1>1. FormPages!Records!OnlyConfirmedGo
  BY ListsConstants, FormMoves, FormPages!RecConfirmed
<1> QED BY <1>1 DEF Form!OnlyConfirmedGo, Form!Gone, FormPages!Records!OnlyConfirmedGo, FormPages!Records!Gone

LEMMA FormSecretsAreKept == ASSUME FormPages!RecInv, [Form!Next]_Form!vars PROVE Form!SecretsAreKept
<1>1. FormPages!Records!SecretsAreKept
  BY ListsConstants, FormMoves, FormPages!RecSecrets
<1> QED BY <1>1 DEF Form!SecretsAreKept, Form!Gone, FormPages!Records!SecretsAreKept, FormPages!Records!Gone

(* Fields: its first states and its steps, and what its invariant says. *)
LEMMA FieldsOpens == ASSUME Fields!Init PROVE FieldsPages!RecInv
<1>1. FieldsPages!Records!Init
  BY DEF Fields!Init, Fields!Gone, Fields!NoFetch, Fields!Closed, Fields!Blank, Fields!Unsaved,
    FieldsPages!Records!Init, FieldsPages!Records!Gone, FieldsPages!Records!NoFetch,
    FieldsPages!Records!Closed, FieldsPages!Records!Blank, FieldsPages!Records!Unsaved
<1> QED BY <1>1, ListsConstants, FieldsPages!RecInit

LEMMA FieldsMoves == ASSUME [Fields!Next]_Fields!vars PROVE [FieldsPages!Records!Next]_FieldsPages!Records!vars
<1>1. Fields!vars = FieldsPages!Records!vars
  BY DEF Fields!vars, Fields!server, Fields!pageVars, Fields!history, FieldsPages!Records!vars,
    FieldsPages!Records!server, FieldsPages!Records!pageVars, FieldsPages!Records!history
<1>2. Fields!vars' = FieldsPages!Records!vars'
  BY DEF Fields!vars, Fields!server, Fields!pageVars, Fields!history, FieldsPages!Records!vars,
    FieldsPages!Records!server, FieldsPages!Records!pageVars, FieldsPages!Records!history
<1>3. Fields!Next => FieldsPages!Records!Next
  BY DEF Fields!Next, Fields!StartCreate, Fields!CloseForm, Fields!Save, Fields!AskBulkDelete,
    Fields!Decline, Fields!Accept, Fields!Refresh, Fields!ServeFetch, Fields!Fetched,
    Fields!FetchFails, Fields!StartEdit, Fields!AskRemove, Fields!OtherDeletes,
    Fields!OtherUpdates, Fields!TypeText, Fields!ChooseType, Fields!TypeSecret,
    Fields!TickClear, Fields!Select, Fields!Read, Fields!Write, Fields!Log, Fields!Restore,
    Fields!Refuse, Fields!RestoreFails, Fields!LoseAnswer, Fields!Saved, Fields!DeletedOne, Fields!DeletedAll, Fields!StartFetch,
    Fields!Failed, Fields!Create, Fields!Free, Fields!Blank, Fields!server, Fields!history,
    Fields!Closed, Fields!Request, Fields!Present, Fields!AskDelete, Fields!Targets,
    Fields!NoFetch, Fields!pageVars, Fields!Selection, Fields!Finish, Fields!Gone,
    Fields!FormFromPlatformItem, Fields!Typed, Fields!ChosenType, Fields!Ticked, Fields!AtWork,
    Fields!UpdatedRecord, Fields!To, Fields!Unsaved, Fields!NextTargets, Fields!Refreshed,
    Fields!SavingAfterFailure, Fields!NewSecret, Fields!Cardinality, FieldsPages!Records!Next,
    FieldsPages!Records!StartCreate, FieldsPages!Records!CloseForm, FieldsPages!Records!Save,
    FieldsPages!Records!AskBulkDelete, FieldsPages!Records!Decline, FieldsPages!Records!Accept,
    FieldsPages!Records!Refresh, FieldsPages!Records!ServeFetch, FieldsPages!Records!Fetched,
    FieldsPages!Records!FetchFails, FieldsPages!Records!StartEdit,
    FieldsPages!Records!AskRemove, FieldsPages!Records!OtherDeletes,
    FieldsPages!Records!OtherUpdates, FieldsPages!Records!TypeText,
    FieldsPages!Records!ChooseType, FieldsPages!Records!TypeSecret,
    FieldsPages!Records!TickClear, FieldsPages!Records!Select, FieldsPages!Records!Read,
    FieldsPages!Records!Write, FieldsPages!Records!Log, FieldsPages!Records!Restore,
    FieldsPages!Records!Refuse, FieldsPages!Records!RestoreFails, FieldsPages!Records!LoseAnswer, FieldsPages!Records!Saved, FieldsPages!Records!DeletedOne,
    FieldsPages!Records!DeletedAll, FieldsPages!Records!StartFetch, FieldsPages!Records!Failed,
    FieldsPages!Records!Create, FieldsPages!Records!Free, FieldsPages!Records!Blank,
    FieldsPages!Records!server, FieldsPages!Records!history, FieldsPages!Records!Closed,
    FieldsPages!Records!Request, FieldsPages!Records!Present, FieldsPages!Records!AskDelete,
    FieldsPages!Records!Targets, FieldsPages!Records!NoFetch, FieldsPages!Records!pageVars,
    FieldsPages!Records!Selection, FieldsPages!Records!Finish, FieldsPages!Records!Gone,
    FieldsPages!Records!FormFromPlatformItem, FieldsPages!Records!Typed,
    FieldsPages!Records!ChosenType, FieldsPages!Records!Ticked, FieldsPages!Records!AtWork,
    FieldsPages!Records!UpdatedRecord, FieldsPages!Records!To, FieldsPages!Records!Unsaved,
    FieldsPages!Records!NextTargets, FieldsPages!Records!Refreshed,
    FieldsPages!Records!SavingAfterFailure, FieldsPages!Records!NewSecret,
    FieldsPages!Records!Cardinality
<1> QED BY <1>1, <1>2, <1>3

LEMMA FieldsKeeps == ASSUME FieldsPages!RecInv, [Fields!Next]_Fields!vars PROVE FieldsPages!RecInv'
BY ListsConstants, FieldsMoves, FieldsPages!RecKeeps

LEMMA FieldsShows ==
  ASSUME FieldsPages!RecInv
  PROVE  Fields!TypeOK /\ Fields!SavedIsStoredUnlessEmpty /\ Fields!OneSecretWish
<1>1. FieldsPages!Records!TypeOK /\ FieldsPages!Records!SavedIsStoredUnlessEmpty /\
      FieldsPages!Records!OneSecretWish
  BY ListsConstants, FieldsPages!RecShows
<1>2. Fields!TypeOK
  BY <1>1 DEF Fields!TypeOK, Fields!Records, Fields!Gone, Fields!Forms, Fields!Phases,
    FieldsPages!Records!TypeOK, FieldsPages!Records!Records, FieldsPages!Records!Gone,
    FieldsPages!Records!Forms, FieldsPages!Records!Phases
<1>3. Fields!SavedIsStoredUnlessEmpty
  BY <1>1 DEF Fields!SavedIsStoredUnlessEmpty, Fields!Unsaved, Fields!Blank,
    FieldsPages!Records!SavedIsStoredUnlessEmpty, FieldsPages!Records!Unsaved,
    FieldsPages!Records!Blank
<1>4. Fields!OneSecretWish
  BY <1>1 DEF Fields!OneSecretWish, FieldsPages!Records!OneSecretWish
<1> QED BY <1>2, <1>3, <1>4

LEMMA FieldsSecretsAreKept == ASSUME FieldsPages!RecInv, [Fields!Next]_Fields!vars PROVE Fields!SecretsAreKept
<1>1. FieldsPages!Records!SecretsAreKept
  BY ListsConstants, FieldsMoves, FieldsPages!RecSecrets
<1> QED BY <1>1 DEF Fields!SecretsAreKept, Fields!Gone, FieldsPages!Records!SecretsAreKept, FieldsPages!Records!Gone

(* Table: its first states and its steps, and what its invariant says. *)
LEMMA TableOpens == ASSUME Table!Init PROVE Pages!TableInv
<1>1. Pages!Table!Init
  BY DEF Table!Init, Pages!Table!Init
<1> QED BY <1>1, ListsConstants, Pages!TableInit

LEMMA TableMoves == ASSUME [Table!Next]_Table!vars PROVE [Pages!Table!Next]_Pages!Table!vars
<1>1. Table!vars = Pages!Table!vars
  BY DEF Table!vars, Pages!Table!vars
<1>2. Table!vars' = Pages!Table!vars'
  BY DEF Table!vars, Pages!Table!vars
<1>3. Table!Next => Pages!Table!Next
  BY DEF Table!Next, Table!DataChanges, Table!SetQuery, Table!Settle, Table!NextPage,
    Table!PreviousPage, Table!SetPageSize, Table!Shown, Table!ToggleRow,
    Table!ToggleAllPageRows, Table!ClearSelection, Table!ToggleColumn, Table!ShowAllColumns,
    Table!PageAfter, Table!Filtered, Table!CanNextPage, Table!CanPreviousPage,
    Table!PageForSize, Table!Place, Table!Selects, Table!Toggled, Table!CanToggle,
    Table!PageCount, Table!Cardinality, Pages!Table!Next, Pages!Table!DataChanges,
    Pages!Table!SetQuery, Pages!Table!Settle, Pages!Table!NextPage, Pages!Table!PreviousPage,
    Pages!Table!SetPageSize, Pages!Table!Shown, Pages!Table!ToggleRow,
    Pages!Table!ToggleAllPageRows, Pages!Table!ClearSelection, Pages!Table!ToggleColumn,
    Pages!Table!ShowAllColumns, Pages!Table!PageAfter, Pages!Table!Filtered,
    Pages!Table!CanNextPage, Pages!Table!CanPreviousPage, Pages!Table!PageForSize,
    Pages!Table!Place, Pages!Table!Selects, Pages!Table!Toggled, Pages!Table!CanToggle,
    Pages!Table!PageCount, Pages!Table!Cardinality
<1> QED BY <1>1, <1>2, <1>3

LEMMA TableKeeps == ASSUME Pages!TableInv, [Table!Next]_Table!vars PROVE Pages!TableInv'
BY ListsConstants, TableMoves, Pages!TableKeeps

LEMMA TableShows ==
  ASSUME Pages!TableInv
  PROVE  Table!TypeOK /\ Table!PageIsTrue
<1>1. Pages!Table!TypeOK /\ Pages!Table!PageIsTrue
  BY ListsConstants, Pages!TableShows
<1>2. Table!TypeOK
  BY <1>1 DEF Table!TypeOK, Table!Cardinality, Pages!Table!TypeOK, Pages!Table!Cardinality
<1>3. Table!PageIsTrue
  BY <1>1 DEF Table!PageIsTrue, Table!Filtered, Table!Shown, Table!Place, Table!FirstRow,
    Table!LastRow, Table!Cardinality, Pages!Table!PageIsTrue, Pages!Table!Filtered,
    Pages!Table!Shown, Pages!Table!Place, Pages!Table!FirstRow, Pages!Table!LastRow,
    Pages!Table!Cardinality
<1> QED BY <1>2, <1>3

LEMMA TableOnlyShownChange == ASSUME Pages!TableInv, [Table!Next]_Table!vars PROVE Table!OnlyShownChange
<1>1. Pages!Table!OnlyShownChange
  BY ListsConstants, TableMoves, Pages!TableClicks
<1> QED BY <1>1 DEF Table!OnlyShownChange, Table!Shown, Table!Filtered, Table!Place, Table!Cardinality,
  Pages!Table!OnlyShownChange, Pages!Table!Shown, Pages!Table!Filtered, Pages!Table!Place,
  Pages!Table!Cardinality

LEMMA TableFirstRowStays == ASSUME Pages!TableInv, [Table!Next]_Table!vars PROVE Table!FirstRowStays
<1>1. Pages!Table!FirstRowStays
  BY ListsConstants, TableMoves, Pages!TableSizes
<1> QED BY <1>1 DEF Table!FirstRowStays, Table!Shown, Table!Filtered, Table!Place, Table!Cardinality,
  Pages!Table!FirstRowStays, Pages!Table!Shown, Pages!Table!Filtered, Pages!Table!Place,
  Pages!Table!Cardinality

LEMMA ListsStart == ASSUME Init PROVE ListsInv
<1>1. CASE showing = "settings"
  BY <1>1, SettingsOpens DEF Init, ListsInv
<1>2. CASE showing = "retention"
  BY <1>2, RetentionOpens DEF Init, ListsInv
<1>3. CASE showing = "keys"
  BY <1>3, KeysOpens DEF Init, ListsInv
<1>4. CASE showing = "policies"
  BY <1>4, PoliciesOpens DEF Init, ListsInv
<1>5. CASE showing = "mfa"
  BY <1>5, MfaOpens DEF Init, ListsInv
<1>6. CASE showing = "rows"
  BY <1>6, RecordsOpens DEF Init, ListsInv
<1>7. CASE showing = "form"
  BY <1>7, FormOpens DEF Init, ListsInv
<1>8. CASE showing = "fields"
  BY <1>8, FieldsOpens DEF Init, ListsInv
<1>9. CASE showing = "table"
  BY <1>9, TableOpens DEF Init, ListsInv
<1> QED BY <1>1, <1>2, <1>3, <1>4, <1>5, <1>6, <1>7, <1>8, <1>9 DEF ListsInv

LEMMA ListsStep == ASSUME ListsInv, [Next]_state PROVE ListsInv'
<1>1. showing' = showing
  BY DEF Next, state
<1>2. CASE showing = "settings"
  <2>1. Pages!SysInv
    BY <1>2 DEF ListsInv
  <2>2. [Settings!Next]_Settings!vars
    BY <1>2 DEF Next, state, onlySettings, onlyAccount, onlyMfa, onlyRecords, onlyTable,
      Settings!vars, Settings!page
  <2>3. Pages!SysInv'
    BY <2>1, <2>2, SettingsKeeps
  <2> QED BY <1>1, <1>2, <2>3 DEF ListsInv
<1>3. CASE showing = "retention"
  <2>1. OtherPages!SysInv
    BY <1>3 DEF ListsInv
  <2>2. [Retention!Next]_Retention!vars
    BY <1>3 DEF Next, state, onlySettings, onlyAccount, onlyMfa, onlyRecords, onlyTable,
      Retention!vars, Retention!page
  <2>3. OtherPages!SysInv'
    BY <2>1, <2>2, RetentionKeeps
  <2> QED BY <1>1, <1>3, <2>3 DEF ListsInv
<1>4. CASE showing = "keys"
  <2>1. Pages!AcctInv
    BY <1>4 DEF ListsInv
  <2>2. [Keys!Next]_Keys!vars
    BY <1>4 DEF Next, state, onlySettings, onlyAccount, onlyMfa, onlyRecords, onlyTable,
      Keys!vars, Keys!server, Keys!history
  <2>3. Pages!AcctInv'
    BY <2>1, <2>2, KeysKeeps
  <2> QED BY <1>1, <1>4, <2>3 DEF ListsInv
<1>5. CASE showing = "policies"
  <2>1. OtherPages!AcctInv
    BY <1>5 DEF ListsInv
  <2>2. [Policies!Next]_Policies!vars
    BY <1>5 DEF Next, state, onlySettings, onlyAccount, onlyMfa, onlyRecords, onlyTable,
      Policies!vars, Policies!server, Policies!history
  <2>3. OtherPages!AcctInv'
    BY <2>1, <2>2, PoliciesKeeps
  <2> QED BY <1>1, <1>5, <2>3 DEF ListsInv
<1>6. CASE showing = "mfa"
  <2>1. MfaPages!MfaInv
    BY <1>6 DEF ListsInv
  <2>2. [Mfa!Next]_Mfa!vars
    BY <1>6 DEF Next, state, onlySettings, onlyAccount, onlyMfa, onlyRecords, onlyTable,
      Mfa!vars, Mfa!server, Mfa!page, Mfa!history
  <2>3. MfaPages!MfaInv'
    BY <2>1, <2>2, MfaKeeps
  <2> QED BY <1>1, <1>6, <2>3 DEF ListsInv
<1>7. CASE showing = "rows"
  <2>1. RowsPages!RecInv
    BY <1>7 DEF ListsInv
  <2>2. [Records!Next]_Records!vars
    BY <1>7 DEF Next, state, onlySettings, onlyAccount, onlyMfa, onlyRecords, onlyTable,
      Records!vars, Records!server, Records!pageVars, Records!history
  <2>3. RowsPages!RecInv'
    BY <2>1, <2>2, RecordsKeeps
  <2> QED BY <1>1, <1>7, <2>3 DEF ListsInv
<1>8. CASE showing = "form"
  <2>1. FormPages!RecInv
    BY <1>8 DEF ListsInv
  <2>2. [Form!Next]_Form!vars
    BY <1>8 DEF Next, state, onlySettings, onlyAccount, onlyMfa, onlyRecords, onlyTable,
      Form!vars, Form!server, Form!pageVars, Form!history
  <2>3. FormPages!RecInv'
    BY <2>1, <2>2, FormKeeps
  <2> QED BY <1>1, <1>8, <2>3 DEF ListsInv
<1>9. CASE showing = "fields"
  <2>1. FieldsPages!RecInv
    BY <1>9 DEF ListsInv
  <2>2. [Fields!Next]_Fields!vars
    BY <1>9 DEF Next, state, onlySettings, onlyAccount, onlyMfa, onlyRecords, onlyTable,
      Fields!vars, Fields!server, Fields!pageVars, Fields!history
  <2>3. FieldsPages!RecInv'
    BY <2>1, <2>2, FieldsKeeps
  <2> QED BY <1>1, <1>9, <2>3 DEF ListsInv
<1>10. CASE showing = "table"
  <2>1. Pages!TableInv
    BY <1>10 DEF ListsInv
  <2>2. [Table!Next]_Table!vars
    BY <1>10 DEF Next, state, onlySettings, onlyAccount, onlyMfa, onlyRecords, onlyTable,
      Table!vars
  <2>3. Pages!TableInv'
    BY <2>1, <2>2, TableKeeps
  <2> QED BY <1>1, <1>10, <2>3 DEF ListsInv
<1> QED BY <1>1, <1>2, <1>3, <1>4, <1>5, <1>6, <1>7, <1>8, <1>9, <1>10 DEF ListsInv

LEMMA ListsInvariance == Spec => []ListsInv
<1>1. Init => ListsInv
  BY ListsStart
<1>2. ListsInv /\ [Next]_state => ListsInv'
  BY ListsStep
<1> QED BY <1>1, <1>2, PTL DEF Spec

(* The variables of every page hold values the code can give them, in      *)
(* behaviours of any length.                                               *)
THEOREM ListTypes == Spec => []TypesOK
<1>1. ListsInv => TypesOK
  BY SettingsShows, RetentionShows, KeysShows, PoliciesShows, MfaShows, RecordsShows, FormShows,
    FieldsShows, TableShows DEF ListsInv, TypesOK
<1> QED BY <1>1, ListsInvariance, PTL

(* A page at rest shows what the server stores, for any number of          *)
(* overlapping loads, saves and deletions: settings sections, keys,        *)
(* policies and locks, the MFA panel, the rows of a collection, and the    *)
(* page of a table (loadLoginSecurity, loadPasskeys, app.refresh, the      *)
(* effect of DataTable). Each part names what leaves an older display: a   *)
(* load that failed or was overtaken, and for the rows of a collection     *)
(* also a change made elsewhere, a bulk deletion that stopped, a lost      *)
(* answer and an undoing that failed.                                      *)
THEOREM PagesShowStored == Spec => []ListsShowStored
<1>1. ListsInv => ListsShowStored
  BY SettingsShows, RetentionShows, KeysShows, PoliciesShows, MfaShows, RecordsShows, FormShows,
    TableShows DEF ListsInv, ListsShowStored
<1> QED BY <1>1, ListsInvariance, PTL

(* What a page reported as done is done at the server, also after its      *)
(* other saves and deletions: sections that share an item, records with    *)
(* their secrets, deletions, recovery codes, and the limit of passkeys     *)
(* when tabs take turns (saveOIDCSettings, save, remove, enableMFA,        *)
(* registerPasskey).                                                       *)
THEOREM ReportsAreTrue == Spec => []ReportedIsStored
<1>1. ListsInv => ReportedIsStored
  BY SettingsShows, RetentionShows, KeysShows, MfaShows, RecordsShows, FormShows, FieldsShows DEF ListsInv, ReportedIsStored
<1> QED BY <1>1, ListsInvariance, PTL

(* A button is disabled exactly while its handler runs, through errors and *)
(* answers out of order, the bulk buttons mean rows on display, and the    *)
(* record form never wants a secret both set and cleared (saving,          *)
(* selectedIDs, the busy flags).                                           *)
THEOREM ButtonsAreTrue == Spec => []ControlsAreTrue
<1>1. ListsInv => ControlsAreTrue
  BY SettingsShows, RetentionShows, KeysShows, PoliciesShows, RecordsShows, FormShows,
    FieldsShows DEF ListsInv, ControlsAreTrue
<1> QED BY <1>1, ListsInvariance, PTL

(* Nothing is lost that the user did not ask about: a step takes a key or  *)
(* a record away only after its own deletion was confirmed, changes a      *)
(* secret only for a request that carries another or clears it, selects    *)
(* only rows on display, and with a new page size keeps the first of them  *)
(* in view (deletePasskey, remove, bulkDelete, save, DataTable).           *)
THEOREM PagesChangeAsAsked == Spec => OnlyAskedChanges
<1> DEFINE A == /\ showing = "keys" => Keys!OnlyConfirmedGo
                /\ showing = "rows" => Records!OnlyConfirmedGo
                /\ showing = "form" => Form!OnlyConfirmedGo /\ Form!SecretsAreKept
                /\ showing = "fields" => Fields!SecretsAreKept
                /\ showing = "table" => Table!OnlyShownChange /\ Table!FirstRowStays
<1>1. ListsInv /\ [Next]_state => A
  <2> SUFFICES ASSUME ListsInv, [Next]_state PROVE A
    OBVIOUS
  <2>1. ASSUME showing = "keys" PROVE Keys!OnlyConfirmedGo
    <3>1. Pages!AcctInv
      BY <2>1 DEF ListsInv
    <3>2. [Keys!Next]_Keys!vars
      BY <2>1 DEF Next, state, onlySettings, onlyAccount, onlyMfa, onlyRecords, onlyTable,
        Keys!vars, Keys!server, Keys!history
    <3> QED BY <3>1, <3>2, KeysOnlyConfirmedGo
  <2>2. ASSUME showing = "rows" PROVE Records!OnlyConfirmedGo
    <3>1. RowsPages!RecInv
      BY <2>2 DEF ListsInv
    <3>2. [Records!Next]_Records!vars
      BY <2>2 DEF Next, state, onlySettings, onlyAccount, onlyMfa, onlyRecords, onlyTable,
        Records!vars, Records!server, Records!pageVars, Records!history
    <3> QED BY <3>1, <3>2, RecordsOnlyConfirmedGo
  <2>3. ASSUME showing = "form" PROVE Form!OnlyConfirmedGo /\ Form!SecretsAreKept
    <3>1. FormPages!RecInv
      BY <2>3 DEF ListsInv
    <3>2. [Form!Next]_Form!vars
      BY <2>3 DEF Next, state, onlySettings, onlyAccount, onlyMfa, onlyRecords, onlyTable,
        Form!vars, Form!server, Form!pageVars, Form!history
    <3> QED BY <3>1, <3>2, FormOnlyConfirmedGo, FormSecretsAreKept
  <2>4. ASSUME showing = "fields" PROVE Fields!SecretsAreKept
    <3>1. FieldsPages!RecInv
      BY <2>4 DEF ListsInv
    <3>2. [Fields!Next]_Fields!vars
      BY <2>4 DEF Next, state, onlySettings, onlyAccount, onlyMfa, onlyRecords, onlyTable,
        Fields!vars, Fields!server, Fields!pageVars, Fields!history
    <3> QED BY <3>1, <3>2, FieldsSecretsAreKept
  <2>5. ASSUME showing = "table" PROVE Table!OnlyShownChange /\ Table!FirstRowStays
    <3>1. Pages!TableInv
      BY <2>5 DEF ListsInv
    <3>2. [Table!Next]_Table!vars
      BY <2>5 DEF Next, state, onlySettings, onlyAccount, onlyMfa, onlyRecords, onlyTable,
        Table!vars
    <3> QED BY <3>1, <3>2, TableOnlyShownChange, TableFirstRowStays
  <2> QED BY <2>1, <2>2, <2>3, <2>4, <2>5
<1>2. Spec => [][A]_state
  BY <1>1, ListsInvariance, PTL DEF Spec
<1> QED BY <1>2, PTL DEF OnlyAskedChanges

=============================================================================
