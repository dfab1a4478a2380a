--------------------------- MODULE SystemSettings ---------------------------
(***************************************************************************)
(* The sections of the settings page that keep their values in the items   *)
(* of the system_settings collection: login security, log retention and    *)
(* the three external identity sources.                                    *)
(*                                                                         *)
(* An item may hold the values of several sections: login security is      *)
(* written into an identity item when there is no item of its own.  Every  *)
(* save replaces the metadata of a whole item by a copy the page holds,    *)
(* with the values of one section put in, and ends by loading all sections *)
(* again.  Saves of different sections overlap; each has its own busy flag.*)
(*                                                                         *)
(* A value is "on" or "off" ("bad": enabled, and the form is incomplete).  *)
(* Secrets, which the server never returns, are left out here.             *)
(***************************************************************************)
EXTENDS Naturals, Sequences, FiniteSets, FiniteSetsExt

CONSTANTS Used,          \* the sections on the page
          MaxSaves       \* bound on the saves of one behaviour

(* What tells the save handlers apart:                                     *)
(*   fresh      the item is fetched again before it is written             *)
(*   keeps      the saved item is kept until the reload                    *)
(*   refreshes  the app's own queries are refreshed before the reload      *)
UpdateLoginSecurity == [fresh |-> TRUE, keeps |-> FALSE, refreshes |-> TRUE]
SaveRetentionSettings == [fresh |-> FALSE, keeps |-> FALSE, refreshes |-> FALSE]
SaveOIDCSettings == [fresh |-> FALSE, keeps |-> TRUE, refreshes |-> TRUE]
SaveLDAPSettings == [fresh |-> FALSE, keeps |-> TRUE, refreshes |-> TRUE]
SaveWeComSettings == [fresh |-> FALSE, keeps |-> TRUE, refreshes |-> TRUE]

Handler == [security |-> UpdateLoginSecurity, retention |-> SaveRetentionSettings,
            oidc |-> SaveOIDCSettings, ldap |-> SaveLDAPSettings, wecom |-> SaveWeComSettings]

Sections == DOMAIN Handler
Identity == {"oidc", "ldap", "wecom"}

(* What the values of the constants satisfy. *)
ConstantsOK == Used \subseteq Sections /\ MaxSaves \in Nat

VARIABLES
  store,      \* the server's items, oldest first
  required,   \* captchaRequired of the app, from its auth-status query
  form,       \* the value on display, by section
  setting,    \* the copy of the item a section came from
  busy, reqs, saves,
  edited,     \* sections edited since they were last set from the server
  last,       \* history: the value written last, by section
  raced       \* history: requests have overlapped, or one has failed

page == <<form, setting, edited>>
vars == <<store, required, page, busy, reqs, saves, last, raced>>

Values == {"on", "off"}
Blank == [s \in Used |-> "absent"]
NoItem == [id |-> 0, data |-> Blank]
Items == [id : 0 .. MaxSaves + 1, data : [Used -> Values \cup {"absent"}]]

(***************************************************************************)
(* What the page reads from a list of items                                *)
(***************************************************************************)

(* loginSecurityTypes, and the has...Metadata functions.  The name of an   *)
(* item is that of the section that created it.                            *)
Candidates(items, s) ==
  {i \in DOMAIN items :
     CASE s = "security" -> items[i].by # "retention"
       [] s = "retention" -> items[i].by = "retention"
       [] OTHER -> items[i].by \in Identity /\ items[i].data[s] # "absent"}

(* The item of a section: by its name, else by its keys, else any; lists   *)
(* have the newest item first.                                             *)
Target(items, s) ==
  LET all == Candidates(items, s)
      named == {i \in all : items[i].by = s}
      marked == {i \in all : items[i].data[s] # "absent"}
  IN IF all = {} THEN 0
     ELSE Max(IF named # {} THEN named ELSE IF marked # {} THEN marked ELSE all)

ItemOf(items, s) ==
  LET i == Target(items, s) IN IF i = 0 THEN NoItem ELSE [id |-> i, data |-> items[i].data]

(* loginSecurityFromSettings: any candidate turns captcha on, and so does  *)
(* the fallback, which is what the app knew when the handler began.        *)
SecurityFrom(items, fallback) ==
  IF fallback \/ \E i \in Candidates(items, "security") : items[i].data["security"] = "on"
  THEN "on" ELSE "off"

(* What a section shows when no item has it. *)
Defaults == [s \in Used |-> "off"]

(* retention-, oidc-, ldap- and wecomSettingsFromSettings, with their      *)
(* defaults when no item has the section.                                  *)
SettingsFrom(items, s, fallback) ==
  LET i == Target(items, s) IN
  IF s = "security" THEN SecurityFrom(items, fallback)
  ELSE IF i = 0 THEN Defaults[s] ELSE items[i].data[s]

(* captchaRequired of the server. *)
CaptchaRequired(items) == "security" \in Used /\ SecurityFrom(items, FALSE) = "on"

TypeOK ==
  /\ \A i \in DOMAIN store : store[i].by \in Used /\ store[i].data \in [Used -> Values \cup {"absent"}]
  /\ required \in BOOLEAN /\ raced \in BOOLEAN /\ saves \in 0 .. MaxSaves
  /\ form \in [Used -> Values \cup {"bad"}] /\ setting \in [Used -> Items]
  /\ busy \subseteq Used /\ edited \subseteq Used
  /\ last \in [Used -> Values \cup {"absent"}]
  /\ \A r \in reqs : /\ r.phase \in {"get", "put", "wrote", "refresh", "load", "served"}
                     /\ r.s \in Used \cup {"mount"} /\ r.fallback \in BOOLEAN

(* The items there are when the page mounts: none, or one identity item    *)
(* with the keys of some of the identity sections.  The page loads them.   *)
FirstItems ==
  {<<>>} \cup
  {<<item>> : item \in {x \in [by : Used \cap Identity, data : [Used -> {"on", "absent"}]] :
                          \A q \in Used \ Identity : x.data[q] = "absent"}}

Request(s, val, phase, target) ==
  [s |-> s, phase |-> phase, val |-> val, target |-> target,
   fallback |-> required, items |-> <<>>]

Init ==
  /\ store \in {items \in FirstItems : \A i \in DOMAIN items : items[i].data[items[i].by] # "absent"}
  /\ required = FALSE
  /\ form = Defaults /\ setting = [s \in Used |-> NoItem]
  /\ busy = {} /\ saves = 0 /\ edited = {} /\ raced = FALSE
  /\ last = [s \in Used |-> IF store = <<>> THEN "absent" ELSE store[1].data[s]]
  /\ reqs = {[s |-> "mount", phase |-> "load", val |-> "off", target |-> NoItem,
              fallback |-> FALSE, items |-> <<>>]}

To(r, phase) == (reqs \ {r}) \cup {[r EXCEPT !.phase = phase]}

(***************************************************************************)
(* The user                                                                *)
(***************************************************************************)

(* A field of a section changes: patchOIDC and the others. *)
Edit(s, v) ==
  /\ s \in Used /\ form[s] # v
  /\ form' = [form EXCEPT ![s] = v] /\ edited' = edited \cup {s}
  /\ UNCHANGED <<store, required, setting, busy, reqs, saves, last, raced>>

EditOIDC(v) == Edit("oidc", v)
EditLDAP(v) == Edit("ldap", v)
EditWeCom(v) == Edit("wecom", v)
EditRetention(v) == v # "bad" /\ Edit("retention", v)

(* oidcFormValid, ldapFormValid, wecomFormValid: an enabled source has all *)
(* that its server needs.                                                  *)
FormValid(s) == form[s] # "bad"

(* A save begins; val is what it will write. *)
Begin(s, val) ==
  /\ s \notin busy /\ saves < MaxSaves
  /\ busy' = busy \cup {s} /\ saves' = saves + 1
  /\ reqs' = reqs \cup {IF Handler[s].fresh THEN Request(s, val, "get", NoItem)
                        ELSE Request(s, val, "put", setting[s])}
  /\ raced' = (raced \/ reqs # {})
  /\ UNCHANGED <<store, required, page, last>>

Save(s) == s # "security" /\ FormValid(s) /\ Begin(s, form[s])

Other(v) == IF v = "on" THEN "off" ELSE "on"

(* updateLoginSecurity: a toggle saves at once the value on display        *)
(* changed, and the button saves the numbers with the value on display.    *)
SaveLoginSecurity == "security" \in Used /\ Begin("security", form["security"])
ToggleCaptcha == "security" \in Used /\ Begin("security", Other(form["security"]))

(***************************************************************************)
(* The handlers                                                            *)
(***************************************************************************)

(* updateLoginSecurity has the items it asked for. *)
Fetched(r) ==
  /\ r.phase = "get"
  /\ reqs' = (reqs \ {r}) \cup {[r EXCEPT !.phase = "put", !.target = ItemOf(store, "security")]}
  /\ UNCHANGED <<store, required, page, busy, saves, last, raced>>

(* Mutant: only the keys of the section are sent. *)
MetadataOwnOnly(r) == [Blank EXCEPT ![r.s] = r.val]

(* The metadata of the payload: the copy's, with the section's keys set. *)
Metadata(r) == [r.target.data EXCEPT ![r.s] = r.val]

(* The item the server answers with. *)
SavedItem(r) ==
  [id |-> IF r.target.id = 0 THEN Len(store) + 1 ELSE r.target.id, data |-> Metadata(r)]

(* POST or PATCH on the server: the metadata is replaced. *)
Write(r) ==
  /\ r.phase = "put"
  /\ store' = IF r.target.id = 0 THEN Append(store, [by |-> r.s, data |-> Metadata(r)])
              ELSE [store EXCEPT ![r.target.id].data = Metadata(r)]
  /\ reqs' = (reqs \ {r}) \cup
             {[r EXCEPT !.phase = "wrote", !.target = SavedItem(r)]}
  /\ last' = [last EXCEPT ![r.s] = r.val]
  /\ UNCHANGED <<required, page, busy, saves, raced>>

AfterWrite(r) == IF Handler[r.s].refreshes THEN "refresh" ELSE "load"

(* The answer: the identity sections keep the saved item. *)
Saved(r) ==
  /\ r.phase = "wrote"
  /\ setting' = IF Handler[r.s].keeps THEN [setting EXCEPT ![r.s] = r.target] ELSE setting
  /\ reqs' = To(r, AfterWrite(r))
  /\ UNCHANGED <<store, required, form, edited, busy, saves, last, raced>>

(* app.refresh: when captchaRequired changes, an effect puts it on display.*)
Refreshed(r) ==
  /\ r.phase = "refresh"
  /\ required' = CaptchaRequired(store)
  /\ form' = IF required' # required
             THEN [form EXCEPT !["security"] = IF required' THEN "on" ELSE "off"] ELSE form
  /\ reqs' = To(r, "load")
  /\ UNCHANGED <<store, setting, edited, busy, saves, last, raced>>

(* Mutant: the identity sections are not set. *)
LoadedFormOfOthers(r) ==
  [s \in Used |-> IF s \in Identity THEN form[s] ELSE SettingsFrom(r.items, s, r.fallback)]

(* loadLoginSecurity: all sections are set from the items. *)
LoadedForm(r) == [s \in Used |-> SettingsFrom(r.items, s, r.fallback)]

Serve(r) ==
  /\ r.phase = "load"
  /\ reqs' = (reqs \ {r}) \cup {[r EXCEPT !.phase = "served", !.items = store]}
  /\ UNCHANGED <<store, required, page, busy, saves, last, raced>>

(* Mutant: the copies of the items are not replaced. *)
LoadedSettingNone(r) == setting

LoadedSetting(r) == [s \in Used |-> ItemOf(r.items, s)]

Loaded(r) ==
  /\ r.phase = "served"
  /\ form' = LoadedForm(r) /\ setting' = LoadedSetting(r) /\ edited' = {}
  /\ reqs' = reqs \ {r} /\ busy' = busy \ {r.s}
  /\ UNCHANGED <<store, required, saves, last, raced>>

(* Mutant: the busy flag is only reset after success. *)
FailBusy(r) ==
  /\ reqs' = reqs \ {r} /\ raced' = TRUE
  /\ UNCHANGED <<store, required, page, busy, saves, last>>

(* A request fails, before or after the server has done its work. *)
Fail(r) ==
  /\ reqs' = reqs \ {r} /\ busy' = busy \ {r.s} /\ raced' = TRUE
  /\ UNCHANGED <<store, required, page, saves, last>>

User ==
  \/ \E v \in Values \cup {"bad"} : EditOIDC(v) \/ EditLDAP(v) \/ EditWeCom(v) \/ EditRetention(v)
  \/ SaveLoginSecurity \/ ToggleCaptcha
  \/ \E s \in Used : Save(s)

Next ==
  \/ User
  \/ \E r \in reqs : \/ Fetched(r) \/ Write(r) \/ Saved(r) \/ Refreshed(r)
                     \/ Serve(r) \/ Loaded(r) \/ Fail(r)

Spec == Init /\ [][Next]_vars

(***************************************************************************)
(* Properties                                                              *)
(***************************************************************************)

Idle == reqs = {} /\ ~raced

(* While saves do not overlap and none fails, no section's value is lost   *)
(* to the save of another one, though they may share an item and every     *)
(* save replaces the whole item: each section is stored as it was saved.   *)
SavedIsStored ==
  ~raced => \A s \in Used : last[s] # "absent" =>
    \E i \in DOMAIN store : i = Target(store, s) /\ store[i].data[s] = last[s]

(* In the same circumstances a section never gets a second item. *)
NoDuplicateItem ==
  ~raced => \A s \in Used : Cardinality({i \in DOMAIN store : store[i].by = s}) <= 1

(* At rest, a section without edits displays what the server has stored:   *)
(* also the sections that were not the one saved.                          *)
SectionsShowStored ==
  Idle => \A s \in Used \ (edited \cup {"security"}) : form[s] = SettingsFrom(store, s, FALSE)

(* A section's buttons are disabled exactly while a save of it is under    *)
(* way, whatever fails in between, so no section has two saves at a time.  *)
BusyIsTrue ==
  /\ busy = {r.s : r \in reqs} \ {"mount"}
  /\ \A r1, r2 \in reqs : r1.s = r2.s => r1 = r2

=============================================================================
