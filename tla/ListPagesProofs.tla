--------------------------- MODULE ListPagesProofs ---------------------------
(***************************************************************************)
(* The pages of the console that list and edit records, each for every     *)
(* value of its constants: the settings sections, the lists of the         *)
(* account, the MFA panel, the console tables with their record form, and  *)
(* the data table. ListsProofs uses the invariants found here.             *)
(***************************************************************************)
EXTENDS Naturals, Sequences, FiniteSets, FiniteSetTheorems, SequenceTheorems, TLAPS

CONSTANTS
  Used, MaxSaves, Lists, Ids, Limit, MaxRequests, Texts, Types, Secrets,
  Rows, Queries, Matches, Sizes, Columns

VARIABLES
  store, required, form, setting, busy, reqs, saves, edited, last, raced,
  items, list, issued, asking, other, accepted, stale, overlap, on, codes,
  status, setup, code, shown, unseen, disturbed, stored, rows, fetch,
  selected, dialog, saving, doomed, announced, saved, behind, data, query,
  pageIndex, pageSize, hidden, pending

Settings == INSTANCE SystemSettings
Account == INSTANCE AccountLists
Mfa == INSTANCE MfaSection
Records == INSTANCE ConsoleTable
Table == INSTANCE DataTable

-----------------------------------------------------------------------------
(***************************************************************************)
(* The sections of the settings page. A section is stored as it was saved  *)
(* because, as long as requests do not overlap, it has its values in one   *)
(* item, where it looks for them (SysStoreOK), and every copy that is      *)
(* written back is the item as it is (SysAlone). That items never get more *)
(* than the page can name needs the saves still under way counted          *)
(* (SysCount), and that retention is kept apart is true of every copy and  *)
(* every list sent, raced or not (SysHeld, SysOlder).                      *)
(***************************************************************************)

(* The module's counting is that of FiniteSets. *)
LEMMA SysCounts == (\A S : Settings!Cardinality(S) = Cardinality(S)) /\ \A S : Settings!IsFiniteSet(S) <=> IsFiniteSet(S)
<1>1. \A S : Settings!Cardinality(S) = Cardinality(S)
  BY DEF Cardinality, Settings!Cardinality
<1>2. \A S : Settings!IsFiniteSet(S) <=> IsFiniteSet(S)
  BY DEF IsFiniteSet, Settings!IsFiniteSet
<1> QED BY <1>1, <1>2

(* A finite set of numbers that is not empty has a largest one: counting   *)
(* the smaller ones numbers its elements from 0 without a gap, and the one *)
(* with the last number is it.                                             *)
LEMMA SetPlaces ==
  ASSUME NEW S, IsFiniteSet(S), S \subseteq Nat
  PROVE  LET place(r) == Cardinality({s \in S : s < r}) IN
         /\ Cardinality(S) \in Nat /\ (S # {} => Cardinality(S) > 0)
         /\ \A r \in S : place(r) \in 0 .. Cardinality(S) - 1
         /\ \A r, q \in S : r < q => place(r) < place(q)
         /\ \A n \in 0 .. Cardinality(S) - 1 : \E r \in S : place(r) = n
<1> DEFINE below(r) == {s \in S : s < r}
           place(r) == Cardinality(below(r))
<1>1. Cardinality(S) \in Nat /\ (S # {} => Cardinality(S) > 0)
  BY FS_CardinalityType, FS_EmptySet
<1>2. ASSUME NEW r \in S PROVE below(r) \subseteq S /\ below(r) \subseteq S \ {r} /\ IsFiniteSet(below(r)) /\ place(r) \in Nat
  <2>1. below(r) \subseteq S /\ below(r) \subseteq S \ {r}
    OBVIOUS
  <2> HIDE DEF below
  <2> QED BY <2>1, FS_Subset, FS_CardinalityType
<1>3. ASSUME NEW r \in S PROVE place(r) \in 0 .. Cardinality(S) - 1
  <2>1. IsFiniteSet(S \ {r}) /\ Cardinality(S \ {r}) = Cardinality(S) - 1
    BY FS_RemoveElement
  <2> HIDE DEF below
  <2>2. place(r) <= Cardinality(S) - 1
    BY <1>2, <2>1, FS_Subset
  <2> QED BY <1>1, <1>2, <2>2
<1>4. ASSUME NEW r \in S, NEW q \in S, r < q PROVE place(r) < place(q)
  <2>1. r \notin below(r) /\ below(r) \cup {r} \subseteq below(q)
    <3>1. r \in Nat /\ q \in Nat /\ \A x \in S : x \in Nat
      OBVIOUS
    <3>2. \A x \in S : x < r => x < q
      BY <1>4, <3>1
    <3>3. ~(r < r)
      BY <3>1
    <3> QED BY <1>4, <3>2, <3>3
  <2> HIDE DEF below
  <2>2. Cardinality(below(r) \cup {r}) = Cardinality(below(r)) + 1
    BY <1>2, <2>1, FS_AddElement
  <2>3. Cardinality(below(r) \cup {r}) <= Cardinality(below(q))
    BY <1>2, <2>1, FS_Subset
  <2> QED BY <1>2, <2>2, <2>3
<1>5. ASSUME NEW n \in 0 .. Cardinality(S) - 1 PROVE \E r \in S : place(r) = n
  <2> DEFINE T == 0 .. Cardinality(S) - 1
             f == [r \in S |-> place(r)]
  <2> HIDE DEF below
  <2>1. f \in [S -> T]
    BY <1>3
  <2>2. \A r, q \in S : f[r] = f[q] => r = q
    <3> SUFFICES ASSUME NEW r \in S, NEW q \in S, r # q PROVE place(r) # place(q)
      OBVIOUS
    <3>1. r < q \/ q < r
      OBVIOUS
    <3> QED BY <1>2, <1>4, <3>1
  <2>3. f \in Injection(S, T)
    BY <2>1, <2>2 DEF Injection, IsInjective
  <2>4. IsFiniteSet(T) /\ Cardinality(T) = Cardinality(S)
    <3>1. 0 \in Int /\ Cardinality(S) - 1 \in Int
      BY <1>1
    <3>2. IsFiniteSet(T) /\ Cardinality(T) = IF 0 > Cardinality(S) - 1 THEN 0 ELSE Cardinality(S) - 1 - 0 + 1
      BY <3>1, FS_Interval
    <3> QED BY <1>1, <3>2
  <2>5. f \in Surjection(S, T)
    BY <2>3, <2>4, FS_Injection
  <2> QED BY <2>5 DEF Surjection
<1> QED BY <1>1, <1>3, <1>4, <1>5

LEMMA SetMax ==
  ASSUME NEW S, IsFiniteSet(S), S \subseteq Nat, S # {}
  PROVE  Settings!Max(S) \in S
<1> DEFINE place(r) == Cardinality({s \in S : s < r})
<1>1. /\ Cardinality(S) \in Nat /\ Cardinality(S) > 0
      /\ \A r \in S : place(r) \in 0 .. Cardinality(S) - 1
      /\ \A r, q \in S : r < q => place(r) < place(q)
      /\ \A n \in 0 .. Cardinality(S) - 1 : \E r \in S : place(r) = n
  BY SetPlaces
<1> HIDE DEF place
<1>2. PICK x \in S : place(x) = Cardinality(S) - 1
  BY <1>1
<1>3. \A y \in S : x >= y
  <2> SUFFICES ASSUME NEW y \in S, x < y PROVE FALSE
    OBVIOUS
  <2> QED BY <1>1, <1>2
<1>4. \E z \in S : \A y \in S : z >= y
  BY <1>3
<1> QED BY <1>4 DEF Settings!Max

(***************************************************************************)
(* The invariant                                                           *)
(***************************************************************************)

SysData == [Used -> Settings!Values \cup {"absent"}]
SysItems == [by : Used, data : SysData]

(* Lists of items as the server makes them: a retention item holds the     *)
(* retention values.                                                       *)
SysProper(listed) ==
  listed \in Seq(SysItems) /\ \A i \in DOMAIN listed : listed[i].by = "retention" => listed[i].data["retention"] # "absent"

(* A list that the server has sent: items only come and change. *)
SysOlder(listed) ==
  SysProper(listed) /\ Len(listed) <= Len(store) /\ \A i \in DOMAIN listed : listed[i].by = store[i].by

(* A copy of an item that the section may write back. *)
SysHeld(s, t) ==
  /\ t \in [id : Nat, data : SysData] /\ t.id <= Len(store)
  /\ t.id # 0 => (store[t.id].by = "retention" <=> s = "retention")

SysRequests ==
  [s : Used \cup {"mount"}, phase : {"get", "put", "wrote", "refresh", "load", "served"}, val : Settings!Values,
   target : [id : Nat, data : SysData], fallback : BOOLEAN, items : Seq(SysItems)]

SysShape(r) ==
  /\ r \in SysRequests /\ SysOlder(r.items)
  /\ r.s = "mount" => r.phase \in {"load", "served"}
  /\ r.s \in Used => SysHeld(r.s, r.target)
  /\ r.phase = "get" => r.s = "security"

SysTypes ==
  /\ SysProper(store) /\ saves \in 0 .. MaxSaves
  /\ form \in [Used -> Settings!Values \cup {"bad"}] /\ ("security" \in Used => form["security"] \in Settings!Values)
  /\ setting \in [Used -> [id : Nat, data : SysData]] /\ (\A s \in Used : SysHeld(s, setting[s]))
  /\ busy \subseteq Used /\ edited \subseteq Used /\ last \in SysData
  /\ \A r \in reqs : SysShape(r)

SysFlags == required \in BOOLEAN /\ raced \in BOOLEAN

(* Every item but the first has cost a save. *)
SysToWrite == {r \in reqs : r.phase \in {"get", "put"}}

SysCount == IsFiniteSet(reqs) /\ Len(store) + Cardinality(SysToWrite) <= saves + 1

SysBusy ==
  /\ \A s \in Used : s \in busy <=> \E r \in reqs : r.s = s
  /\ \A q, r \in reqs : q.s = r.s => q = r

(* The sections that may put their values in an item. *)
SysHome(s, by) ==
  /\ s = "security" => by # "retention"
  /\ s = "retention" => by = "retention"
  /\ s \in Settings!Identity => by \in Settings!Identity

(* Without overlap and failure, a section has its values in one item, one  *)
(* where it looks for them, and the values are the ones written last.      *)
SysStoreOK ==
  /\ \A i \in DOMAIN store : store[i].data[store[i].by] # "absent"
  /\ \A s \in Used : \A i, j \in DOMAIN store : store[i].data[s] # "absent" /\ store[j].data[s] # "absent" => i = j
  /\ \A s \in Used : \A i \in DOMAIN store :
       store[i].data[s] # "absent" => SysHome(s, store[i].by) /\ store[i].data[s] = last[s]
  /\ \A s \in Used : last[s] # "absent" => \E i \in DOMAIN store : store[i].data[s] # "absent"

(* In these circumstances the copies are up to date where they are used.   *)
SysAlone ==
  /\ \A q, r \in reqs : q = r
  /\ \A r \in reqs : r.phase = "put" => r.target = Settings!ItemOf(store, r.s)
  /\ \A r \in reqs : r.phase = "served" => r.items = store
  /\ reqs = {} => \A s \in Used : /\ setting[s] = Settings!ItemOf(store, s)
                                  /\ s \notin edited /\ s # "security" => form[s] = Settings!SettingsFrom(store, s, FALSE)

SysInv == SysTypes /\ SysFlags /\ SysCount /\ SysBusy /\ (~raced => SysStoreOK /\ SysAlone)

(***************************************************************************)
(* The item of a section                                                   *)
(***************************************************************************)

LEMMA SysSections == Settings!Sections = {"security", "retention", "oidc", "ldap", "wecom"}
  BY DEF Settings!Sections, Settings!Handler

LEMMA SysHandlers ==
  ASSUME NEW s \in Settings!Sections
  PROVE  (Settings!Handler[s].fresh <=> s = "security")
<1>1. Settings!Handler["security"].fresh /\ ~Settings!Handler["retention"].fresh /\ ~Settings!Handler["oidc"].fresh /\ ~Settings!Handler["ldap"].fresh /\ ~Settings!Handler["wecom"].fresh
  BY DEF Settings!Handler, Settings!UpdateLoginSecurity, Settings!SaveRetentionSettings, Settings!SaveOIDCSettings, Settings!SaveLDAPSettings, Settings!SaveWeComSettings
<1> QED BY <1>1, SysSections

LEMMA SysUsed == ASSUME Settings!ConstantsOK PROVE Used \subseteq Settings!Sections /\ "mount" \notin Used /\ MaxSaves \in Nat
  BY SysSections DEF Settings!ConstantsOK

LEMMA SysTarget ==
  ASSUME Settings!ConstantsOK, NEW listed \in Seq(SysItems), NEW s \in Used
  PROVE  \/ Settings!Target(listed, s) = 0 /\ Settings!Candidates(listed, s) = {}
         \/ /\ Settings!Target(listed, s) \in Settings!Candidates(listed, s)
            /\ \/ listed[Settings!Target(listed, s)].by = s
               \/ /\ \A i \in Settings!Candidates(listed, s) : listed[i].by # s
                  /\ \/ listed[Settings!Target(listed, s)].data[s] # "absent"
                     \/ \A i \in Settings!Candidates(listed, s) : listed[i].data[s] = "absent"
<1> DEFINE all == Settings!Candidates(listed, s)
           named == {i \in all : listed[i].by = s}
           marked == {i \in all : listed[i].data[s] # "absent"}
           pick == IF named # {} THEN named ELSE IF marked # {} THEN marked ELSE all
<1>1. Settings!Target(listed, s) = IF all = {} THEN 0 ELSE Settings!Max(pick)
  BY DEF Settings!Target
<1>2. all \subseteq 1 .. Len(listed) /\ Len(listed) \in Nat
  BY DEF Settings!Candidates
<1>3. named \subseteq all /\ marked \subseteq all
  OBVIOUS
<1> HIDE DEF all
<1>4. IsFiniteSet(1 .. Len(listed))
  BY <1>2, FS_Interval
<1>5. pick \subseteq all
  BY <1>3
<1>6. all # {} => pick # {}
  OBVIOUS
<1>7. (named # {} => pick = named) /\ (named = {} /\ marked # {} => pick = marked) /\ (named = {} /\ marked = {} => pick = all)
  OBVIOUS
<1> HIDE DEF pick
<1>8. pick \subseteq 1 .. Len(listed) /\ pick \subseteq Nat
  BY <1>2, <1>5
<1>9. IsFiniteSet(pick)
  BY <1>4, <1>8, FS_Subset
<1>10. all # {} => Settings!Max(pick) \in pick
  BY <1>6, <1>8, <1>9, SetMax
<1>11. CASE all = {}
  BY <1>1, <1>11 DEF all
<1>12. CASE all # {}
  <2>1. PICK t : t = Settings!Target(listed, s) /\ t \in pick /\ t \in all
    BY <1>1, <1>5, <1>10, <1>12
  <2>2. \/ listed[t].by = s
        \/ /\ \A i \in all : listed[i].by # s
           /\ \/ listed[t].data[s] # "absent"
              \/ \A i \in all : listed[i].data[s] = "absent"
    BY <1>7, <2>1
  <2>3. all = Settings!Candidates(listed, s)
    BY DEF all
  <2> QED BY <2>1, <2>2, <2>3
<1> QED BY <1>11, <1>12

(* What is a candidate, section by section. *)
LEMMA SysCandidate ==
  ASSUME Settings!ConstantsOK, NEW listed \in Seq(SysItems), NEW s \in Used, NEW i \in DOMAIN listed
  PROVE  i \in Settings!Candidates(listed, s) <=> SysHome(s, listed[i].by) /\ (s \in Settings!Identity => listed[i].data[s] # "absent")
<1>1. s \in {"security", "retention", "oidc", "ldap", "wecom"}
  BY SysSections DEF Settings!ConstantsOK
<1>2. CASE s = "security"
  BY <1>2 DEF Settings!Candidates, SysHome, Settings!Identity
<1>3. CASE s = "retention"
  BY <1>3 DEF Settings!Candidates, SysHome, Settings!Identity
<1>4. CASE s \in Settings!Identity
  BY <1>4 DEF Settings!Candidates, SysHome, Settings!Identity
<1> QED BY <1>1, <1>2, <1>3, <1>4 DEF Settings!Identity

LEMMA SysItemOf ==
  ASSUME Settings!ConstantsOK, NEW listed, SysOlder(listed), store \in Seq(SysItems), NEW s \in Used
  PROVE  SysHeld(s, Settings!ItemOf(listed, s)) /\ (s # "security" => Settings!SettingsFrom(listed, s, FALSE) \in Settings!Values)
<1>1. listed \in Seq(SysItems) /\ DOMAIN listed = 1 .. Len(listed) /\ Len(listed) \in Nat /\ Len(store) \in Nat /\ Len(listed) <= Len(store)
  BY DEF SysOlder, SysProper
<1>2. Settings!Candidates(listed, s) \subseteq DOMAIN listed
  BY DEF Settings!Candidates
<1>3. PICK t : t = Settings!Target(listed, s)
  OBVIOUS
<1>4. CASE t = 0
  <2>1. Settings!ItemOf(listed, s) = Settings!NoItem
    BY <1>3, <1>4 DEF Settings!ItemOf
  <2>2. Settings!NoItem \in [id : Nat, data : SysData] /\ Settings!NoItem.id = 0
    BY DEF Settings!NoItem, Settings!Blank, SysData
  <2>3. Settings!SettingsFrom(listed, s, FALSE) \in Settings!Values \/ s = "security"
    BY <1>3, <1>4 DEF Settings!SettingsFrom, Settings!Defaults, Settings!Values
  <2>4. Settings!NoItem.id <= Len(store)
    BY <1>1, <2>2
  <2>5. SysHeld(s, Settings!NoItem)
    BY <2>2, <2>4 DEF SysHeld
  <2> QED BY <2>1, <2>3, <2>5
<1>5. CASE t # 0
  <2>1. t \in Settings!Candidates(listed, s) /\ t \in DOMAIN listed
    BY <1>1, <1>2, <1>3, <1>5, SysTarget
  <2>2. SysHome(s, listed[t].by) /\ (s \in Settings!Identity => listed[t].data[s] # "absent")
    BY <1>1, <2>1, SysCandidate
  <2>3. listed[t] \in SysItems
    BY <1>1, <2>1
  <2>4. listed[t].by \in Used /\ listed[t].data \in SysData /\ listed[t].data[s] \in Settings!Values \cup {"absent"}
    BY <2>3 DEF SysItems, SysData
  <2>5. listed[t].by = "retention" <=> s = "retention"
    BY <2>2, SysSections DEF SysHome, Settings!Identity, Settings!ConstantsOK
  <2>6. PICK x : x = Settings!ItemOf(listed, s) /\ x.id = t /\ x.data = listed[t].data /\ x \in [id : Nat, data : SysData]
    <3>1. Settings!ItemOf(listed, s) = [id |-> t, data |-> listed[t].data]
      BY <1>3, <1>5 DEF Settings!ItemOf
    <3>2. t \in Nat
      BY <1>1, <2>1
    <3> QED BY <2>4, <3>1, <3>2
  <2>7. SysHeld(s, Settings!ItemOf(listed, s))
    BY <1>1, <2>1, <2>5, <2>6 DEF SysHeld, SysOlder
  <2>8. s # "security" => listed[t].data[s] # "absent"
    <3>1. s = "retention" => listed[t].data[s] # "absent"
      BY <2>1, <2>5 DEF SysOlder, SysProper
    <3> QED BY <2>2, <3>1, SysSections DEF Settings!Identity, Settings!ConstantsOK
  <2>9. s # "security" => Settings!SettingsFrom(listed, s, FALSE) = listed[t].data[s]
    BY <1>3, <1>5 DEF Settings!SettingsFrom
  <2> QED BY <2>4, <2>7, <2>8, <2>9
<1> QED BY <1>4, <1>5

(* Where a section has its values, it finds them. *)
LEMMA SysFound ==
  ASSUME Settings!ConstantsOK, SysTypes, SysStoreOK, NEW s \in Used, NEW i \in DOMAIN store, store[i].data[s] # "absent"
  PROVE  Settings!Target(store, s) = i
<1>1. store \in Seq(SysItems) /\ i \in Settings!Candidates(store, s)
  BY SysCandidate DEF SysTypes, SysProper, SysStoreOK
<1>2. Settings!Candidates(store, s) \subseteq DOMAIN store
  BY DEF Settings!Candidates
<1>3. PICK t \in DOMAIN store : t = Settings!Target(store, s)
  BY <1>1, <1>2, SysTarget
<1>4. store[t].by = s \/ store[t].data[s] # "absent"
  BY <1>1, <1>3, SysTarget
<1>5. store[t].data[s] # "absent"
  BY <1>4 DEF SysStoreOK
<1> QED BY <1>3, <1>5 DEF SysStoreOK

(* Where it finds no item, it has none. *)
LEMMA SysNone ==
  ASSUME Settings!ConstantsOK, SysTypes, SysStoreOK, NEW s \in Used, Settings!Target(store, s) = 0
  PROVE  \A i \in DOMAIN store : store[i].data[s] = "absent"
<1>1. \A i \in DOMAIN store : i # 0
  BY DEF SysTypes, SysProper
<1> QED BY <1>1, SysFound

LEMMA SysInit == ASSUME Settings!ConstantsOK, Settings!Init PROVE SysInv
<1>1. store = <<>> \/ \E x \in [by : Used \cap Settings!Identity, data : [Used -> {"on", "absent"}]] :
                        /\ store = <<x>> /\ (\A q \in Used \ Settings!Identity : x.data[q] = "absent")
  BY DEF Settings!Init, Settings!FirstItems
<1>2. /\ store \in Seq(SysItems) /\ Len(store) \in {0, 1} /\ DOMAIN store = 1 .. Len(store)
      /\ \A i \in DOMAIN store : /\ i = 1 /\ Len(store) = 1 /\ store[i].by \in Settings!Identity
                                 /\ \A q \in Used : store[i].data[q] # "absent" => q \in Settings!Identity
  <2>1. CASE store = <<>>
    BY <2>1
  <2>2. ASSUME NEW x \in [by : Used \cap Settings!Identity, data : [Used -> {"on", "absent"}]], store = <<x>>,
               \A q \in Used \ Settings!Identity : x.data[q] = "absent"
        PROVE  /\ store \in Seq(SysItems) /\ Len(store) \in {0, 1} /\ DOMAIN store = 1 .. Len(store)
               /\ \A i \in DOMAIN store : /\ i = 1 /\ Len(store) = 1 /\ store[i].by \in Settings!Identity
                                          /\ \A q \in Used : store[i].data[q] # "absent" => q \in Settings!Identity
    <3>1. x \in SysItems
      BY DEF SysItems, SysData, Settings!Values
    <3>2. x.by \in Settings!Identity
      OBVIOUS
    <3> QED BY <2>2, <3>1, <3>2
  <2> QED BY <1>1, <2>1, <2>2
<1>3. \A i \in DOMAIN store : store[i].data[store[i].by] # "absent"
  BY DEF Settings!Init
<1>4. SysProper(store)
  BY <1>2 DEF SysProper, Settings!Identity
<1>5. PICK m : m = [s |-> "mount", phase |-> "load", val |-> "off", target |-> Settings!NoItem, fallback |-> FALSE, items |-> <<>>]
  OBVIOUS
<1>6. reqs = {m}
  BY <1>5 DEF Settings!Init
<1>7. Settings!NoItem \in [id : Nat, data : SysData] /\ Settings!NoItem.id = 0
  BY DEF Settings!NoItem, Settings!Blank, SysData
<1>8. m \in SysRequests /\ m.s = "mount" /\ m.phase = "load" /\ m.items = <<>>
  <2>1. "off" \in Settings!Values /\ FALSE \in BOOLEAN /\ <<>> \in Seq(SysItems)
    BY DEF Settings!Values
  <2> QED BY <1>5, <1>7, <2>1 DEF SysRequests
<1>9. SysShape(m)
  <2>1. SysOlder(<<>>)
    BY <1>2 DEF SysOlder, SysProper
  <2> QED BY <1>8, <2>1, SysUsed DEF SysShape
<1>10. last \in SysData
  <2>1. CASE store = <<>>
    BY <2>1 DEF Settings!Init, SysData
  <2>2. CASE store # <<>>
    <3>1. 1 \in DOMAIN store /\ store[1].data \in SysData
      BY <1>1, <1>2, <2>2 DEF SysItems
    <3> QED BY <2>2, <3>1 DEF Settings!Init, SysData
  <2> QED BY <2>1, <2>2
<1>11. SysTypes
  <2>1. \A s \in Used : SysHeld(s, Settings!NoItem)
    BY <1>2, <1>7 DEF SysHeld
  <2>2. setting \in [Used -> [id : Nat, data : SysData]] /\ \A s \in Used : SysHeld(s, setting[s])
    BY <1>7, <2>1 DEF Settings!Init
  <2>3. form \in [Used -> Settings!Values \cup {"bad"}] /\ ("security" \in Used => form["security"] \in Settings!Values)
    BY DEF Settings!Init, Settings!Defaults, Settings!Values
  <2>4. saves \in 0 .. MaxSaves
    <3>1. saves = 0
      BY DEF Settings!Init
    <3> QED BY <3>1, SysUsed
  <2>5. \A r \in reqs : SysShape(r)
    BY <1>6, <1>9
  <2>6. busy \subseteq Used /\ edited \subseteq Used
    BY DEF Settings!Init
  <2> QED BY <1>4, <1>10, <2>2, <2>3, <2>4, <2>5, <2>6 DEF SysTypes
<1>12. SysFlags
  BY DEF Settings!Init, SysFlags
<1>13. SysCount
  <2>1. IsFiniteSet({m})
    BY FS_Singleton
  <2>2. SysToWrite = {}
    BY <1>6, <1>8 DEF SysToWrite
  <2>3. Cardinality(SysToWrite) = 0 /\ saves = 0
    BY <2>2, FS_EmptySet DEF Settings!Init
  <2> QED BY <1>2, <1>6, <2>1, <2>3 DEF SysCount
<1>14. SysBusy
  BY <1>6, <1>8, SysUsed DEF SysBusy, Settings!Init
<1>15. SysStoreOK
  <2>1. \A s \in Used : \A i \in DOMAIN store : last[s] = store[i].data[s]
    BY <1>2 DEF Settings!Init
  <2>2. \A s \in Used : \A i \in DOMAIN store : store[i].data[s] # "absent" => SysHome(s, store[i].by)
    BY <1>2 DEF SysHome, Settings!Identity
  <2>3. \A s \in Used : last[s] # "absent" => \E i \in DOMAIN store : store[i].data[s] # "absent"
    <3>1. CASE store = <<>>
      BY <3>1 DEF Settings!Init
    <3>2. CASE store # <<>>
      BY <1>2, <2>1, <3>2
    <3> QED BY <3>1, <3>2
  <2> QED BY <1>2, <1>3, <2>1, <2>2, <2>3 DEF SysStoreOK
<1>16. SysAlone
  BY <1>6, <1>8 DEF SysAlone
<1> QED BY <1>11, <1>12, <1>13, <1>14, <1>15, <1>16 DEF SysInv

(***************************************************************************)
(* Steps                                                                   *)
(***************************************************************************)

(* A request goes on, and the items stay. *)
LEMMA SysMove ==
  ASSUME SysInv, NEW r \in reqs, NEW m, reqs' = (reqs \ {r}) \cup {m}, m.s = r.s, UNCHANGED <<store, saves, busy>>,
         m.phase \in {"get", "put"} => r.phase \in {"get", "put"}
  PROVE  SysCount' /\ SysBusy'
<1>1. SysBusy'
  BY DEF SysInv, SysBusy
<1>2. IsFiniteSet(reqs) /\ SysToWrite \subseteq reqs /\ Len(store) + Cardinality(SysToWrite) <= saves + 1
  BY DEF SysInv, SysCount, SysToWrite
<1>3. IsFiniteSet(reqs')
  BY <1>2, FS_RemoveElement, FS_AddElement
<1>4. IsFiniteSet(SysToWrite) /\ Cardinality(SysToWrite) \in Nat
  BY <1>2, FS_Subset, FS_CardinalityType
<1>5. Cardinality(SysToWrite') \in Nat /\ Cardinality(SysToWrite') <= Cardinality(SysToWrite)
  <2>1. CASE m.phase \in {"get", "put"}
    <3>1. r \in SysToWrite
      BY <2>1 DEF SysToWrite
    <3>2. PICK P : P = SysToWrite \ {r}
      OBVIOUS
    <3>3. IsFiniteSet(P) /\ Cardinality(P) = Cardinality(SysToWrite) - 1
      BY <1>4, <3>1, <3>2, FS_RemoveElement
    <3>4. SysToWrite' = P \cup {m}
      BY <2>1, <3>2 DEF SysToWrite
    <3>5. Cardinality(P \cup {m}) = IF m \in P THEN Cardinality(P) ELSE Cardinality(P) + 1
      BY <3>3, FS_AddElement
    <3>6. IsFiniteSet(P \cup {m}) /\ Cardinality(P \cup {m}) \in Nat
      BY <3>3, FS_AddElement, FS_CardinalityType
    <3> QED BY <1>4, <3>3, <3>4, <3>5, <3>6
  <2>2. CASE m.phase \notin {"get", "put"}
    <3>1. SysToWrite' \subseteq SysToWrite
      BY <2>2 DEF SysToWrite
    <3> QED BY <1>4, <3>1, FS_Subset, FS_CardinalityType
  <2> QED BY <2>1, <2>2
<1>6. Len(store) \in Nat /\ saves \in Nat
  BY DEF SysInv, SysTypes, SysProper
<1> QED BY <1>1, <1>2, <1>3, <1>4, <1>5, <1>6 DEF SysCount

(* Types, while the items stay. *)
LEMMA SysTypesMove ==
  ASSUME SysInv, store' = store, saves' \in 0 .. MaxSaves,
         form' \in [Used -> Settings!Values \cup {"bad"}], "security" \in Used => form'["security"] \in Settings!Values,
         setting' \in [Used -> [id : Nat, data : SysData]], \A s \in Used : SysHeld(s, setting'[s]),
         busy' \subseteq Used, edited' \subseteq Used, last' = last, \A r \in reqs' : SysShape(r)
  PROVE  SysTypes'
<1>1. \A r \in reqs' : SysShape(r)'
  BY DEF SysShape, SysOlder, SysHeld
<1>2. \A s \in Used : SysHeld(s, setting[s])'
  BY DEF SysHeld
<1>3. SysProper(store)' /\ last' \in SysData
  BY DEF SysInv, SysTypes, SysProper
<1> QED BY <1>1, <1>2, <1>3 DEF SysTypes

LEMMA SysEdits == ASSUME Settings!ConstantsOK, SysInv, NEW s \in Used, NEW v \in Settings!Values \cup {"bad"}, s # "security", Settings!Edit(s, v) PROVE SysInv'
<1>1. /\ form' = [form EXCEPT ![s] = v] /\ edited' = edited \cup {s}
      /\ UNCHANGED <<store, required, setting, busy, reqs, saves, last, raced>>
  BY DEF Settings!Edit
<1>2. form' \in [Used -> Settings!Values \cup {"bad"}] /\ ("security" \in Used => form'["security"] \in Settings!Values) /\ edited' \subseteq Used
  BY <1>1 DEF SysInv, SysTypes
<1>3. SysTypes'
  BY <1>1, <1>2, SysTypesMove DEF SysInv, SysTypes
<1>4. SysFlags'
  BY <1>1 DEF SysInv, SysFlags
<1>5. SysCount' /\ SysBusy'
  BY <1>1 DEF SysInv, SysCount, SysToWrite, SysBusy
<1>6. ~raced' => SysStoreOK'
  BY <1>1 DEF SysInv, SysStoreOK
<1>7. ~raced' => SysAlone'
  <2>1. \A q \in Used : q # s => form'[q] = form[q]
    BY <1>1 DEF SysInv, SysTypes
  <2> QED BY <1>1, <2>1 DEF SysInv, SysAlone
<1> QED BY <1>3, <1>4, <1>5, <1>6, <1>7 DEF SysInv

LEMMA SysBegins == ASSUME Settings!ConstantsOK, SysInv, NEW s \in Used, NEW val \in Settings!Values, Settings!Begin(s, val) PROVE SysInv'
<1>1. /\ s \notin busy /\ saves < MaxSaves /\ busy' = busy \cup {s} /\ saves' = saves + 1 /\ raced' = (raced \/ reqs # {})
      /\ UNCHANGED <<store, required, form, setting, edited, last>>
  BY DEF Settings!Begin, Settings!page
<1>2. PICK m : /\ reqs' = reqs \cup {m}
               /\ m = IF Settings!Handler[s].fresh THEN Settings!Request(s, val, "get", Settings!NoItem) ELSE Settings!Request(s, val, "put", setting[s])
  BY DEF Settings!Begin
<1>3. Settings!Handler[s].fresh <=> s = "security"
  BY SysHandlers, SysUsed
<1>4. SysHeld(s, Settings!NoItem) /\ SysHeld(s, setting[s]) /\ Settings!NoItem \in [id : Nat, data : SysData] /\ setting[s] \in [id : Nat, data : SysData]
  <2>1. Settings!NoItem \in [id : Nat, data : SysData] /\ Settings!NoItem.id = 0
    BY DEF Settings!NoItem, Settings!Blank, SysData
  <2>2. Len(store) \in Nat
    BY DEF SysInv, SysTypes, SysProper
  <2>3. SysHeld(s, Settings!NoItem)
    BY <2>1, <2>2 DEF SysHeld
  <2> QED BY <2>1, <2>3 DEF SysInv, SysTypes
<1>5. /\ m.s = s /\ m.val = val /\ m.phase \in {"get", "put"} /\ SysHeld(s, m.target) /\ m.items = <<>> /\ m.fallback = required
      /\ (m.phase = "get" => s = "security") /\ (m.phase = "put" => m.target = setting[s])
      /\ m \in SysRequests
  <2>1. <<>> \in Seq(SysItems)
    OBVIOUS
  <2>2. required \in BOOLEAN
    BY DEF SysInv, SysFlags
  <2>3. ASSUME NEW phase \in {"get", "put"}, NEW t \in [id : Nat, data : SysData], m = Settings!Request(s, val, phase, t)
        PROVE  m.s = s /\ m.val = val /\ m.phase = phase /\ m.target = t /\ m.items = <<>> /\ m.fallback = required /\ m \in SysRequests
    BY <2>1, <2>2, <2>3 DEF Settings!Request, SysRequests
  <2>4. CASE Settings!Handler[s].fresh
    BY <1>2, <1>3, <1>4, <2>3, <2>4
  <2>5. CASE ~Settings!Handler[s].fresh
    BY <1>2, <1>3, <1>4, <2>3, <2>5
  <2> QED BY <2>4, <2>5
<1>6. SysShape(m)
  <2>1. SysOlder(<<>>)
    BY DEF SysOlder, SysProper, SysInv, SysTypes
  <2> QED BY <1>5, <2>1, SysUsed DEF SysShape
<1>7. saves' \in 0 .. MaxSaves /\ saves \in Nat
  BY <1>1, SysUsed DEF SysInv, SysTypes
<1>8. SysTypes'
  <2>1. busy' \subseteq Used
    BY <1>1 DEF SysInv, SysTypes
  <2>2. \A r \in reqs' : SysShape(r)
    BY <1>2, <1>6 DEF SysInv, SysTypes
  <2> QED BY <1>1, <1>7, <2>1, <2>2, SysTypesMove DEF SysInv, SysTypes
<1>9. SysFlags'
  BY <1>1 DEF SysInv, SysFlags
<1>10. SysCount'
  <2>1. IsFiniteSet(reqs) /\ SysToWrite \subseteq reqs /\ Len(store) + Cardinality(SysToWrite) <= saves + 1 /\ Len(store) \in Nat
    BY DEF SysInv, SysCount, SysToWrite, SysTypes, SysProper
  <2>2. IsFiniteSet(reqs')
    BY <1>2, <2>1, FS_AddElement
  <2>3. IsFiniteSet(SysToWrite) /\ Cardinality(SysToWrite) \in Nat
    BY <2>1, FS_Subset, FS_CardinalityType
  <2>4. SysToWrite' = SysToWrite \cup {m}
    BY <1>2, <1>5 DEF SysToWrite
  <2>5. PICK P : P = SysToWrite
    OBVIOUS
  <2>6. Cardinality(P \cup {m}) = IF m \in P THEN Cardinality(P) ELSE Cardinality(P) + 1
    BY <2>3, <2>5, FS_AddElement
  <2>7. Cardinality(SysToWrite') = Cardinality(SysToWrite) \/ Cardinality(SysToWrite') = Cardinality(SysToWrite) + 1
    BY <2>4, <2>5, <2>6
  <2> QED BY <1>1, <1>7, <2>1, <2>2, <2>3, <2>7 DEF SysCount
<1>11. SysBusy'
  <2>1. \A r \in reqs : r.s # s
    BY <1>1 DEF SysInv, SysBusy
  <2> QED BY <1>1, <1>2, <1>5, <2>1 DEF SysInv, SysBusy
<1>12. ~raced' => SysStoreOK' /\ SysAlone'
  <2> SUFFICES ASSUME ~raced' PROVE SysStoreOK' /\ SysAlone'
    OBVIOUS
  <2>1. ~raced /\ reqs = {}
    BY <1>1
  <2>2. SysStoreOK'
    BY <1>1, <2>1 DEF SysInv, SysStoreOK
  <2>3. setting[s] = Settings!ItemOf(store, s)
    BY <2>1 DEF SysInv, SysAlone
  <2>4. SysAlone'
    BY <1>1, <1>2, <1>5, <2>1, <2>3 DEF SysAlone
  <2> QED BY <2>2, <2>4
<1> QED BY <1>8, <1>9, <1>10, <1>11, <1>12 DEF SysInv

LEMMA SysFetches == ASSUME Settings!ConstantsOK, SysInv, NEW r \in reqs, Settings!Fetched(r) PROVE SysInv'
<1>1. r.phase = "get" /\ UNCHANGED <<store, required, form, setting, edited, busy, saves, last, raced>>
  BY DEF Settings!Fetched, Settings!page
<1>2. PICK m : m = [r EXCEPT !.phase = "put", !.target = Settings!ItemOf(store, "security")] /\ reqs' = (reqs \ {r}) \cup {m}
  BY DEF Settings!Fetched
<1>3. SysShape(r) /\ r \in SysRequests /\ r.s = "security" /\ r.s \in Used
  BY <1>1, SysUsed DEF SysInv, SysTypes, SysShape, SysRequests
<1>4. SysHeld(r.s, Settings!ItemOf(store, r.s)) /\ Settings!ItemOf(store, r.s) \in [id : Nat, data : SysData]
  <2>1. SysOlder(store) /\ store \in Seq(SysItems)
    BY DEF SysOlder, SysInv, SysTypes, SysProper
  <2>2. SysHeld(r.s, Settings!ItemOf(store, r.s))
    BY <1>3, <2>1, SysItemOf
  <2> QED BY <2>2 DEF SysHeld
<1>5. m.s = r.s /\ m.phase = "put" /\ m.target = Settings!ItemOf(store, r.s) /\ m.items = r.items /\ m \in SysRequests
  BY <1>2, <1>3, <1>4 DEF SysRequests
<1>6. SysShape(m)
  BY <1>3, <1>4, <1>5, SysUsed DEF SysShape
<1>7. SysTypes'
  <2>1. \A q \in reqs' : SysShape(q)
    BY <1>2, <1>6 DEF SysInv, SysTypes
  <2> QED BY <1>1, <2>1, SysTypesMove DEF SysInv, SysTypes
<1>8. SysCount' /\ SysBusy'
  BY <1>1, <1>2, <1>5, SysMove
<1>9. SysFlags'
  BY <1>1 DEF SysInv, SysFlags
<1>10. ~raced' => SysStoreOK' /\ SysAlone'
  <2> SUFFICES ASSUME ~raced' PROVE SysStoreOK' /\ SysAlone'
    OBVIOUS
  <2>1. SysStoreOK'
    BY <1>1 DEF SysInv, SysStoreOK
  <2>2. SysAlone'
    BY <1>1, <1>2, <1>5 DEF SysInv, SysAlone
  <2> QED BY <2>1, <2>2
<1> QED BY <1>7, <1>8, <1>9, <1>10 DEF SysInv

LEMMA SysAnswers == ASSUME Settings!ConstantsOK, SysInv, NEW r \in reqs, Settings!Saved(r) PROVE SysInv'
<1>1. /\ r.phase = "wrote" /\ setting' = (IF Settings!Handler[r.s].keeps THEN [setting EXCEPT ![r.s] = r.target] ELSE setting)
      /\ UNCHANGED <<store, required, form, edited, busy, saves, last, raced>>
  BY DEF Settings!Saved
<1>2. PICK m : m = [r EXCEPT !.phase = Settings!AfterWrite(r)] /\ reqs' = (reqs \ {r}) \cup {m}
  BY DEF Settings!Saved, Settings!To
<1>3. SysShape(r) /\ r \in SysRequests /\ r.s \in Used /\ SysHeld(r.s, r.target)
  <2>1. SysShape(r) /\ r \in SysRequests
    BY DEF SysInv, SysTypes, SysShape
  <2>2. r.s \in Used
    BY <1>1, <2>1 DEF SysShape, SysRequests
  <2> QED BY <2>1, <2>2 DEF SysShape
<1>4. Settings!AfterWrite(r) \in {"refresh", "load"}
  BY DEF Settings!AfterWrite
<1>5. m.s = r.s /\ m.phase \in {"refresh", "load"} /\ m.target = r.target /\ m.items = r.items /\ m \in SysRequests
  BY <1>2, <1>3, <1>4 DEF SysRequests
<1>6. SysShape(m)
  BY <1>3, <1>5, SysUsed DEF SysShape
<1>7. SysTypes'
  <2>1. \A q \in reqs' : SysShape(q)
    BY <1>2, <1>6 DEF SysInv, SysTypes
  <2>2. setting' \in [Used -> [id : Nat, data : SysData]] /\ \A s \in Used : SysHeld(s, setting'[s])
    <3>1. r.target \in [id : Nat, data : SysData]
      BY <1>3 DEF SysHeld
    <3>2. setting \in [Used -> [id : Nat, data : SysData]] /\ \A s \in Used : SysHeld(s, setting[s])
      BY DEF SysInv, SysTypes
    <3> QED BY <1>1, <1>3, <3>1, <3>2
  <2> QED BY <1>1, <2>1, <2>2, SysTypesMove DEF SysInv, SysTypes
<1>8. SysCount' /\ SysBusy'
  BY <1>1, <1>2, <1>5, SysMove
<1>9. SysFlags'
  BY <1>1 DEF SysInv, SysFlags
<1>10. ~raced' => SysStoreOK' /\ SysAlone'
  <2> SUFFICES ASSUME ~raced' PROVE SysStoreOK' /\ SysAlone'
    OBVIOUS
  <2>1. SysStoreOK'
    BY <1>1 DEF SysInv, SysStoreOK
  <2>2. SysAlone'
    BY <1>1, <1>2, <1>5 DEF SysInv, SysAlone
  <2> QED BY <2>1, <2>2
<1> QED BY <1>7, <1>8, <1>9, <1>10 DEF SysInv

LEMMA SysRefreshes == ASSUME Settings!ConstantsOK, SysInv, NEW r \in reqs, Settings!Refreshed(r) PROVE SysInv'
<1>1. /\ r.phase = "refresh" /\ required' = Settings!CaptchaRequired(store)
      /\ form' = (IF required' # required THEN [form EXCEPT !["security"] = IF required' THEN "on" ELSE "off"] ELSE form)
      /\ UNCHANGED <<store, setting, edited, busy, saves, last, raced>>
  BY DEF Settings!Refreshed
<1>2. PICK m : m = [r EXCEPT !.phase = "load"] /\ reqs' = (reqs \ {r}) \cup {m}
  BY DEF Settings!Refreshed, Settings!To
<1>3. SysShape(r) /\ r \in SysRequests
  BY DEF SysInv, SysTypes, SysShape
<1>4. form' \in [Used -> Settings!Values \cup {"bad"}] /\ ("security" \in Used => form'["security"] \in Settings!Values)
  <2>1. PICK v \in {"on", "off"} : v = IF required' THEN "on" ELSE "off"
    OBVIOUS
  <2>2. form' = form \/ form' = [form EXCEPT !["security"] = v]
    BY <1>1, <2>1
  <2>3. v \in Settings!Values
    BY DEF Settings!Values
  <2>4. form \in [Used -> Settings!Values \cup {"bad"}] /\ ("security" \in Used => form["security"] \in Settings!Values)
    BY DEF SysInv, SysTypes
  <2> QED BY <2>2, <2>3, <2>4
<1>5. m.s = r.s /\ m.phase = "load" /\ m.target = r.target /\ m.items = r.items /\ m \in SysRequests
  BY <1>2, <1>3 DEF SysRequests
<1>6. SysShape(m)
  BY <1>1, <1>3, <1>5, SysUsed DEF SysShape
<1>7. SysTypes'
  <2>1. \A q \in reqs' : SysShape(q)
    BY <1>2, <1>6 DEF SysInv, SysTypes
  <2> QED BY <1>1, <1>4, <2>1, SysTypesMove DEF SysInv, SysTypes
<1>8. SysCount' /\ SysBusy'
  BY <1>1, <1>2, <1>5, SysMove
<1>9. SysFlags'
  BY <1>1 DEF SysInv, SysFlags, Settings!CaptchaRequired
<1>10. ~raced' => SysStoreOK' /\ SysAlone'
  <2> SUFFICES ASSUME ~raced' PROVE SysStoreOK' /\ SysAlone'
    OBVIOUS
  <2>1. SysStoreOK'
    BY <1>1 DEF SysInv, SysStoreOK
  <2>2. SysAlone'
    BY <1>1, <1>2, <1>5 DEF SysInv, SysAlone
  <2> QED BY <2>1, <2>2
<1> QED BY <1>7, <1>8, <1>9, <1>10 DEF SysInv

LEMMA SysServes == ASSUME Settings!ConstantsOK, SysInv, NEW r \in reqs, Settings!Serve(r) PROVE SysInv'
<1>1. r.phase = "load" /\ UNCHANGED <<store, required, form, setting, edited, busy, saves, last, raced>>
  BY DEF Settings!Serve, Settings!page
<1>2. PICK m : m = [r EXCEPT !.phase = "served", !.items = store] /\ reqs' = (reqs \ {r}) \cup {m}
  BY DEF Settings!Serve
<1>3. SysShape(r) /\ r \in SysRequests
  BY DEF SysInv, SysTypes, SysShape
<1>4. SysOlder(store) /\ store \in Seq(SysItems)
  BY DEF SysOlder, SysInv, SysTypes, SysProper
<1>5. m.s = r.s /\ m.phase = "served" /\ m.target = r.target /\ m.items = store /\ m \in SysRequests
  BY <1>2, <1>3, <1>4 DEF SysRequests
<1>6. SysShape(m)
  BY <1>1, <1>3, <1>4, <1>5, SysUsed DEF SysShape
<1>7. SysTypes'
  <2>1. \A q \in reqs' : SysShape(q)
    BY <1>2, <1>6 DEF SysInv, SysTypes
  <2> QED BY <1>1, <2>1, SysTypesMove DEF SysInv, SysTypes
<1>8. SysCount' /\ SysBusy'
  BY <1>1, <1>2, <1>5, SysMove
<1>9. SysFlags'
  BY <1>1 DEF SysInv, SysFlags
<1>10. ~raced' => SysStoreOK' /\ SysAlone'
  <2> SUFFICES ASSUME ~raced' PROVE SysStoreOK' /\ SysAlone'
    OBVIOUS
  <2>1. SysStoreOK'
    BY <1>1 DEF SysInv, SysStoreOK
  <2>2. SysAlone'
    BY <1>1, <1>2, <1>5 DEF SysInv, SysAlone
  <2> QED BY <2>1, <2>2
<1> QED BY <1>7, <1>8, <1>9, <1>10 DEF SysInv

(* A request is over. *)
LEMMA SysEnds ==
  ASSUME Settings!ConstantsOK, SysInv, NEW r \in reqs, reqs' = reqs \ {r}, busy' = busy \ {r.s}, UNCHANGED <<store, saves>>
  PROVE  SysCount' /\ SysBusy' /\ busy' \subseteq Used /\ \A q \in reqs' : SysShape(q)
<1>1. SysBusy'
  BY DEF SysInv, SysBusy
<1>2. IsFiniteSet(reqs) /\ SysToWrite \subseteq reqs /\ Len(store) + Cardinality(SysToWrite) <= saves + 1
  BY DEF SysInv, SysCount, SysToWrite
<1>3. IsFiniteSet(reqs')
  BY <1>2, FS_RemoveElement
<1>4. IsFiniteSet(SysToWrite) /\ Cardinality(SysToWrite) \in Nat
  BY <1>2, FS_Subset, FS_CardinalityType
<1>5. SysToWrite' \subseteq SysToWrite
  BY DEF SysToWrite
<1>6. Cardinality(SysToWrite') \in Nat /\ Cardinality(SysToWrite') <= Cardinality(SysToWrite)
  BY <1>4, <1>5, FS_Subset, FS_CardinalityType
<1>7. Len(store) \in Nat /\ saves \in Nat
  BY DEF SysInv, SysTypes, SysProper
<1>8. SysCount'
  BY <1>2, <1>3, <1>4, <1>6, <1>7 DEF SysCount
<1> QED BY <1>1, <1>8 DEF SysInv, SysTypes

LEMMA SysLoads == ASSUME Settings!ConstantsOK, SysInv, NEW r \in reqs, Settings!Loaded(r) PROVE SysInv'
<1>1. /\ r.phase = "served" /\ form' = Settings!LoadedForm(r) /\ setting' = Settings!LoadedSetting(r) /\ edited' = {}
      /\ reqs' = reqs \ {r} /\ busy' = busy \ {r.s} /\ UNCHANGED <<store, required, saves, last, raced>>
  BY DEF Settings!Loaded
<1>2. SysOlder(r.items) /\ store \in Seq(SysItems) /\ r.fallback \in BOOLEAN
  BY DEF SysInv, SysTypes, SysShape, SysRequests, SysProper
<1>3. SysCount' /\ SysBusy' /\ busy' \subseteq Used /\ \A q \in reqs' : SysShape(q)
  BY <1>1, SysEnds
<1>4. ASSUME NEW s \in Used
      PROVE  /\ SysHeld(s, setting'[s]) /\ setting'[s] = Settings!ItemOf(r.items, s) /\ form'[s] = Settings!SettingsFrom(r.items, s, r.fallback)
             /\ setting'[s] \in [id : Nat, data : SysData] /\ form'[s] \in Settings!Values
             /\ (s # "security" => form'[s] = Settings!SettingsFrom(r.items, s, FALSE))
  <2>1. setting'[s] = Settings!ItemOf(r.items, s) /\ form'[s] = Settings!SettingsFrom(r.items, s, r.fallback)
    BY <1>1 DEF Settings!LoadedForm, Settings!LoadedSetting
  <2>2. SysHeld(s, Settings!ItemOf(r.items, s)) /\ (s # "security" => Settings!SettingsFrom(r.items, s, FALSE) \in Settings!Values)
    BY <1>2, SysItemOf
  <2>3. s # "security" => Settings!SettingsFrom(r.items, s, r.fallback) = Settings!SettingsFrom(r.items, s, FALSE)
    BY DEF Settings!SettingsFrom
  <2>4. s = "security" => Settings!SettingsFrom(r.items, s, r.fallback) \in Settings!Values
    BY DEF Settings!SettingsFrom, Settings!SecurityFrom, Settings!Values
  <2> QED BY <2>1, <2>2, <2>3, <2>4 DEF SysHeld
<1>5. SysTypes'
  <2>1. form' \in [Used -> Settings!Values \cup {"bad"}] /\ setting' \in [Used -> [id : Nat, data : SysData]]
    BY <1>1, <1>4 DEF Settings!LoadedForm, Settings!LoadedSetting
  <2>2. saves' \in 0 .. MaxSaves
    BY <1>1 DEF SysInv, SysTypes
  <2>3. edited' \subseteq Used
    BY <1>1
  <2> QED BY <1>1, <1>3, <1>4, <2>1, <2>2, <2>3, SysTypesMove
<1>6. SysFlags'
  BY <1>1 DEF SysInv, SysFlags
<1>7. ~raced' => SysStoreOK' /\ SysAlone'
  <2> SUFFICES ASSUME ~raced' PROVE SysStoreOK' /\ SysAlone'
    OBVIOUS
  <2>1. SysStoreOK' /\ SysAlone
    BY <1>1 DEF SysInv, SysStoreOK
  <2>2. r.items = store
    BY <1>1, <2>1 DEF SysAlone
  <2>3. \A q, p \in reqs' : q = p
    BY <1>1, <2>1 DEF SysAlone
  <2>4. reqs' = {}
    BY <1>1, <2>1 DEF SysAlone
  <2>5. \A s \in Used : setting'[s] = Settings!ItemOf(store, s) /\ (s # "security" => form'[s] = Settings!SettingsFrom(store, s, FALSE))
    BY <1>4, <2>2
  <2>6. \A s \in Used : Settings!ItemOf(store, s)' = Settings!ItemOf(store, s) /\ Settings!SettingsFrom(store, s, FALSE)' = Settings!SettingsFrom(store, s, FALSE)
    BY <1>1
  <2>7. SysAlone'
    BY <1>1, <2>4, <2>5, <2>6 DEF SysAlone
  <2> QED BY <2>1, <2>7
<1> QED BY <1>3, <1>5, <1>6, <1>7 DEF SysInv

LEMMA SysFails == ASSUME Settings!ConstantsOK, SysInv, NEW r \in reqs, Settings!Fail(r) PROVE SysInv'
<1>1. /\ reqs' = reqs \ {r} /\ busy' = busy \ {r.s} /\ raced' = TRUE
      /\ UNCHANGED <<store, required, form, setting, edited, saves, last>>
  BY DEF Settings!Fail, Settings!page
<1>2. SysCount' /\ SysBusy' /\ busy' \subseteq Used /\ \A q \in reqs' : SysShape(q)
  BY <1>1, SysEnds
<1>3. SysTypes'
  BY <1>1, <1>2, SysTypesMove DEF SysInv, SysTypes
<1>4. SysFlags'
  BY <1>1 DEF SysInv, SysFlags
<1> QED BY <1>1, <1>2, <1>3, <1>4 DEF SysInv

LEMMA SysWrites == ASSUME Settings!ConstantsOK, SysInv, NEW r \in reqs, Settings!Write(r) PROVE SysInv'
<1> DEFINE d == Settings!Metadata(r)
           k == IF r.target.id = 0 THEN Len(store) + 1 ELSE r.target.id
<1>1. /\ r.phase = "put" /\ last' = [last EXCEPT ![r.s] = r.val]
      /\ store' = (IF r.target.id = 0 THEN Append(store, [by |-> r.s, data |-> d]) ELSE [store EXCEPT ![r.target.id].data = d])
      /\ UNCHANGED <<required, form, setting, edited, busy, saves, raced>>
  BY DEF Settings!Write, Settings!page
<1>2. PICK m : m = [r EXCEPT !.phase = "wrote", !.target = [id |-> k, data |-> d]] /\ reqs' = (reqs \ {r}) \cup {m}
  BY DEF Settings!Write, Settings!SavedItem
<1>3. /\ SysShape(r) /\ r \in SysRequests /\ r.s \in Used /\ r.val \in Settings!Values /\ SysHeld(r.s, r.target)
      /\ store \in Seq(SysItems) /\ Len(store) \in Nat /\ DOMAIN store = 1 .. Len(store) /\ last \in SysData
  <2>1. SysShape(r) /\ r \in SysRequests
    BY DEF SysInv, SysTypes, SysShape
  <2>2. r.s \in Used /\ r.val \in Settings!Values
    BY <1>1, <2>1 DEF SysShape, SysRequests
  <2>3. store \in Seq(SysItems) /\ last \in SysData
    BY DEF SysInv, SysTypes, SysProper
  <2> QED BY <2>1, <2>2, <2>3 DEF SysShape
<1>4. d \in SysData /\ d[r.s] = r.val /\ \A q \in Used : q # r.s => d[q] = r.target.data[q]
  <2>1. r.target.data \in SysData
    BY <1>3 DEF SysHeld
  <2> QED BY <1>3, <2>1 DEF Settings!Metadata, SysData
<1>5. r.val # "absent"
  BY <1>3 DEF Settings!Values
<1>6. r.target.id # 0 => r.target.id \in DOMAIN store /\ (store[r.target.id].by = "retention" <=> r.s = "retention")
  BY <1>3 DEF SysHeld
<1> HIDE DEF d
<1>7. /\ store' \in Seq(SysItems) /\ k \in Nat /\ k # 0 /\ DOMAIN store' = 1 .. Len(store')
      /\ store'[k].data = d /\ store'[k].by = (IF r.target.id = 0 THEN r.s ELSE store[k].by)
      /\ \A i \in DOMAIN store : i # k => store'[i] = store[i]
      /\ Len(store') = (IF r.target.id = 0 THEN Len(store) + 1 ELSE Len(store))
  <2>1. CASE r.target.id = 0
    <3>1. PICK x : x = [by |-> r.s, data |-> d] /\ x.by = r.s /\ x.data = d /\ x \in SysItems
      <4>1. d \in SysData /\ r.s \in Used
        BY <1>3, <1>4
      <4>2. [by |-> r.s, data |-> d] \in SysItems
        BY <4>1 DEF SysItems
      <4> QED BY <4>2
    <3>2. store' = Append(store, x) /\ k = Len(store) + 1
      BY <1>1, <2>1, <3>1
    <3>3. /\ store' \in Seq(SysItems) /\ Len(store') = Len(store) + 1 /\ store'[Len(store) + 1] = x
          /\ \A i \in 1 .. Len(store) : store'[i] = store[i]
      BY <1>3, <3>1, <3>2, AppendProperties
    <3> QED BY <1>3, <2>1, <3>1, <3>2, <3>3
  <2>2. CASE r.target.id # 0
    <3>1. k = r.target.id /\ k \in DOMAIN store
      BY <1>6, <2>2
    <3>2. store[k] \in SysItems
      BY <1>3, <3>1
    <3>3. PICK x : x = [store[k] EXCEPT !.data = d] /\ x.by = store[k].by /\ x.data = d /\ x \in SysItems
      <4>1. PICK y : y = store[k]
        OBVIOUS
      <4>2. y \in SysItems /\ d \in SysData
        BY <1>4, <3>2, <4>1
      <4>3. [y EXCEPT !.data = d] \in SysItems /\ [y EXCEPT !.data = d].by = y.by /\ [y EXCEPT !.data = d].data = d
        BY <4>2 DEF SysItems
      <4> QED BY <4>1, <4>3
    <3>4. store' = [store EXCEPT ![k] = x]
      BY <1>1, <2>2, <3>1, <3>3
    <3>5. /\ store' \in Seq(SysItems) /\ Len(store') = Len(store)
          /\ \A i \in 1 .. Len(store) : store'[i] = IF i = k THEN x ELSE store[i]
      BY <1>3, <3>1, <3>3, <3>4, ExceptSeq
    <3>6. k \in Nat /\ k # 0 /\ k \in 1 .. Len(store) /\ DOMAIN store' = 1 .. Len(store')
      BY <1>3, <3>1, <3>5
    <3>7. store'[k] = x
      BY <3>5, <3>6
    <3> QED BY <1>3, <2>2, <3>3, <3>5, <3>6, <3>7
  <2> QED BY <2>1, <2>2
<1>8. /\ k \in DOMAIN store' /\ \A i \in DOMAIN store' : i = k \/ i \in DOMAIN store
      /\ DOMAIN store \subseteq DOMAIN store' /\ Len(store) <= Len(store') /\ k <= Len(store')
      /\ \A i \in DOMAIN store : store'[i].by = store[i].by
      /\ store'[k].by = "retention" <=> r.s = "retention"
      /\ r.target.id = 0 => k \notin DOMAIN store
  <2>1. CASE r.target.id = 0
    <3>1. k = Len(store) + 1 /\ Len(store') = Len(store) + 1 /\ store'[k].by = r.s
      BY <1>7, <2>1
    <3>2. k \notin DOMAIN store
      BY <1>3, <3>1
    <3>3. \A i \in DOMAIN store : store'[i] = store[i]
      BY <1>7, <3>2
    <3>4. \A i \in 1 .. Len(store) + 1 : i = Len(store) + 1 \/ i \in 1 .. Len(store)
      BY <1>3
    <3> QED BY <1>3, <1>7, <3>1, <3>2, <3>3, <3>4
  <2>2. CASE r.target.id # 0
    <3>1. k = r.target.id /\ k \in DOMAIN store /\ Len(store') = Len(store) /\ store'[k].by = store[k].by
      BY <1>6, <1>7, <2>2
    <3> QED BY <1>3, <1>6, <1>7, <2>2, <3>1
  <2> QED BY <2>1, <2>2
<1> HIDE DEF k
<1>9. m.s = r.s /\ m.phase = "wrote" /\ m.target = [id |-> k, data |-> d] /\ m.items = r.items /\ m \in SysRequests
  <2>1. [id |-> k, data |-> d] \in [id : Nat, data : SysData]
    BY <1>4, <1>7
  <2> QED BY <1>2, <1>3, <2>1 DEF SysRequests
<1>10. m.target.id = k /\ m.target \in [id : Nat, data : SysData]
  BY <1>4, <1>7, <1>9
<1>11. ASSUME NEW q \in Used, NEW t, SysHeld(q, t) PROVE SysHeld(q, t)'
  <2>1. t.id \in Nat /\ t.id <= Len(store) /\ t.id <= Len(store')
    <3>1. t.id \in Nat /\ t.id <= Len(store)
      BY <1>11 DEF SysHeld
    <3> QED BY <1>3, <1>7, <1>8, <3>1
  <2>2. t.id # 0 => t.id \in DOMAIN store
    BY <1>3, <2>1
  <2> QED BY <1>8, <1>11, <2>1, <2>2 DEF SysHeld
<1>12. ASSUME NEW listed, SysOlder(listed) PROVE SysOlder(listed)'
  <2>1. Len(listed) \in Nat /\ Len(listed) <= Len(store) /\ DOMAIN listed = 1 .. Len(listed)
    BY <1>12 DEF SysOlder, SysProper
  <2>2. DOMAIN listed \subseteq DOMAIN store /\ Len(listed) <= Len(store')
    BY <1>3, <1>7, <1>8, <2>1
  <2> QED BY <1>8, <1>12, <2>2 DEF SysOlder, SysProper
<1>13. SysTypes'
  <2>1. SysProper(store)'
    <3> SUFFICES ASSUME NEW i \in DOMAIN store', store'[i].by = "retention" PROVE store'[i].data["retention"] # "absent"
      BY <1>7 DEF SysProper
    <3>1. CASE i = k
      BY <1>4, <1>5, <1>7, <1>8, <3>1
    <3>2. CASE i # k
      <4>1. i \in DOMAIN store /\ store'[i] = store[i]
        BY <1>7, <1>8, <3>2
      <4> QED BY <4>1 DEF SysInv, SysTypes, SysProper
    <3> QED BY <3>1, <3>2
  <2>2. SysShape(m)'
    <3>1. SysHeld(r.s, m.target)'
      <4>1. m.target.id <= Len(store')
        BY <1>8, <1>10
      <4> QED BY <1>8, <1>10, <4>1 DEF SysHeld
    <3>2. SysOlder(m.items)'
      BY <1>3, <1>9, <1>12 DEF SysShape
    <3> QED BY <1>3, <1>9, <3>1, <3>2, SysUsed DEF SysShape
  <2>3. \A q \in reqs : SysShape(q)'
    <3> SUFFICES ASSUME NEW q \in reqs PROVE SysShape(q)'
      OBVIOUS
    <3>1. SysShape(q)
      BY DEF SysInv, SysTypes
    <3>2. SysOlder(q.items)' /\ (q.s \in Used => SysHeld(q.s, q.target)')
      BY <1>11, <1>12, <3>1 DEF SysShape
    <3> QED BY <3>1, <3>2 DEF SysShape
  <2>4. \A q \in Used : SysHeld(q, setting[q])'
    <3> SUFFICES ASSUME NEW q \in Used PROVE SysHeld(q, setting[q])'
      OBVIOUS
    <3>1. SysHeld(q, setting[q]) /\ setting' = setting
      BY <1>1 DEF SysInv, SysTypes
    <3>2. PICK t : t = setting[q]
      OBVIOUS
    <3>3. SysHeld(q, t)'
      BY <1>11, <3>1, <3>2
    <3> QED BY <3>1, <3>2, <3>3
  <2>5. last' \in SysData
    BY <1>1, <1>3 DEF SysData
  <2> QED BY <1>1, <1>2, <2>1, <2>2, <2>3, <2>4, <2>5 DEF SysInv, SysTypes
<1>14. SysFlags'
  BY <1>1 DEF SysInv, SysFlags
<1>15. SysBusy'
  <2>1. (\A s \in Used : s \in busy <=> \E q \in reqs : q.s = s) /\ \A q, p \in reqs : q.s = p.s => q = p
    BY DEF SysInv, SysBusy
  <2>2. (\A q \in reqs' : q = m \/ (q \in reqs /\ q # r)) /\ m \in reqs' /\ \A q \in reqs : q = r \/ q \in reqs'
    BY <1>2
  <2>3. \A s \in Used : s \in busy' <=> \E q \in reqs' : q.s = s
    BY <1>1, <1>9, <2>1, <2>2
  <2>4. \A q, p \in reqs' : q.s = p.s => q = p
    BY <1>9, <2>1, <2>2
  <2> QED BY <2>3, <2>4 DEF SysBusy
<1>16. SysCount'
  <2>1. IsFiniteSet(reqs) /\ SysToWrite \subseteq reqs /\ Len(store) + Cardinality(SysToWrite) <= saves + 1 /\ r \in SysToWrite
    BY <1>1 DEF SysInv, SysCount, SysToWrite
  <2>2. IsFiniteSet(reqs')
    BY <1>2, <2>1, FS_RemoveElement, FS_AddElement
  <2>3. IsFiniteSet(SysToWrite) /\ Cardinality(SysToWrite) \in Nat
    BY <2>1, FS_Subset, FS_CardinalityType
  <2>4. SysToWrite' = SysToWrite \ {r}
    BY <1>2, <1>9 DEF SysToWrite
  <2>5. Cardinality(SysToWrite') = Cardinality(SysToWrite) - 1
    BY <2>1, <2>3, <2>4, FS_RemoveElement
  <2>6. saves \in Nat /\ Len(store') <= Len(store) + 1 /\ Len(store') \in Nat
    BY <1>3, <1>7 DEF SysInv, SysTypes
  <2> QED BY <1>1, <1>3, <2>1, <2>2, <2>3, <2>5, <2>6 DEF SysCount
<1>17. ASSUME ~raced' PROVE SysStoreOK' /\ SysAlone'
  <2>1. ~raced /\ SysStoreOK /\ SysAlone /\ SysTypes
    BY <1>1, <1>17 DEF SysInv
  <2>2. r.target = Settings!ItemOf(store, r.s)
    BY <1>1, <2>1 DEF SysAlone
  <2>3. r.target.id = 0 => r.target.data = Settings!Blank /\ \A i \in DOMAIN store : store[i].data[r.s] = "absent"
    <3> SUFFICES ASSUME r.target.id = 0 PROVE r.target.data = Settings!Blank /\ \A i \in DOMAIN store : store[i].data[r.s] = "absent"
      OBVIOUS
    <3>1. Settings!Target(store, r.s) = 0
      BY <2>2 DEF Settings!ItemOf
    <3>2. Settings!ItemOf(store, r.s).data = Settings!Blank
      BY <3>1 DEF Settings!ItemOf, Settings!NoItem
    <3> QED BY <1>3, <2>1, <2>2, <3>1, <3>2, SysNone
  <2>4. r.target.id # 0 => /\ k = Settings!Target(store, r.s) /\ k \in DOMAIN store /\ r.target.data = store[k].data
                           /\ k \in Settings!Candidates(store, r.s)
    <3> SUFFICES ASSUME r.target.id # 0 PROVE /\ k = Settings!Target(store, r.s) /\ k \in DOMAIN store /\ r.target.data = store[k].data
                                              /\ k \in Settings!Candidates(store, r.s)
      OBVIOUS
    <3>1. k = r.target.id
      BY DEF k
    <3>2. Settings!Target(store, r.s) # 0
      BY <2>2 DEF Settings!ItemOf, Settings!NoItem
    <3>3. r.target.id = Settings!Target(store, r.s) /\ r.target.data = store[Settings!Target(store, r.s)].data
      BY <2>2, <3>2 DEF Settings!ItemOf
    <3>4. Settings!Target(store, r.s) \in Settings!Candidates(store, r.s)
      BY <1>3, <3>2, SysTarget
    <3> QED BY <1>6, <3>1, <3>3, <3>4
  <2>5. ASSUME NEW q \in Used, q # r.s PROVE d[q] = (IF r.target.id = 0 THEN "absent" ELSE store[k].data[q]) /\ last'[q] = last[q]
    <3>1. d[q] = r.target.data[q]
      BY <1>4, <2>5
    <3>2. last'[q] = last[q]
      BY <1>1, <1>3, <2>5 DEF SysData
    <3>3. Settings!Blank[q] = "absent"
      BY DEF Settings!Blank
    <3> QED BY <2>3, <2>4, <3>1, <3>2, <3>3
  <2>6. last'[r.s] = r.val
    BY <1>1, <1>3 DEF SysData
  <2>7. \A i \in DOMAIN store : store[i].data[r.s] # "absent" => i = k
    <3> SUFFICES ASSUME NEW i \in DOMAIN store, store[i].data[r.s] # "absent" PROVE i = k
      OBVIOUS
    <3>1. Settings!Target(store, r.s) = i
      BY <1>3, <2>1, SysFound
    <3>2. r.target.id # 0
      BY <2>3
    <3> QED BY <2>4, <3>1, <3>2
  <2>8. SysHome(r.s, store'[k].by)
    <3>1. CASE r.target.id = 0
      BY <1>7, <3>1 DEF SysHome, Settings!Identity
    <3>2. CASE r.target.id # 0
      BY <1>3, <1>7, <2>4, <3>2, SysCandidate
    <3> QED BY <3>1, <3>2
  <2>9. ASSUME NEW q \in Used, q # r.s, NEW i \in DOMAIN store', store'[i].data[q] # "absent"
        PROVE  i \in DOMAIN store /\ store[i].data[q] = store'[i].data[q] /\ store'[i].by = store[i].by
    <3>1. CASE i = k
      <4>1. r.target.id # 0 /\ store'[i].data[q] = store[k].data[q]
        BY <1>7, <2>5, <2>9, <3>1
      <4> QED BY <1>8, <2>4, <3>1, <4>1
    <3>2. CASE i # k
      BY <1>7, <1>8, <3>2
    <3> QED BY <3>1, <3>2
  <2>10. ASSUME NEW q \in Used, q # r.s, NEW i \in DOMAIN store, store[i].data[q] # "absent"
         PROVE  i \in DOMAIN store' /\ store'[i].data[q] # "absent"
    <3>1. CASE i = k
      <4>1. r.target.id # 0
        BY <1>8, <3>1
      <4> QED BY <1>7, <1>8, <2>5, <2>10, <3>1, <4>1
    <3>2. CASE i # k
      BY <1>7, <1>8, <2>10, <3>2
    <3> QED BY <3>1, <3>2
  <2>11. \A i \in DOMAIN store' : store'[i].data[r.s] # "absent" => i = k
    BY <1>7, <1>8, <2>7
  <2>12. SysStoreOK'
    <3>1. ASSUME NEW i \in DOMAIN store' PROVE store'[i].data[store'[i].by] # "absent"
      <4>1. CASE i # k
        BY <1>7, <1>8, <2>1, <4>1 DEF SysStoreOK
      <4>2. CASE i = k /\ store'[k].by = r.s
        BY <1>4, <1>5, <1>7, <4>2
      <4>3. CASE i = k /\ store'[k].by # r.s
        <5>1. r.target.id # 0 /\ store'[k].by = store[k].by
          BY <1>7, <4>3
        <5>2. k \in DOMAIN store /\ store[k].by \in Used /\ store[k].data[store[k].by] # "absent"
          <6>1. k \in DOMAIN store
            BY <2>4, <5>1
          <6>2. store[k] \in SysItems
            BY <1>3, <6>1
          <6>3. store[k].by \in Used
            BY <6>2 DEF SysItems
          <6> QED BY <2>1, <6>1, <6>3 DEF SysStoreOK
        <5>3. d[store[k].by] = store[k].data[store[k].by]
          BY <2>5, <4>3, <5>1, <5>2
        <5> QED BY <1>7, <4>3, <5>1, <5>2, <5>3
      <4> QED BY <4>1, <4>2, <4>3
    <3>2. ASSUME NEW q \in Used, NEW i \in DOMAIN store', NEW j \in DOMAIN store',
                 store'[i].data[q] # "absent", store'[j].data[q] # "absent"
          PROVE  i = j
      <4>1. CASE q = r.s
        BY <2>11, <3>2, <4>1
      <4>2. CASE q # r.s
        <5>1. i \in DOMAIN store /\ store[i].data[q] # "absent" /\ j \in DOMAIN store /\ store[j].data[q] # "absent"
          BY <2>9, <3>2, <4>2
        <5> QED BY <2>1, <5>1 DEF SysStoreOK
      <4> QED BY <4>1, <4>2
    <3>3. ASSUME NEW q \in Used, NEW i \in DOMAIN store', store'[i].data[q] # "absent"
          PROVE  SysHome(q, store'[i].by) /\ store'[i].data[q] = last'[q]
      <4>1. CASE q = r.s
        BY <1>4, <1>7, <2>6, <2>8, <2>11, <3>3, <4>1
      <4>2. CASE q # r.s
        <5>1. i \in DOMAIN store /\ store[i].data[q] = store'[i].data[q] /\ store'[i].by = store[i].by /\ last'[q] = last[q]
          BY <2>5, <2>9, <3>3, <4>2
        <5> QED BY <2>1, <3>3, <5>1 DEF SysStoreOK
      <4> QED BY <4>1, <4>2
    <3>4. ASSUME NEW q \in Used, last'[q] # "absent" PROVE \E i \in DOMAIN store' : store'[i].data[q] # "absent"
      <4>1. CASE q = r.s
        BY <1>4, <1>5, <1>7, <1>8, <4>1
      <4>2. CASE q # r.s
        <5>1. PICK i \in DOMAIN store : store[i].data[q] # "absent"
          BY <2>1, <2>5, <3>4, <4>2 DEF SysStoreOK
        <5> QED BY <2>10, <4>2, <5>1
      <4> QED BY <4>1, <4>2
    <3> QED BY <3>1, <3>2, <3>3, <3>4 DEF SysStoreOK
  <2>13. SysAlone'
    <3>1. reqs' = {m}
      BY <1>2, <2>1 DEF SysAlone
    <3> QED BY <1>9, <3>1 DEF SysAlone
  <2> QED BY <2>12, <2>13
<1> QED BY <1>13, <1>14, <1>15, <1>16, <1>17 DEF SysInv

LEMMA SysKeeps == ASSUME Settings!ConstantsOK, SysInv, [Settings!Next]_Settings!vars PROVE SysInv'
<1>1. CASE Settings!User
  <2>1. ASSUME NEW v \in Settings!Values \cup {"bad"}, Settings!EditOIDC(v) \/ Settings!EditLDAP(v) \/ Settings!EditWeCom(v) \/ Settings!EditRetention(v) PROVE SysInv'
    <3>1. PICK s \in Used : s # "security" /\ Settings!Edit(s, v)
      BY <2>1 DEF Settings!EditOIDC, Settings!EditLDAP, Settings!EditWeCom, Settings!EditRetention, Settings!Edit
    <3> QED BY <3>1, SysEdits
  <2>2. CASE Settings!SaveLoginSecurity \/ Settings!ToggleCaptcha
    <3>1. "security" \in Used /\ form["security"] \in Settings!Values /\ Settings!Other(form["security"]) \in Settings!Values
      BY <2>2 DEF Settings!SaveLoginSecurity, Settings!ToggleCaptcha, SysInv, SysTypes, Settings!Other, Settings!Values
    <3>2. PICK val \in Settings!Values : Settings!Begin("security", val)
      BY <2>2, <3>1 DEF Settings!SaveLoginSecurity, Settings!ToggleCaptcha
    <3> QED BY <3>1, <3>2, SysBegins
  <2>3. ASSUME NEW s \in Used, Settings!Save(s) PROVE SysInv'
    <3>1. form[s] \in Settings!Values /\ Settings!Begin(s, form[s])
      BY <2>3 DEF Settings!Save, Settings!FormValid, SysInv, SysTypes
    <3> QED BY <3>1, SysBegins
  <2> QED BY <1>1, <2>1, <2>2, <2>3 DEF Settings!User
<1>2. ASSUME NEW r \in reqs,
             Settings!Fetched(r) \/ Settings!Write(r) \/ Settings!Saved(r) \/ Settings!Refreshed(r) \/ Settings!Serve(r) \/ Settings!Loaded(r) \/ Settings!Fail(r)
      PROVE  SysInv'
  BY <1>2, SysFetches, SysWrites, SysAnswers, SysRefreshes, SysServes, SysLoads, SysFails
<1>3. CASE UNCHANGED Settings!vars
  <2>1. UNCHANGED <<store, required, form, setting, edited, busy, reqs, saves, last, raced>>
    BY <1>3 DEF Settings!vars, Settings!page
  <2>2. SysTypes'
    BY <2>1 DEF SysInv, SysTypes, SysProper, SysOlder, SysHeld, SysShape
  <2>3. SysFlags'
    BY <2>1 DEF SysInv, SysFlags
  <2>4. SysCount' /\ SysBusy'
    BY <2>1 DEF SysInv, SysCount, SysToWrite, SysBusy
  <2>5. ~raced' => SysStoreOK' /\ SysAlone'
    BY <2>1 DEF SysInv, SysStoreOK, SysAlone
  <2> QED BY <2>2, <2>3, <2>4, <2>5 DEF SysInv
<1> QED BY <1>1, <1>2, <1>3 DEF Settings!Next

LEMMA SysShows ==
  ASSUME Settings!ConstantsOK, SysInv
  PROVE  Settings!TypeOK /\ Settings!SectionsShowStored /\ Settings!SavedIsStored /\ Settings!NoDuplicateItem /\ Settings!BusyIsTrue
<1>1. Settings!TypeOK
  <2>1. store \in Seq(SysItems) /\ DOMAIN store = 1 .. Len(store) /\ Len(store) \in Nat
    BY DEF SysInv, SysTypes, SysProper
  <2>2. \A i \in DOMAIN store : store[i].by \in Used /\ store[i].data \in [Used -> Settings!Values \cup {"absent"}]
    <3> SUFFICES ASSUME NEW i \in DOMAIN store PROVE store[i].by \in Used /\ store[i].data \in SysData
      BY DEF SysData
    <3>1. store[i] \in SysItems
      BY <2>1
    <3> QED BY <3>1 DEF SysItems
  <2>3. Len(store) <= MaxSaves + 1
    <3>1. IsFiniteSet(SysToWrite)
      BY FS_Subset DEF SysInv, SysCount, SysToWrite
    <3>2. Cardinality(SysToWrite) \in Nat
      BY <3>1, FS_CardinalityType
    <3>3. saves \in Nat /\ saves <= MaxSaves /\ MaxSaves \in Nat /\ Len(store) + Cardinality(SysToWrite) <= saves + 1
      BY SysUsed DEF SysInv, SysTypes, SysCount
    <3> QED BY <2>1, <3>2, <3>3
  <2>4. setting \in [Used -> Settings!Items]
    <3>1. setting \in [Used -> [id : Nat, data : SysData]]
      BY DEF SysInv, SysTypes
    <3> SUFFICES ASSUME NEW s \in Used PROVE setting[s] \in Settings!Items
      BY <3>1
    <3>2. PICK t : t = setting[s]
      OBVIOUS
    <3>3. t \in [id : Nat, data : SysData] /\ t.id <= Len(store)
      BY <3>2 DEF SysInv, SysTypes, SysHeld
    <3>4. t.id \in 0 .. MaxSaves + 1 /\ t.data \in [Used -> Settings!Values \cup {"absent"}]
      BY <2>1, <2>3, <3>3, SysUsed DEF SysData
    <3>5. t \in Settings!Items
      BY <3>3, <3>4 DEF Settings!Items
    <3> QED BY <3>2, <3>5
  <2>5. /\ saves \in 0 .. MaxSaves /\ form \in [Used -> Settings!Values \cup {"bad"}]
        /\ busy \subseteq Used /\ edited \subseteq Used /\ last \in [Used -> Settings!Values \cup {"absent"}]
    BY DEF SysInv, SysTypes, SysData
  <2>6. required \in BOOLEAN /\ raced \in BOOLEAN
    BY DEF SysInv, SysFlags
  <2>7. \A r \in reqs : /\ r.phase \in {"get", "put", "wrote", "refresh", "load", "served"}
                       /\ r.s \in Used \cup {"mount"} /\ r.fallback \in BOOLEAN
    <3> SUFFICES ASSUME NEW r \in reqs
                 PROVE  /\ r.phase \in {"get", "put", "wrote", "refresh", "load", "served"}
                        /\ r.s \in Used \cup {"mount"} /\ r.fallback \in BOOLEAN
      OBVIOUS
    <3>1. r \in SysRequests
      BY DEF SysInv, SysTypes, SysShape
    <3>2. r.phase \in {"get", "put", "wrote", "refresh", "load", "served"} /\ r.s \in Used \cup {"mount"}
      BY <3>1 DEF SysRequests
    <3>3. r.fallback \in BOOLEAN
      BY <3>1 DEF SysRequests
    <3> QED BY <3>2, <3>3
  <2> QED BY <2>2, <2>4, <2>5, <2>6, <2>7 DEF Settings!TypeOK
<1>2. Settings!SectionsShowStored
  BY DEF Settings!SectionsShowStored, Settings!Idle, SysInv, SysAlone
<1>3. Settings!SavedIsStored
  <2> SUFFICES ASSUME ~raced, NEW s \in Used, last[s] # "absent"
               PROVE  \E i \in DOMAIN store : i = Settings!Target(store, s) /\ store[i].data[s] = last[s]
    BY DEF Settings!SavedIsStored
  <2>1. SysTypes /\ SysStoreOK
    BY DEF SysInv
  <2>2. PICK i \in DOMAIN store : store[i].data[s] # "absent"
    BY <2>1 DEF SysStoreOK
  <2>3. store[i].data[s] = last[s]
    BY <2>1, <2>2 DEF SysStoreOK
  <2>4. Settings!Target(store, s) = i
    BY <2>1, <2>2, SysFound
  <2> QED BY <2>3, <2>4
<1>4. Settings!NoDuplicateItem
  <2> SUFFICES ASSUME ~raced, NEW s \in Used PROVE Cardinality({i \in DOMAIN store : store[i].by = s}) <= 1
    BY SysCounts DEF Settings!NoDuplicateItem
  <2>1. \A i, j \in DOMAIN store : store[i].by = s /\ store[j].by = s => i = j
    BY DEF SysInv, SysStoreOK
  <2> DEFINE S == {i \in DOMAIN store : store[i].by = s}
  <2>2. S = {} \/ \E i \in S : S = {i}
    BY <2>1
  <2> HIDE DEF S
  <2>3. Cardinality(S) = 0 \/ Cardinality(S) = 1
    BY <2>2, FS_EmptySet, FS_Singleton
  <2> QED BY <2>3 DEF S
<1>5. Settings!BusyIsTrue
  <2>1. \A r \in reqs : r.s \in Used \cup {"mount"}
    BY DEF SysInv, SysTypes, SysShape, SysRequests
  <2>2. (\A s \in Used : s \in busy <=> \E r \in reqs : r.s = s) /\ busy \subseteq Used /\ "mount" \notin Used
    BY SysUsed DEF SysInv, SysBusy, SysTypes
  <2>3. busy = {r.s : r \in reqs} \ {"mount"}
    BY <2>1, <2>2
  <2> QED BY <2>3 DEF Settings!BusyIsTrue, SysInv, SysBusy
<1> QED BY <1>1, <1>2, <1>3, <1>4, <1>5

LEMMA SysInvariance == ASSUME Settings!ConstantsOK PROVE Settings!Spec => []SysInv
<1>1. Settings!Init => SysInv
  BY SysInit
<1>2. SysInv /\ [Settings!Next]_Settings!vars => SysInv'
  BY SysKeeps
<1> QED BY <1>1, <1>2, PTL DEF Settings!Spec

(* For any sections and any number of saves: while saves do not overlap and*)
(* none fails, every section is stored as it was saved last and found      *)
(* there again, though sections share items that are replaced as a whole,  *)
(* and none gets a second item; at rest the sections without edits show    *)
(* what is stored, and the buttons are disabled exactly while a save runs  *)
(* (updateLoginSecurity, the save* functions, loadLoginSecurity).          *)
THEOREM SettingsAreTrue ==
  ASSUME Settings!ConstantsOK PROVE Settings!Spec => [](Settings!TypeOK /\ Settings!SectionsShowStored /\ Settings!SavedIsStored /\ Settings!NoDuplicateItem /\ Settings!BusyIsTrue)
<1>1. SysInv => Settings!TypeOK /\ Settings!SectionsShowStored /\ Settings!SavedIsStored /\ Settings!NoDuplicateItem /\ Settings!BusyIsTrue
  BY SysShows
<1> QED BY <1>1, SysInvariance, PTL

-----------------------------------------------------------------------------
(***************************************************************************)
(* The lists of the account page and the confirm dialog they share.        *)
(***************************************************************************)

(* The module's counting is that of FiniteSets. *)
LEMMA AcctCounts == (\A S : Account!Cardinality(S) = Cardinality(S)) /\ \A S : Account!IsFiniteSet(S) <=> IsFiniteSet(S)
<1>1. \A S : Account!Cardinality(S) = Cardinality(S)
  BY DEF Cardinality, Account!Cardinality
<1>2. \A S : Account!IsFiniteSet(S) <=> IsFiniteSet(S)
  BY DEF IsFiniteSet, Account!IsFiniteSet
<1> QED BY <1>1, <1>2

AcctRequests ==
  [list : Lists, op : {"mount", "create", "toggle", "delete"}, id : Ids \cup {"none"}, to : Account!States,
   phase : {"options", "authenticator", "verify", "send", "load", "served"}, seen : [Ids -> Account!States]]

(* What a request can be at, by its operation: only a passkey is verified  *)
(* before it is created, and a key that is deleted was asked about.        *)
AcctShape(r) ==
  /\ r \in AcctRequests
  /\ r.op = "mount" => r.phase \in {"load", "served"}
  /\ r.phase \in {"options", "authenticator", "verify"} => r.op = "create" /\ r.list = "passkeys"
  /\ r.op = "create" => r.to = "on"
  /\ r.op = "toggle" => r.to # "gone" /\ r.id \in Ids /\ Account!Kind[r.list].toggles
  /\ r.op = "delete" => r.to = "gone" /\ r.id \in Ids
  /\ r.op = "delete" /\ Account!Kind[r.list].asks => [list |-> r.list, id |-> r.id] \in accepted

AcctTypes ==
  /\ items \in [Lists -> [Ids -> Account!States]] /\ list \in [Lists -> [Ids -> Account!States]]
  /\ busy \subseteq Lists /\ stale \subseteq Lists /\ issued \in 0 .. MaxRequests
  /\ asking \in {Account!Nothing} \cup [list : Lists, id : Ids]
  /\ other \in {"idle", "checked"} /\ overlap \in BOOLEAN
  /\ other = "checked" => "passkeys" \in Lists
  /\ \A r \in reqs : AcctShape(r)

(* A list has one handler at most, none while it is asked about, and its   *)
(* busy flag says whether there is one.                                    *)
AcctAlone ==
  /\ \A r, q \in reqs : r.op # "mount" /\ q.op # "mount" /\ r.list = q.list => r = q
  /\ \A l \in Lists : l \in busy <=> \E r \in reqs : r.op # "mount" /\ r.list = l
  /\ asking # Account!Nothing => asking.list \notin busy /\ Account!Kind[asking.list].asks

(* A list that is not stale has one request at most, and what that one     *)
(* was answered is what the server has.                                    *)
AcctFresh ==
  \A l \in Lists \ stale :
    /\ \A r, q \in reqs : r.list = l /\ q.list = l => r = q
    /\ \A r \in reqs : r.list = l /\ r.phase = "served" => r.seen = items[l]
    /\ (\A r \in reqs : r.list # l) => list[l] = items[l]

(* A registration of the page has counted the keys and not created one.    *)
Registering == \E r \in reqs : r.list = "passkeys" /\ r.op = "create" /\ r.phase = "send"

(* Who has counted the keys has room for one more, and is alone.           *)
AcctLimit ==
  "passkeys" \in Lists /\ ~overlap =>
    /\ Cardinality(Account!Present("passkeys")) <= Limit
    /\ Registering => other = "idle" /\ Cardinality(Account!Present("passkeys")) < Limit
    /\ other = "checked" => Cardinality(Account!Present("passkeys")) < Limit

AcctInv == AcctTypes /\ AcctAlone /\ AcctFresh /\ AcctLimit

(* DOMAIN Kind, spelt out. *)
LEMMA AcctKinds == DOMAIN Account!Kind = {"passkeys", "ssh", "policies", "locks"}
  BY DEF Account!Kind

LEMMA AcctPresent ==
  ASSUME Account!ConstantsOK, AcctTypes
  PROVE  IsFiniteSet(Account!Present("passkeys")) /\ Cardinality(Account!Present("passkeys")) \in Nat
<1>1. IsFiniteSet(Ids) /\ Account!Present("passkeys") \subseteq Ids
  BY AcctCounts DEF Account!ConstantsOK, Account!Present
<1> QED BY <1>1, FS_Subset, FS_CardinalityType

LEMMA AcctInit == ASSUME Account!ConstantsOK, Account!Init PROVE AcctInv
<1>1. \A r \in reqs : \E l \in Lists : r = [list |-> l, op |-> "mount", id |-> "none", to |-> "gone", phase |-> "load", seen |-> [i \in Ids |-> "gone"]]
  BY DEF Account!Init, Account!Request
<1>2. AcctTypes
  <2>1. \A r \in reqs : AcctShape(r)
    BY <1>1 DEF AcctShape, AcctRequests, Account!States
  <2>2. items \in [Lists -> [Ids -> Account!States]]
    <3>1. \A S \in SUBSET Ids : [i \in Ids |-> IF i \in S THEN "on" ELSE "gone"] \in [Ids -> Account!States]
      BY DEF Account!States
    <3>2. {[i \in Ids |-> IF i \in S THEN "on" ELSE "gone"] : S \in SUBSET Ids} \subseteq [Ids -> Account!States]
      BY <3>1
    <3> QED BY <3>2 DEF Account!Init
  <2>3. issued \in 0 .. MaxRequests
    BY DEF Account!Init, Account!ConstantsOK
  <2>4. overlap \in BOOLEAN
    BY DEF Account!Init
  <2> QED BY <2>1, <2>2, <2>3, <2>4 DEF Account!Init, AcctTypes, Account!States
<1>3. \A r \in reqs : r.op = "mount" /\ r.phase = "load"
  BY <1>1
<1>4. AcctAlone
  BY <1>3 DEF Account!Init, AcctAlone
<1>5. AcctFresh
  <2>1. ASSUME NEW l \in Lists PROVE \E r \in reqs : r.list = l
    <3>1. Account!Request(l, "mount", "none", "gone", "load") \in reqs /\ Account!Request(l, "mount", "none", "gone", "load").list = l
      BY DEF Account!Init, Account!Request
    <3> QED BY <3>1
  <2>2. \A r, q \in reqs : r.list = q.list => r = q
    BY <1>1
  <2> QED BY <1>3, <2>1, <2>2 DEF AcctFresh
<1>6. AcctLimit
  BY <1>3, AcctCounts DEF Account!Init, AcctLimit, Registering
<1> QED BY <1>2, <1>4, <1>5, <1>6 DEF AcctInv

(* Begin puts one request more. *)
LEMMA AcctBeginKeeps ==
  ASSUME Account!ConstantsOK, AcctInv, NEW l \in Lists, NEW op \in {"create", "toggle", "delete"}, NEW id \in Ids \cup {"none"},
         NEW to \in Account!States, NEW phase \in {"options", "send"}, Account!Begin(l, op, id, to, phase),
         l \notin busy, asking' = Account!Nothing, accepted \subseteq accepted',
         phase = "options" => op = "create" /\ l = "passkeys",
         op = "create" => to = "on",
         op = "create" /\ l = "passkeys" => phase = "options",
         op = "toggle" => to # "gone" /\ id \in Ids /\ Account!Kind[l].toggles,
         op = "delete" => to = "gone" /\ id \in Ids,
         op = "delete" /\ Account!Kind[l].asks => [list |-> l, id |-> id] \in accepted'
  PROVE  AcctInv'
<1> DEFINE new == Account!Request(l, op, id, to, phase)
<1>1. /\ reqs' = reqs \cup {new} /\ busy' = busy \cup {l} /\ issued' = issued + 1 /\ issued < MaxRequests
      /\ stale' = (IF \E r \in reqs : r.list = l THEN stale \cup {l} ELSE stale)
      /\ items' = items /\ other' = other /\ list' = list /\ overlap' = overlap
  BY DEF Account!Begin, Account!server
<1>2. new \in AcctRequests /\ new.list = l /\ new.op = op /\ new.id = id /\ new.to = to /\ new.phase = phase
  BY DEF Account!Request, AcctRequests, Account!States
<1> HIDE DEF new
<1>3. AcctTypes'
  <2>1. \A r \in reqs' : AcctShape(r)'
    <3> SUFFICES ASSUME NEW r \in reqs' PROVE AcctShape(r)'
      OBVIOUS
    <3>1. CASE r \in reqs
      BY <3>1 DEF AcctShape, AcctInv, AcctTypes
    <3>2. CASE r = new
      BY <3>2, <1>2 DEF AcctShape
    <3> QED BY <3>1, <3>2, <1>1
  <2>2. issued' \in 0 .. MaxRequests
    BY <1>1 DEF AcctInv, AcctTypes, Account!ConstantsOK
  <2>3. overlap' \in BOOLEAN
    BY <1>1 DEF AcctInv, AcctTypes
  <2> QED BY <1>1, <2>1, <2>2, <2>3 DEF AcctInv, AcctTypes
<1>4. AcctAlone'
  <2>1. \A r \in reqs : r.op # "mount" => r.list # l
    BY DEF AcctInv, AcctAlone, AcctTypes, AcctShape, AcctRequests
  <2> QED BY <1>1, <1>2, <2>1 DEF AcctInv, AcctAlone
<1>5. AcctFresh'
  <2> SUFFICES ASSUME NEW k \in Lists \ stale'
               PROVE  /\ \A r, q \in reqs' : r.list = k /\ q.list = k => r = q
                      /\ \A r \in reqs' : r.list = k /\ r.phase = "served" => r.seen = items[k]
                      /\ (\A r \in reqs' : r.list # k) => list[k] = items[k]
    BY <1>1 DEF AcctFresh
  <2>1. k \notin stale /\ (k = l => \A r \in reqs : r.list # l)
    BY <1>1
  <2> QED BY <1>1, <1>2, <2>1 DEF AcctInv, AcctFresh
<1>6. AcctLimit'
  <2>1. Registering' => Registering
    BY <1>1, <1>2 DEF Registering
  <2>2. Account!Present("passkeys")' = Account!Present("passkeys")
    BY <1>1 DEF Account!Present
  <2> QED BY <1>1, <2>1, <2>2 DEF AcctInv, AcctLimit
<1> QED BY <1>3, <1>4, <1>5, <1>6 DEF AcctInv

(* A step of the server, or an answer, moves one request on: what it does  *)
(* to the request and that it leaves the page alone.                       *)
AcctMoved(r, m) ==
  /\ reqs' = (reqs \ {r}) \cup {m} /\ m.list = r.list /\ m.op = r.op
  /\ UNCHANGED <<list, busy, issued, asking, accepted, stale>>

LEMMA AcctMovedKeeps ==
  ASSUME Account!ConstantsOK, AcctInv, NEW r \in reqs, NEW m, AcctMoved(r, m)
  PROVE  /\ AcctAlone'
         /\ AcctShape(m) => \A q \in reqs' : AcctShape(q)'
<1>1. AcctAlone'
  BY DEF AcctInv, AcctAlone, AcctMoved
<1>2. ASSUME AcctShape(m), NEW q \in reqs' PROVE AcctShape(q)'
  <2>1. AcctShape(q)
    BY <1>2 DEF AcctInv, AcctTypes, AcctMoved
  <2> QED BY <2>1 DEF AcctShape, AcctMoved
<1> QED BY <1>1, <1>2

(* The steps that leave the items alone. *)
LEMMA AcctWaitKeeps ==
  ASSUME Account!ConstantsOK, AcctInv, NEW r \in reqs, Account!Options(r) \/ Account!Authenticator(r) \/ Account!Verify(r) \/ Account!Serve(r)
  PROVE  AcctInv'
<1>1. AcctShape(r) /\ r \in AcctRequests
  BY DEF AcctInv, AcctTypes, AcctShape
<1>2. PICK m : /\ AcctMoved(r, m) /\ AcctShape(m)
               /\ (m.phase = "served" => m.seen = items[r.list])
               /\ (m.phase = "send" => Account!Verify(r))
  <2>1. CASE Account!Options(r)
    <3> DEFINE m == [r EXCEPT !.phase = "authenticator"]
    <3>1. m \in AcctRequests /\ m.list = r.list /\ m.op = r.op /\ m.phase = "authenticator" /\ m.to = r.to /\ m.id = r.id
      BY <1>1 DEF AcctRequests
    <3>2. reqs' = (reqs \ {r}) \cup {m} /\ UNCHANGED <<list, busy, issued, asking, accepted, stale>> /\ r.phase = "options"
      BY <2>1 DEF Account!Options, Account!To, Account!history
    <3> HIDE DEF m
    <3>3. AcctShape(m) /\ AcctMoved(r, m)
      BY <1>1, <3>1, <3>2 DEF AcctShape, AcctMoved
    <3> QED BY <3>1, <3>3
  <2>2. CASE Account!Authenticator(r)
    <3> DEFINE m == [r EXCEPT !.phase = "verify"]
    <3>1. m \in AcctRequests /\ m.list = r.list /\ m.op = r.op /\ m.phase = "verify" /\ m.to = r.to /\ m.id = r.id
      BY <1>1 DEF AcctRequests
    <3>2. reqs' = (reqs \ {r}) \cup {m} /\ UNCHANGED <<list, busy, issued, asking, accepted, stale>> /\ r.phase = "authenticator"
      BY <2>2 DEF Account!Authenticator, Account!To, Account!history
    <3> HIDE DEF m
    <3>3. AcctShape(m) /\ AcctMoved(r, m)
      BY <1>1, <3>1, <3>2 DEF AcctShape, AcctMoved
    <3> QED BY <3>1, <3>3
  <2>3. CASE Account!Verify(r)
    <3> DEFINE m == [r EXCEPT !.phase = "send"]
    <3>1. m \in AcctRequests /\ m.list = r.list /\ m.op = r.op /\ m.phase = "send" /\ m.to = r.to /\ m.id = r.id
      BY <1>1 DEF AcctRequests
    <3>2. reqs' = (reqs \ {r}) \cup {m} /\ UNCHANGED <<list, busy, issued, asking, accepted, stale>> /\ r.phase = "verify"
      BY <2>3 DEF Account!Verify, Account!To
    <3> HIDE DEF m
    <3>3. AcctShape(m) /\ AcctMoved(r, m)
      BY <1>1, <3>1, <3>2 DEF AcctShape, AcctMoved
    <3> QED BY <2>3, <3>1, <3>3
  <2>4. CASE Account!Serve(r)
    <3> DEFINE m == [r EXCEPT !.phase = "served", !.seen = items[r.list]]
    <3>0. items[r.list] \in [Ids -> Account!States]
      BY <1>1 DEF AcctInv, AcctTypes, AcctRequests
    <3>1. m \in AcctRequests /\ m.list = r.list /\ m.op = r.op /\ m.phase = "served" /\ m.seen = items[r.list] /\ m.to = r.to /\ m.id = r.id
      BY <1>1, <3>0 DEF AcctRequests
    <3>2. reqs' = (reqs \ {r}) \cup {m} /\ UNCHANGED <<list, busy, issued, asking, accepted, stale>> /\ r.phase = "load"
      BY <2>4 DEF Account!Serve, Account!history
    <3> HIDE DEF m
    <3>3. AcctShape(m) /\ AcctMoved(r, m)
      BY <1>1, <3>1, <3>2 DEF AcctShape, AcctMoved
    <3> QED BY <3>1, <3>3
  <2> QED BY <2>1, <2>2, <2>3, <2>4
<1>3. items' = items /\ other' = other /\ overlap' \in BOOLEAN /\ (overlap \/ overlap' \/ (Account!Verify(r) => other # "checked"))
      /\ (overlap => overlap')
  BY DEF Account!Options, Account!Authenticator, Account!Verify, Account!Serve, Account!server, Account!history, AcctInv, AcctTypes
<1>4. AcctTypes'
  BY <1>2, <1>3, AcctMovedKeeps DEF AcctInv, AcctTypes, AcctMoved
<1>5. AcctFresh'
  <2> SUFFICES ASSUME NEW k \in Lists \ stale
               PROVE  /\ \A p, q \in reqs' : p.list = k /\ q.list = k => p = q
                      /\ \A q \in reqs' : q.list = k /\ q.phase = "served" => q.seen = items[k]
                      /\ (\A q \in reqs' : q.list # k) => list[k] = items[k]
    BY <1>2, <1>3 DEF AcctFresh, AcctMoved
  <2>1. \A p, q \in reqs : p.list = k /\ q.list = k => p = q
    BY DEF AcctInv, AcctFresh
  <2>2. \A q \in reqs' : q \in reqs \/ q = m
    BY <1>2 DEF AcctMoved
  <2>3. m \in reqs' /\ m.list = r.list /\ reqs' = (reqs \ {r}) \cup {m}
    BY <1>2 DEF AcctMoved
  <2> QED BY <1>2, <2>1, <2>2, <2>3 DEF AcctInv, AcctFresh
<1>6. AcctLimit'
  <2> SUFFICES ASSUME "passkeys" \in Lists, ~overlap'
               PROVE  /\ Cardinality(Account!Present("passkeys")) <= Limit
                      /\ Registering' => other = "idle" /\ Cardinality(Account!Present("passkeys")) < Limit
                      /\ other = "checked" => Cardinality(Account!Present("passkeys")) < Limit
    <3>1. Account!Present("passkeys")' = Account!Present("passkeys")
      BY <1>3 DEF Account!Present
    <3> QED BY <1>3, <3>1 DEF AcctLimit
  <2>1. ~overlap
    BY <1>3
  <2>2. Registering' => Registering \/ Account!Verify(r)
    BY <1>2 DEF Registering, AcctMoved
  <2>3. Account!Verify(r) => other = "idle" /\ Cardinality(Account!Present("passkeys")) < Limit
    BY <1>3, <2>1, AcctCounts DEF Account!Verify, Account!MayRegister, AcctInv, AcctTypes
  <2> QED BY <2>1, <2>2, <2>3 DEF AcctInv, AcctLimit
<1> QED BY <1>2, <1>4, <1>5, <1>6, AcctMovedKeeps DEF AcctInv

(* One item of one list takes another state. *)
LEMMA AcctItem ==
  ASSUME AcctTypes, NEW l \in Lists, NEW i \in Ids, NEW v \in Account!States, items' = [items EXCEPT ![l][i] = v]
  PROVE  /\ items' \in [Lists -> [Ids -> Account!States]]
         /\ \A k \in Lists \ {l} : items'[k] = items[k]
         /\ items'[l][i] = v /\ \A j \in Ids \ {i} : items'[l][j] = items[l][j]
  BY DEF AcctTypes

LEMMA AcctRoom ==
  ASSUME Account!ConstantsOK, AcctTypes, NEW i \in Ids \ Account!Present("passkeys"), "passkeys" \in Lists,
         items' = [items EXCEPT !["passkeys"][i] = "on"]
  PROVE  Cardinality(Account!Present("passkeys")') = Cardinality(Account!Present("passkeys")) + 1
<1>1. "on" \in Account!States /\ "on" # "gone"
  BY DEF Account!States
<1>2. items'["passkeys"][i] = "on" /\ \A j \in Ids \ {i} : items'["passkeys"][j] = items["passkeys"][j]
  BY <1>1, AcctItem
<1>3. Account!Present("passkeys")' = Account!Present("passkeys") \cup {i}
  BY <1>1, <1>2 DEF Account!Present
<1> QED BY <1>3, AcctPresent, FS_AddElement

LEMMA AcctWriteKeeps == ASSUME Account!ConstantsOK, AcctInv, NEW r \in reqs, Account!Write(r) PROVE AcctInv'
<1> DEFINE m == [r EXCEPT !.phase = "load"]
<1>1. AcctShape(r) /\ r \in AcctRequests
  BY DEF AcctInv, AcctTypes, AcctShape
<1>2. /\ m \in AcctRequests /\ m.list = r.list /\ m.op = r.op /\ m.phase = "load" /\ m.to = r.to /\ m.id = r.id
  BY <1>1 DEF AcctRequests
<1>3. /\ reqs' = (reqs \ {r}) \cup {m} /\ UNCHANGED <<list, busy, issued, asking, accepted, stale, other, overlap>> /\ r.phase = "send"
  BY DEF Account!Write, Account!To, Account!history
<1> HIDE DEF m
<1>4. AcctShape(m) /\ AcctMoved(r, m)
  BY <1>1, <1>2, <1>3 DEF AcctShape, AcctMoved
<1>5. PICK i \in Ids, v \in Account!States :
        /\ items' = [items EXCEPT ![r.list][i] = v]
        /\ r.op = "create" => v = "on" /\ i \notin Account!Present(r.list)
        /\ r.op # "create" => i = r.id /\ v = r.to /\ items[r.list][i] # "gone"
  <2>1. CASE r.op = "create"
    <3>1. PICK i \in Ids \ Account!Present(r.list) : items' = [items EXCEPT ![r.list][i] = "on"]
      BY <2>1 DEF Account!Write
    <3>2. "on" \in Account!States
      BY DEF Account!States
    <3> QED BY <2>1, <3>1, <3>2
  <2>2. CASE r.op # "create"
    <3>1. r.id \in Ids /\ r.to \in Account!States /\ r.list \in Lists
      <4>1. r.op \in {"toggle", "delete"}
        BY <1>1, <1>3, <2>2 DEF AcctShape, AcctRequests
      <4> QED BY <1>1, <4>1 DEF AcctShape, AcctRequests
    <3>2. items[r.list][r.id] # "gone" /\ items' = [items EXCEPT ![r.list] = [items[r.list] EXCEPT ![r.id] = r.to]]
      BY <2>2 DEF Account!Write, Account!Written
    <3>3. items' = [items EXCEPT ![r.list][r.id] = r.to]
      BY <3>2
    <3> QED BY <2>2, <3>1, <3>2, <3>3
  <2> QED BY <2>1, <2>2
<1>6. r.list \in Lists
  BY <1>1 DEF AcctRequests
<1>7. /\ items' \in [Lists -> [Ids -> Account!States]]
      /\ \A k \in Lists \ {r.list} : items'[k] = items[k]
      /\ items'[r.list][i] = v /\ \A j \in Ids \ {i} : items'[r.list][j] = items[r.list][j]
  BY <1>5, <1>6, AcctItem DEF AcctInv
<1>8. AcctTypes'
  <2>1. overlap' \in BOOLEAN
    BY <1>3 DEF AcctInv, AcctTypes
  <2> QED BY <1>3, <1>4, <1>7, <2>1, AcctMovedKeeps DEF AcctInv, AcctTypes
<1>9. AcctFresh'
  <2> SUFFICES ASSUME NEW k \in Lists \ stale
               PROVE  /\ \A p, q \in reqs' : p.list = k /\ q.list = k => p = q
                      /\ \A q \in reqs' : q.list = k /\ q.phase = "served" => q.seen = items'[k]
                      /\ (\A q \in reqs' : q.list # k) => list[k] = items'[k]
    BY <1>3 DEF AcctFresh
  <2>1. \A p, q \in reqs : p.list = k /\ q.list = k => p = q
    BY DEF AcctInv, AcctFresh
  <2>2. \A q \in reqs' : q \in reqs \/ q = m
    BY <1>3
  <2>3. CASE k = r.list
    BY <1>2, <1>3, <2>1, <2>2, <2>3
  <2>4. CASE k # r.list
    BY <1>2, <1>3, <1>7, <2>1, <2>2, <2>4 DEF AcctInv, AcctFresh
  <2> QED BY <2>3, <2>4
<1>10. AcctLimit'
  <2> SUFFICES ASSUME "passkeys" \in Lists, ~overlap
               PROVE  /\ Cardinality(Account!Present("passkeys")') <= Limit
                      /\ Registering' => other = "idle" /\ Cardinality(Account!Present("passkeys")') < Limit
                      /\ other = "checked" => Cardinality(Account!Present("passkeys")') < Limit
    BY <1>3 DEF AcctLimit
  <2>1. Registering' => Registering /\ ~(r.list = "passkeys" /\ r.op = "create")
    <3> SUFFICES ASSUME Registering' PROVE Registering /\ ~(r.list = "passkeys" /\ r.op = "create")
      OBVIOUS
    <3>1. PICK q \in reqs' : q.list = "passkeys" /\ q.op = "create" /\ q.phase = "send"
      BY DEF Registering
    <3>2. q \in reqs /\ q # r
      BY <1>2, <1>3, <3>1
    <3>3. r.list = "passkeys" /\ r.op = "create" => r = q
      BY <3>1, <3>2 DEF AcctInv, AcctAlone
    <3> QED BY <3>1, <3>2, <3>3 DEF Registering
  <2>2. CASE r.list = "passkeys" /\ r.op = "create"
    <3>1. Cardinality(Account!Present("passkeys")') = Cardinality(Account!Present("passkeys")) + 1
      BY <1>5, <2>2, AcctRoom DEF AcctInv
    <3>2. Registering
      BY <1>3, <2>2 DEF Registering
    <3>3. other = "idle" /\ Cardinality(Account!Present("passkeys")) < Limit
      BY <3>2 DEF AcctInv, AcctLimit
    <3> QED BY <2>1, <2>2, <3>1, <3>3, AcctPresent DEF AcctInv, Account!ConstantsOK
  <2>3. CASE ~(r.list = "passkeys" /\ r.op = "create")
    <3>1. Account!Present("passkeys")' \subseteq Account!Present("passkeys")
      <4>1. CASE r.list # "passkeys"
        BY <1>7, <4>1 DEF Account!Present
      <4>2. CASE r.list = "passkeys"
        <5>1. items["passkeys"][i] # "gone"
          BY <1>5, <2>3, <4>2
        <5> QED BY <1>7, <4>2, <5>1 DEF Account!Present
      <4> QED BY <4>1, <4>2
    <3>2. Cardinality(Account!Present("passkeys")') <= Cardinality(Account!Present("passkeys")) /\ Cardinality(Account!Present("passkeys")') \in Nat
      <4>1. IsFiniteSet(Account!Present("passkeys"))
        BY AcctPresent DEF AcctInv
      <4> QED BY <3>1, <4>1, FS_Subset, FS_CardinalityType
    <3> QED BY <2>1, <3>2, AcctPresent DEF AcctInv, AcctLimit, Account!ConstantsOK
  <2> QED BY <2>2, <2>3
<1> QED BY <1>4, <1>8, <1>9, <1>10, AcctMovedKeeps DEF AcctInv

(* A handler ends, with its list set or with an error. *)
LEMMA AcctEndKeeps == ASSUME Account!ConstantsOK, AcctInv, NEW r \in reqs, Account!Loaded(r) \/ Account!Fail(r) PROVE AcctInv'
<1>1. AcctShape(r) /\ r \in AcctRequests /\ r.list \in Lists
  BY DEF AcctInv, AcctTypes, AcctShape, AcctRequests
<1>2. /\ reqs' = reqs \ {r} /\ busy' = (IF r.op = "mount" THEN busy ELSE busy \ {r.list})
      /\ items' = items /\ other' = other /\ issued' = issued /\ asking' = asking /\ accepted' = accepted /\ overlap' = overlap
      /\ stale \subseteq stale' /\ stale' \subseteq Lists /\ (Account!Fail(r) => r.list \in stale')
      /\ \A k \in Lists \ {r.list} : list'[k] = list[k]
  BY <1>1 DEF Account!Loaded, Account!Fail, Account!server, Account!history, Account!LoadedList, AcctInv, AcctTypes
<1>3. list' \in [Lists -> [Ids -> Account!States]] /\ (Account!Loaded(r) => r.phase = "served" /\ list'[r.list] = r.seen)
  BY <1>1 DEF Account!Loaded, Account!Fail, Account!LoadedList, AcctInv, AcctTypes, AcctRequests
<1>4. AcctTypes'
  <2>1. overlap' \in BOOLEAN
    BY <1>2 DEF AcctInv, AcctTypes
  <2> QED BY <1>2, <1>3, <2>1 DEF AcctInv, AcctTypes, AcctShape
<1>5. AcctAlone'
  BY <1>2 DEF AcctInv, AcctAlone
<1>6. AcctFresh'
  <2> SUFFICES ASSUME NEW k \in Lists \ stale'
               PROVE  /\ \A p, q \in reqs' : p.list = k /\ q.list = k => p = q
                      /\ \A q \in reqs' : q.list = k /\ q.phase = "served" => q.seen = items[k]
                      /\ (\A q \in reqs' : q.list # k) => list'[k] = items[k]
    BY <1>2 DEF AcctFresh
  <2>1. k \in Lists \ stale
    BY <1>2
  <2>2. CASE k = r.list
    <3>1. Account!Loaded(r)
      BY <1>2, <2>2
    <3> QED BY <1>2, <1>3, <2>1, <2>2, <3>1 DEF AcctInv, AcctFresh
  <2>3. CASE k # r.list
    BY <1>2, <2>1, <2>3 DEF AcctInv, AcctFresh
  <2> QED BY <2>2, <2>3
<1>7. AcctLimit'
  <2>1. Registering' => Registering
    BY <1>2 DEF Registering
  <2>2. Account!Present("passkeys")' = Account!Present("passkeys")
    BY <1>2 DEF Account!Present
  <2> QED BY <1>2, <2>1, <2>2 DEF AcctInv, AcctLimit
<1> QED BY <1>4, <1>5, <1>6, <1>7 DEF AcctInv

(* The other tab. *)
LEMMA AcctOtherKeeps == ASSUME Account!ConstantsOK, AcctInv, Account!OtherVerifies \/ Account!OtherCreates PROVE AcctInv'
<1>1. CASE Account!OtherVerifies
  <2>1. /\ items' = items /\ list' = list /\ busy' = busy /\ reqs' = reqs /\ asking' = asking /\ accepted' = accepted /\ stale' = stale
        /\ other' = "checked" /\ other = "idle" /\ "passkeys" \in Lists /\ issued < MaxRequests /\ issued' = issued + 1
        /\ Cardinality(Account!Present("passkeys")) < Limit
    BY <1>1, AcctCounts DEF Account!OtherVerifies, Account!MayRegister
  <2>2. overlap' = (overlap \/ Registering)
    BY <1>1 DEF Account!OtherVerifies, Registering
  <2>3. AcctTypes'
    <3>1. issued' \in 0 .. MaxRequests
      BY <2>1 DEF AcctInv, AcctTypes, Account!ConstantsOK
    <3>2. overlap' \in BOOLEAN
      BY <2>2 DEF AcctInv, AcctTypes, Registering
    <3> QED BY <2>1, <3>1, <3>2 DEF AcctInv, AcctTypes, AcctShape
  <2>4. AcctAlone' /\ AcctFresh'
    BY <2>1 DEF AcctInv, AcctAlone, AcctFresh
  <2>5. AcctLimit'
    <3>1. Registering' = Registering /\ Account!Present("passkeys")' = Account!Present("passkeys")
      BY <2>1 DEF Registering, Account!Present
    <3> QED BY <2>1, <2>2, <3>1 DEF AcctInv, AcctLimit
  <2> QED BY <2>3, <2>4, <2>5 DEF AcctInv
<1>2. CASE Account!OtherCreates
  <2>1. /\ list' = list /\ busy' = busy /\ reqs' = reqs /\ asking' = asking /\ accepted' = accepted /\ stale' = stale \cup {"passkeys"}
        /\ other' = "idle" /\ other = "checked" /\ issued' = issued /\ overlap' = overlap
    BY <1>2 DEF Account!OtherCreates
  <2>2. PICK i \in Ids \ Account!Present("passkeys") : items' = [items EXCEPT !["passkeys"][i] = "on"]
    BY <1>2 DEF Account!OtherCreates
  <2>3. CASE "passkeys" \notin Lists
    <3>1. FALSE
      BY <2>1, <2>3 DEF AcctInv, AcctTypes
    <3> QED BY <3>1
  <2>4. CASE "passkeys" \in Lists
    <3>1. "on" \in Account!States
      BY DEF Account!States
    <3>2. items' \in [Lists -> [Ids -> Account!States]] /\ \A k \in Lists \ {"passkeys"} : items'[k] = items[k]
      BY <2>2, <2>4, <3>1, AcctItem DEF AcctInv
    <3>3. Cardinality(Account!Present("passkeys")') = Cardinality(Account!Present("passkeys")) + 1
      BY <2>2, <2>4, AcctRoom DEF AcctInv
    <3>4. AcctTypes'
      <4>1. overlap' \in BOOLEAN
        BY <2>1 DEF AcctInv, AcctTypes
      <4> QED BY <2>1, <2>4, <3>2, <4>1 DEF AcctInv, AcctTypes, AcctShape
    <3>5. AcctAlone' /\ AcctFresh'
      BY <2>1, <3>2 DEF AcctInv, AcctAlone, AcctFresh
    <3>6. AcctLimit'
      <4>1. Registering' = Registering
        BY <2>1 DEF Registering
      <4> QED BY <2>1, <2>4, <3>3, <4>1, AcctPresent DEF AcctInv, AcctLimit, Account!ConstantsOK
    <3> QED BY <3>4, <3>5, <3>6 DEF AcctInv
  <2> QED BY <2>3, <2>4
<1> QED BY <1>1, <1>2

LEMMA AcctKeeps == ASSUME Account!ConstantsOK, AcctInv, [Account!Next]_Account!vars PROVE AcctInv'
<1>1. ASSUME NEW l \in Lists PROVE l \in {"passkeys", "ssh", "policies", "locks"}
  BY AcctKinds DEF Account!ConstantsOK
<1>2. ASSUME NEW l \in Lists, Account!Register(l) PROVE AcctInv'
  <2>1. Account!Begin(l, "create", "none", "on", Account!Kind[l].first) /\ l \notin busy /\ asking' = Account!Nothing /\ accepted' = accepted
    BY <1>2 DEF Account!Register, Account!Free
  <2>2. Account!Kind[l].first \in {"options", "send"} /\ (Account!Kind[l].first = "options" <=> l = "passkeys")
    BY <1>1 DEF Account!Kind, Account!Passkeys, Account!SSHPublicKeys, Account!LoginPolicies, Account!LoginLocks
  <2>3. "on" \in Account!States
    BY DEF Account!States
  <2> QED BY <2>1, <2>2, <2>3, AcctBeginKeeps
<1>3. ASSUME NEW l \in Lists, NEW i \in Ids, Account!ToggleLoginPolicy(l, i) PROVE AcctInv'
  <2> DEFINE v == IF list[l][i] = "on" THEN "off" ELSE "on"
  <2>1. Account!Begin(l, "toggle", i, v, "send") /\ l \notin busy /\ asking' = Account!Nothing /\ accepted' = accepted /\ Account!Kind[l].toggles
    BY <1>3 DEF Account!ToggleLoginPolicy, Account!Free
  <2>2. v \in Account!States /\ v # "gone"
    BY DEF Account!States
  <2> HIDE DEF v
  <2> QED BY <2>1, <2>2, AcctBeginKeeps
<1>4. ASSUME NEW l \in Lists, NEW i \in Ids, Account!DeleteAtOnce(l, i) PROVE AcctInv'
  <2>1. Account!Begin(l, "delete", i, "gone", "send") /\ l \notin busy /\ asking' = Account!Nothing /\ accepted' = accepted /\ ~Account!Kind[l].asks
    BY <1>4 DEF Account!DeleteAtOnce, Account!Free
  <2>2. "gone" \in Account!States
    BY DEF Account!States
  <2> QED BY <2>1, <2>2, AcctBeginKeeps
<1>5. ASSUME Account!Accept PROVE AcctInv'
  <2>1. asking \in [list : Lists, id : Ids] /\ asking.list \notin busy
    BY <1>5 DEF Account!Accept, AcctInv, AcctTypes, AcctAlone
  <2>2. /\ Account!Begin(asking.list, "delete", asking.id, "gone", "send") /\ asking' = Account!Nothing /\ accepted' = accepted \cup {asking}
        /\ asking = [list |-> asking.list, id |-> asking.id] /\ asking.list \in Lists /\ asking.id \in Ids
    BY <1>5, <2>1 DEF Account!Accept, Account!Confirmed
  <2>3. "gone" \in Account!States
    BY DEF Account!States
  <2> QED BY <2>1, <2>2, <2>3, AcctBeginKeeps
<1>6. ASSUME NEW l \in Lists, NEW i \in Ids, Account!AskDelete(l, i) PROVE AcctInv'
  <2>1. /\ asking' = [list |-> l, id |-> i] /\ l \notin busy /\ Account!Kind[l].asks
        /\ UNCHANGED <<items, other, list, busy, reqs, issued, accepted, stale, overlap>>
    BY <1>6 DEF Account!AskDelete, Account!Free, Account!server, Account!history
  <2>2. AcctTypes'
    BY <2>1 DEF AcctInv, AcctTypes, AcctShape
  <2>3. AcctAlone' /\ AcctFresh'
    BY <2>1 DEF AcctInv, AcctAlone, AcctFresh
  <2>4. AcctLimit'
    BY <2>1 DEF AcctInv, AcctLimit, Registering, Account!Present
  <2> QED BY <2>2, <2>3, <2>4 DEF AcctInv
<1>7. ASSUME Account!Decline \/ UNCHANGED Account!vars PROVE AcctInv'
  <2>1. /\ asking' \in {asking, Account!Nothing}
        /\ UNCHANGED <<items, other, list, busy, reqs, issued, accepted, stale, overlap>>
    BY <1>7 DEF Account!Decline, Account!vars, Account!server, Account!history
  <2>2. AcctTypes'
    BY <2>1 DEF AcctInv, AcctTypes, AcctShape
  <2>3. AcctAlone' /\ AcctFresh'
    BY <2>1 DEF AcctInv, AcctAlone, AcctFresh
  <2>4. AcctLimit'
    BY <2>1 DEF AcctInv, AcctLimit, Registering, Account!Present
  <2> QED BY <2>2, <2>3, <2>4 DEF AcctInv
<1>8. ASSUME NEW r \in reqs, \/ Account!Options(r) \/ Account!Authenticator(r) \/ Account!Verify(r) \/ Account!Write(r) \/ Account!Serve(r) \/ Account!Loaded(r) \/ Account!Fail(r)
      PROVE AcctInv'
  BY <1>8, AcctWaitKeeps, AcctWriteKeeps, AcctEndKeeps
<1>9. ASSUME Account!OtherVerifies \/ Account!OtherCreates PROVE AcctInv'
  BY <1>9, AcctOtherKeeps
<1> QED BY <1>2, <1>3, <1>4, <1>5, <1>6, <1>7, <1>8, <1>9 DEF Account!Next

LEMMA AcctShows == ASSUME Account!ConstantsOK, AcctInv PROVE Account!TypeOK /\ Account!ListsShowStored /\ Account!BusyIsTrue /\ Account!PasskeyLimitInTurn
<1>1. Account!TypeOK
  BY DEF AcctInv, AcctTypes, AcctShape, AcctRequests, Account!TypeOK
<1>2. Account!ListsShowStored
  BY DEF AcctInv, AcctFresh, Account!ListsShowStored
<1>3. Account!BusyIsTrue
  <2>1. \A r \in reqs : r.list \in Lists
    BY DEF AcctInv, AcctTypes, AcctShape, AcctRequests
  <2>2. \A l : l \in busy <=> l \in {r.list : r \in {q \in reqs : q.op # "mount"}}
    BY <2>1 DEF AcctInv, AcctAlone, AcctTypes
  <2> QED BY <2>2 DEF Account!BusyIsTrue
<1>4. Account!PasskeyLimitInTurn
  BY AcctCounts DEF AcctInv, AcctLimit, Account!PasskeyLimitInTurn
<1> QED BY <1>1, <1>2, <1>3, <1>4

LEMMA AcctConfirmed == ASSUME Account!ConstantsOK, AcctInv, [Account!Next]_Account!vars PROVE Account!OnlyConfirmedGo
<1> SUFFICES ASSUME NEW l \in Lists, NEW i \in Ids, Account!Kind[l].asks, items[l][i] # "gone", items'[l][i] = "gone"
             PROVE  [list |-> l, id |-> i] \in accepted
  BY DEF Account!OnlyConfirmedGo
<1>1. CASE Account!OtherCreates
  <2>1. PICK j \in Ids \ Account!Present("passkeys") : items' = [items EXCEPT !["passkeys"][j] = "on"]
    BY <1>1 DEF Account!OtherCreates
  <2> QED BY <2>1 DEF AcctInv, AcctTypes
<1>2. CASE \E r \in reqs : Account!Write(r)
  <2>1. PICK r \in reqs : Account!Write(r)
    BY <1>2
  <2>2. AcctShape(r) /\ r.list \in Lists
    BY DEF AcctInv, AcctTypes, AcctShape, AcctRequests
  <2>3. CASE r.op = "create"
    <3>1. PICK j \in Ids : items' = [items EXCEPT ![r.list][j] = "on"]
      BY <2>1, <2>3 DEF Account!Write
    <3> QED BY <2>2, <3>1 DEF AcctInv, AcctTypes
  <2>4. CASE r.op # "create"
    <3>1. items' = [items EXCEPT ![r.list] = [items[r.list] EXCEPT ![r.id] = r.to]]
      BY <2>1, <2>4 DEF Account!Write, Account!Written
    <3>2. l = r.list /\ i = r.id /\ r.to = "gone"
      BY <2>2, <3>1 DEF AcctInv, AcctTypes
    <3>3. r.op = "delete"
      BY <2>1, <2>2, <2>4, <3>2 DEF AcctShape, AcctRequests, Account!Write
    <3> QED BY <2>2, <3>2, <3>3 DEF AcctShape
  <2> QED BY <2>3, <2>4
<1>3. CASE items' = items
  BY <1>3
<1> QED BY <1>1, <1>2, <1>3
  DEF Account!Next, Account!vars, Account!server, Account!Decline, Account!Accept, Account!OtherVerifies, Account!Register, Account!ToggleLoginPolicy, Account!AskDelete, Account!DeleteAtOnce,
      Account!Options, Account!Authenticator, Account!Verify, Account!Serve, Account!Loaded, Account!Fail, Account!Begin

LEMMA AcctInvariance == ASSUME Account!ConstantsOK PROVE Account!Spec => []AcctInv
<1>1. Account!Init => AcctInv
  BY AcctInit
<1>2. AcctInv /\ [Account!Next]_Account!vars => AcctInv'
  BY AcctKeeps
<1> QED BY <1>1, <1>2, PTL DEF Account!Spec

(* For any lists, items and requests: a list at rest shows what the server *)
(* stores unless it is stale, its buttons are disabled exactly while a     *)
(* handler runs, and the account has no more passkeys than allowed when    *)
(* tabs take turns (loadPasskeys, registerPasskey,                         *)
(* handlePasskeyRegisterVerify).                                           *)
THEOREM AccountListsAreTrue ==
  ASSUME Account!ConstantsOK PROVE Account!Spec => [](Account!TypeOK /\ Account!ListsShowStored /\ Account!BusyIsTrue /\ Account!PasskeyLimitInTurn)
<1>1. AcctInv => Account!TypeOK /\ Account!ListsShowStored /\ Account!BusyIsTrue /\ Account!PasskeyLimitInTurn
  BY AcctShows
<1> QED BY <1>1, AcctInvariance, PTL

(* A key leaves the server only after its own deletion was confirmed, for  *)
(* any lists that share the confirm dialog (deletePasskey,                 *)
(* deleteSSHPublicKey).                                                    *)
THEOREM OnlyConfirmedKeysGo == ASSUME Account!ConstantsOK PROVE Account!Spec => [][Account!OnlyConfirmedGo]_Account!vars
<1>1. AcctInv /\ [Account!Next]_Account!vars => Account!OnlyConfirmedGo
  BY AcctConfirmed
<1> QED BY <1>1, AcctInvariance, PTL DEF Account!Spec

-----------------------------------------------------------------------------
(***************************************************************************)
(* The MFA panel.                                                          *)
(***************************************************************************)

(* What a request can be at, by its operation. *)
MfaShapes ==
  \A r \in reqs :
    /\ r.op = "mount" => r.phase \in {"status", "served"}
    /\ r.op = "setup" => r.phase \in {"sent", "done"}

(* There is one handler at most and the busy flag says whether there is    *)
(* one; while nothing was disturbed there is one request at most.          *)
MfaAlone ==
  /\ \A r, q \in reqs : r.op # "mount" /\ q.op # "mount" => r = q
  /\ busy = (\E r \in reqs : r.op # "mount")
  /\ ~disturbed => \A r, q \in reqs : r = q

(* What is on display is the server's. *)
MfaCurrent ==
  /\ shown # 0 => on /\ shown = codes
  /\ status # "unknown" => (status = "on") = on

(* How far an undisturbed handler has come: what it has made is what the   *)
(* server has, and what it has been told of the status is true.            *)
MfaHandler(r) ==
  /\ r.op \in {"mount", "setup"} \/ r.phase = "sent" => MfaCurrent
  /\ r.phase = "served" => r.on = on
  /\ r.op = "enable" /\ r.phase # "sent" => on /\ r.new = codes
  /\ r.op = "disable" /\ r.phase # "sent" => ~on /\ (r.phase # "done" => shown = 0)
  /\ r.op = "regenerate" /\ r.phase # "sent" => on /\ r.new = codes /\ (r.phase # "done" => shown = codes)

MfaTrue == ~disturbed => (reqs = {} => MfaCurrent) /\ \A r \in reqs : MfaHandler(r)

MfaInv == Mfa!TypeOK /\ disturbed \in BOOLEAN /\ MfaShapes /\ MfaAlone /\ MfaTrue

MfaRequests(n) == [op : Mfa!Ops, phase : {"sent", "done", "status", "served"}, new : 0 .. n, on : BOOLEAN]

LEMMA MfaInit == ASSUME Mfa!ConstantsOK, Mfa!Init PROVE MfaInv
<1> DEFINE m == [op |-> "mount", phase |-> "status", new |-> 0, on |-> FALSE]
<1>1. codes \in Nat /\ 0 \in 0 .. codes /\ issued \in 0 .. MaxRequests
  BY DEF Mfa!Init, Mfa!ConstantsOK
<1>2. m \in MfaRequests(codes) /\ m.op = "mount" /\ m.phase = "status" /\ reqs = {m}
  BY <1>1 DEF Mfa!Init, MfaRequests, Mfa!Ops
<1> HIDE DEF m
<1>3. on \in BOOLEAN /\ setup \in BOOLEAN /\ code \in BOOLEAN /\ busy \in BOOLEAN /\ disturbed \in BOOLEAN
  BY DEF Mfa!Init
<1>4. Mfa!TypeOK
  BY <1>1, <1>2, <1>3 DEF Mfa!Init, Mfa!TypeOK, MfaRequests
<1>5. MfaShapes /\ MfaAlone
  BY <1>2 DEF Mfa!Init, MfaShapes, MfaAlone
<1>6. MfaTrue
  BY <1>2 DEF Mfa!Init, MfaTrue, MfaHandler, MfaCurrent
<1> QED BY <1>3, <1>4, <1>5, <1>6 DEF MfaInv

LEMMA MfaSendKeeps ==
  ASSUME Mfa!ConstantsOK, MfaInv, NEW op \in {"setup", "enable", "disable", "regenerate"}, Mfa!Send(op)
  PROVE  MfaInv'
<1> DEFINE m == [op |-> op, phase |-> "sent", new |-> 0, on |-> FALSE]
<1>1. codes \in Nat /\ 0 \in 0 .. codes
  BY DEF MfaInv, Mfa!TypeOK
<1>2. m \in MfaRequests(codes) /\ m.op = op /\ m.phase = "sent"
  BY <1>1 DEF MfaRequests, Mfa!Ops
<1>3. /\ reqs' = reqs \cup {m} /\ ~busy /\ busy' = TRUE /\ issued < MaxRequests /\ issued' = issued + 1
      /\ UNCHANGED <<on, codes, status, setup, code, shown>> /\ disturbed' = (disturbed \/ reqs # {})
  BY DEF Mfa!Send, Mfa!server, Mfa!page
<1> HIDE DEF m
<1>4. issued' \in 0 .. MaxRequests
  BY <1>3 DEF MfaInv, Mfa!TypeOK, Mfa!ConstantsOK
<1>5. disturbed' \in BOOLEAN /\ busy' \in BOOLEAN
  BY <1>3 DEF MfaInv
<1>6. Mfa!TypeOK'
  BY <1>2, <1>3, <1>4, <1>5 DEF MfaInv, Mfa!TypeOK, MfaRequests
<1>7. MfaShapes'
  BY <1>2, <1>3 DEF MfaInv, MfaShapes
<1>8. \A r \in reqs : r.op = "mount"
  BY <1>3 DEF MfaInv, MfaAlone
<1>9. MfaAlone'
  BY <1>2, <1>3, <1>8 DEF MfaAlone
<1>10. MfaTrue'
  <2> SUFFICES ASSUME ~disturbed' PROVE \A r \in reqs' : MfaHandler(r)'
    BY <1>3 DEF MfaTrue
  <2>1. reqs = {} /\ ~disturbed /\ reqs' = {m}
    BY <1>3
  <2>2. MfaCurrent'
    BY <1>3, <2>1 DEF MfaInv, MfaTrue, MfaCurrent
  <2> QED BY <1>2, <2>1, <2>2 DEF MfaHandler
<1> QED BY <1>5, <1>6, <1>7, <1>9, <1>10 DEF MfaInv

(* The steps that touch no request. *)
LEMMA MfaQuietKeeps ==
  ASSUME Mfa!ConstantsOK, MfaInv, Mfa!TypeCode \/ Mfa!CancelSetup \/ UNCHANGED Mfa!vars
  PROVE  MfaInv'
<1>1. UNCHANGED <<on, codes, status, shown, busy, reqs, issued, disturbed>> 
  BY DEF Mfa!TypeCode, Mfa!CancelSetup, Mfa!vars, Mfa!server, Mfa!page, Mfa!history
<1>2. setup' \in BOOLEAN /\ code' \in BOOLEAN
  BY DEF Mfa!TypeCode, Mfa!CancelSetup, Mfa!vars, Mfa!page, MfaInv, Mfa!TypeOK
<1>3. Mfa!TypeOK' /\ disturbed' \in BOOLEAN
  BY <1>1, <1>2 DEF MfaInv, Mfa!TypeOK
<1>4. MfaShapes' /\ MfaAlone'
  BY <1>1 DEF MfaInv, MfaShapes, MfaAlone
<1>5. MfaTrue'
  BY <1>1 DEF MfaInv, MfaTrue, MfaHandler, MfaCurrent
<1> QED BY <1>3, <1>4, <1>5 DEF MfaInv

LEMMA MfaOtherKeeps == ASSUME Mfa!ConstantsOK, MfaInv, Mfa!OtherTab PROVE MfaInv'
<1>1. UNCHANGED <<status, setup, code, shown, busy, reqs>> /\ disturbed' = TRUE /\ issued < MaxRequests /\ issued' = issued + 1
  BY DEF Mfa!OtherTab, Mfa!page
<1>2. on' \in BOOLEAN
  BY DEF Mfa!OtherTab, MfaInv, Mfa!TypeOK
<1>3. codes' \in Nat /\ codes <= codes' /\ issued' \in 0 .. MaxRequests
  <2>1. codes' = codes \/ codes' = codes + 1
    BY DEF Mfa!OtherTab
  <2>2. codes \in Nat /\ issued \in 0 .. MaxRequests
    BY DEF MfaInv, Mfa!TypeOK
  <2> QED BY <1>1, <2>1, <2>2 DEF Mfa!ConstantsOK
<1>4. 0 .. codes \subseteq 0 .. codes'
  BY <1>3 DEF MfaInv, Mfa!TypeOK
<1>5. Mfa!TypeOK'
  BY <1>1, <1>2, <1>3, <1>4 DEF MfaInv, Mfa!TypeOK
<1>6. MfaShapes' /\ MfaAlone' /\ MfaTrue' /\ disturbed' \in BOOLEAN
  BY <1>1 DEF MfaInv, MfaShapes, MfaAlone, MfaTrue
<1> QED BY <1>5, <1>6 DEF MfaInv

(* A request goes on to another phase. *)
MfaMoved(r, m) ==
  /\ reqs' = (reqs \ {r}) \cup {m} /\ m.op = r.op /\ UNCHANGED <<busy, issued, disturbed, status>>

LEMMA MfaMovedKeeps ==
  ASSUME MfaInv, NEW r \in reqs, NEW m, MfaMoved(r, m),
         m.op = "mount" => m.phase \in {"status", "served"}, m.op = "setup" => m.phase \in {"sent", "done"}
  PROVE  /\ MfaShapes' /\ MfaAlone' /\ disturbed' \in BOOLEAN
         /\ ~disturbed' => reqs = {r} /\ reqs' = {m} /\ MfaHandler(r)
<1>1. MfaShapes'
  BY DEF MfaInv, MfaShapes, MfaMoved
<1>2. MfaAlone'
  BY DEF MfaInv, MfaAlone, MfaMoved
<1>3. ~disturbed' => reqs = {r} /\ reqs' = {m} /\ MfaHandler(r)
  BY DEF MfaInv, MfaAlone, MfaMoved, MfaTrue
<1>4. disturbed' \in BOOLEAN
  BY DEF MfaInv, MfaMoved
<1> QED BY <1>1, <1>2, <1>3, <1>4

LEMMA MfaServeKeeps == ASSUME Mfa!ConstantsOK, MfaInv, NEW r \in reqs, Mfa!Serve(r) PROVE MfaInv'
<1>1. r \in MfaRequests(codes)
  BY DEF MfaInv, Mfa!TypeOK, MfaRequests
<1>2. codes' \in Nat /\ codes <= codes'
  BY DEF Mfa!Serve, MfaInv, Mfa!TypeOK
<1>3. 0 .. codes \subseteq 0 .. codes' /\ codes' \in 0 .. codes' /\ 0 \in 0 .. codes'
  BY <1>2 DEF MfaInv, Mfa!TypeOK
<1>4. on' \in BOOLEAN
  BY DEF Mfa!Serve, MfaInv, Mfa!TypeOK
<1>5. PICK m : m = [r EXCEPT !.phase = "done", !.new = IF r.op \in {"enable", "regenerate"} THEN codes' ELSE 0]
  OBVIOUS
<1>6. reqs' = (reqs \ {r}) \cup {m} /\ r.phase = "sent" /\ UNCHANGED <<status, setup, code, shown, busy, issued, disturbed>>
  BY <1>5 DEF Mfa!Serve, Mfa!page, Mfa!history
<1>11. m \in MfaRequests(codes') /\ m.op = r.op /\ m.phase = "done" /\ (r.op \in {"enable", "regenerate"} => m.new = codes')
  BY <1>1, <1>3, <1>5 DEF MfaRequests
<1>7. MfaMoved(r, m) /\ r.op # "mount"
  BY <1>11, <1>6 DEF MfaMoved, MfaInv, MfaShapes
<1>8. Mfa!TypeOK'
  <2>1. reqs' \subseteq MfaRequests(codes')
    BY <1>3, <1>11, <1>6 DEF MfaInv, Mfa!TypeOK, MfaRequests
  <2> QED BY <1>2, <1>3, <1>4, <1>6, <2>1 DEF MfaInv, Mfa!TypeOK, MfaRequests
<1>9. /\ MfaShapes' /\ MfaAlone' /\ disturbed' \in BOOLEAN /\ (~disturbed' => reqs = {r} /\ reqs' = {m} /\ MfaHandler(r))
  BY <1>11, <1>7, MfaMovedKeeps
<1>10. MfaTrue'
  <2> SUFFICES ASSUME ~disturbed' PROVE MfaHandler(m)'
    BY <1>9 DEF MfaTrue
  <2>1. MfaCurrent
    BY <1>6, <1>9 DEF MfaHandler
  <2>2. CASE r.op = "setup"
    <3>1. on' = on /\ codes' = codes
      BY <2>2 DEF Mfa!Serve
    <3> QED BY <1>11, <1>6, <2>1, <2>2, <3>1 DEF MfaHandler, MfaCurrent
  <2>3. CASE r.op \in {"enable", "disable", "regenerate"}
    <3>1. (r.op = "enable" => on') /\ (r.op = "disable" => ~on') /\ (r.op = "regenerate" => on')
      BY <2>3 DEF Mfa!Serve
    <3> QED BY <1>11, <2>3, <3>1 DEF MfaHandler
  <2> QED BY <1>1, <1>7, <2>2, <2>3 DEF MfaRequests, Mfa!Ops
<1> QED BY <1>8, <1>9, <1>10 DEF MfaInv

LEMMA MfaStatusKeeps == ASSUME Mfa!ConstantsOK, MfaInv, NEW r \in reqs, Mfa!ServeStatus(r) PROVE MfaInv'
<1>1. r \in MfaRequests(codes) /\ on \in BOOLEAN
  BY DEF MfaInv, Mfa!TypeOK, MfaRequests
<1> DEFINE m == [r EXCEPT !.phase = "served", !.on = on]
<1>2. m \in MfaRequests(codes) /\ m.op = r.op /\ m.phase = "served" /\ m.new = r.new /\ m.on = on
  BY <1>1 DEF MfaRequests
<1>3. reqs' = (reqs \ {r}) \cup {m} /\ r.phase = "status" /\ UNCHANGED <<on, codes, status, setup, code, shown, busy, issued, disturbed>>
  BY DEF Mfa!ServeStatus, Mfa!server, Mfa!page, Mfa!history
<1> HIDE DEF m
<1>4. MfaMoved(r, m) /\ r.op # "setup"
  BY <1>2, <1>3 DEF MfaMoved, MfaInv, MfaShapes
<1>5. Mfa!TypeOK'
  BY <1>2, <1>3 DEF MfaInv, Mfa!TypeOK, MfaRequests
<1>6. /\ MfaShapes' /\ MfaAlone' /\ disturbed' \in BOOLEAN /\ (~disturbed' => reqs = {r} /\ reqs' = {m} /\ MfaHandler(r))
  BY <1>2, <1>4, MfaMovedKeeps
<1>7. MfaTrue'
  BY <1>2, <1>3, <1>6 DEF MfaTrue, MfaHandler, MfaCurrent
<1> QED BY <1>5, <1>6, <1>7 DEF MfaInv

LEMMA MfaAnsweredKeeps == ASSUME Mfa!ConstantsOK, MfaInv, NEW r \in reqs, Mfa!Answered(r) PROVE MfaInv'
<1>1. r \in MfaRequests(codes)
  BY DEF MfaInv, Mfa!TypeOK, MfaRequests
<1> DEFINE m == [r EXCEPT !.phase = "status"]
<1>2. m \in MfaRequests(codes) /\ m.op = r.op /\ m.phase = "status" /\ m.new = r.new
  BY <1>1 DEF MfaRequests
<1>3. /\ reqs' = (reqs \ {r}) \cup {m} /\ r.phase = "done" /\ r.op \in {"enable", "disable", "regenerate"}
      /\ UNCHANGED <<on, codes, status, busy, issued, disturbed>> /\ code' = FALSE /\ shown' = Mfa!CodesAfterAnswer(r)
  BY DEF Mfa!Answered, Mfa!server, Mfa!To
<1>4. setup' \in BOOLEAN
  BY DEF Mfa!Answered, MfaInv, Mfa!TypeOK
<1> HIDE DEF m
<1>5. MfaMoved(r, m)
  BY <1>2, <1>3 DEF MfaMoved
<1>6. /\ r.op = "disable" => shown' = 0
      /\ r.op = "regenerate" => shown' = r.new
      /\ r.op = "enable" => shown' = shown
  BY <1>3 DEF Mfa!CodesAfterAnswer
<1>7. shown' \in 0 .. codes
  BY <1>1, <1>3, <1>6 DEF MfaInv, Mfa!TypeOK, MfaRequests
<1>8. Mfa!TypeOK'
  BY <1>2, <1>3, <1>4, <1>7 DEF MfaInv, Mfa!TypeOK, MfaRequests
<1>9. /\ MfaShapes' /\ MfaAlone' /\ disturbed' \in BOOLEAN /\ (~disturbed' => reqs = {r} /\ reqs' = {m} /\ MfaHandler(r))
  BY <1>2, <1>3, <1>5, MfaMovedKeeps
<1>10. MfaTrue'
  BY <1>2, <1>3, <1>6, <1>9 DEF MfaTrue, MfaHandler
<1> QED BY <1>8, <1>9, <1>10 DEF MfaInv

(* A handler ends. *)
LEMMA MfaEndKeeps == ASSUME Mfa!ConstantsOK, MfaInv, NEW r \in reqs, Mfa!SetupStarted(r) \/ Mfa!StatusLoaded(r) \/ Mfa!Fail(r) PROVE MfaInv'
<1>1. r \in MfaRequests(codes)
  BY DEF MfaInv, Mfa!TypeOK, MfaRequests
<1>2. /\ reqs' = reqs \ {r} /\ busy' = (busy /\ r.op = "mount") /\ UNCHANGED <<on, codes, issued>>
      /\ (disturbed => disturbed') /\ (Mfa!Fail(r) => disturbed')
  <2>1. CASE Mfa!SetupStarted(r)
    <3>1. reqs' = reqs \ {r} /\ busy' = FALSE /\ r.op = "setup" /\ UNCHANGED <<on, codes, issued, disturbed>>
      BY <2>1 DEF Mfa!SetupStarted, Mfa!server, Mfa!history
    <3>2. ~Mfa!Fail(r) \/ disturbed'
      BY DEF Mfa!Fail
    <3> QED BY <3>1, <3>2
  <2>2. CASE Mfa!StatusLoaded(r)
    <3>1. ~Mfa!Fail(r) \/ disturbed'
      BY DEF Mfa!Fail
    <3> QED BY <2>2, <3>1 DEF Mfa!StatusLoaded, Mfa!server
  <2>3. CASE Mfa!Fail(r)
    BY <2>3 DEF Mfa!Fail, Mfa!server
  <2> QED BY <2>1, <2>2, <2>3
<1>3. setup' \in BOOLEAN /\ code' \in BOOLEAN /\ busy' \in BOOLEAN /\ disturbed' \in BOOLEAN
  BY DEF Mfa!SetupStarted, Mfa!StatusLoaded, Mfa!Fail, Mfa!page, Mfa!history, MfaInv, Mfa!TypeOK
<1>4. status' \in {"unknown", "on", "off"} /\ shown' \in 0 .. codes
  BY <1>1 DEF Mfa!SetupStarted, Mfa!StatusLoaded, Mfa!Fail, Mfa!page, Mfa!NewStatus, Mfa!CodesAtEnd, MfaInv, Mfa!TypeOK, MfaRequests
<1>5. Mfa!TypeOK'
  BY <1>2, <1>3, <1>4 DEF MfaInv, Mfa!TypeOK
<1>6. MfaShapes' /\ MfaAlone'
  BY <1>2 DEF MfaInv, MfaShapes, MfaAlone
<1>7. MfaTrue'
  <2> SUFFICES ASSUME ~disturbed' PROVE reqs' = {} /\ MfaCurrent'
    BY DEF MfaTrue
  <2>1. ~disturbed /\ ~Mfa!Fail(r) /\ reqs = {r} /\ MfaHandler(r)
    BY <1>2 DEF MfaInv, MfaAlone, MfaTrue
  <2>2. CASE Mfa!SetupStarted(r)
    <3>1. MfaCurrent /\ UNCHANGED <<on, codes, status, shown>>
      BY <2>1, <2>2 DEF Mfa!SetupStarted, MfaHandler, Mfa!server
    <3> QED BY <1>2, <2>1, <3>1 DEF MfaCurrent
  <2>3. CASE Mfa!StatusLoaded(r)
    <3>1. r.phase = "served" /\ status' = (IF r.on THEN "on" ELSE "off") /\ shown' = (IF r.op = "enable" THEN r.new ELSE shown)
      BY <2>3 DEF Mfa!StatusLoaded, Mfa!NewStatus, Mfa!CodesAtEnd
    <3>2. r.op \in {"mount", "enable", "disable", "regenerate"} /\ r.on = on /\ on \in BOOLEAN
      BY <1>1, <2>1, <3>1 DEF MfaRequests, Mfa!Ops, MfaInv, MfaShapes, MfaHandler, Mfa!TypeOK
    <3>3. (status' = "on") = on'
      BY <1>2, <3>1, <3>2
    <3>4. shown' # 0 => on /\ shown' = codes
      BY <2>1, <3>1, <3>2 DEF MfaHandler, MfaCurrent
    <3> QED BY <1>2, <2>1, <3>3, <3>4 DEF MfaCurrent
  <2> QED BY <2>1, <2>2, <2>3
<1> QED BY <1>3, <1>5, <1>6, <1>7 DEF MfaInv

LEMMA MfaKeeps == ASSUME Mfa!ConstantsOK, MfaInv, [Mfa!Next]_Mfa!vars PROVE MfaInv'
<1>1. ASSUME Mfa!StartMFASetup \/ Mfa!EnableMFA \/ Mfa!DisableMFA \/ Mfa!RegenerateMFARecoveryCodes PROVE MfaInv'
  <2>1. \E op \in {"setup", "enable", "disable", "regenerate"} : Mfa!Send(op)
    BY <1>1 DEF Mfa!StartMFASetup, Mfa!EnableMFA, Mfa!DisableMFA, Mfa!RegenerateMFARecoveryCodes
  <2> QED BY <2>1, MfaSendKeeps
<1>2. ASSUME NEW r \in reqs, Mfa!Serve(r) \/ Mfa!ServeStatus(r) \/ Mfa!SetupStarted(r) \/ Mfa!Answered(r) \/ Mfa!StatusLoaded(r) \/ Mfa!Fail(r) PROVE MfaInv'
  BY <1>2, MfaServeKeeps, MfaStatusKeeps, MfaAnsweredKeeps, MfaEndKeeps
<1> QED BY <1>1, <1>2, MfaQuietKeeps, MfaOtherKeeps DEF Mfa!Next

LEMMA MfaShows == ASSUME MfaInv PROVE Mfa!TypeOK /\ Mfa!ShownCodesWork /\ Mfa!StatusIsStored
<1>1. Mfa!TypeOK
  BY DEF MfaInv
<1>2. ASSUME Mfa!AtRest, ~disturbed PROVE MfaCurrent
  <2>1. CASE reqs = {}
    BY <1>2, <2>1 DEF MfaInv, MfaTrue
  <2>2. CASE reqs # {}
    BY <1>2, <2>2 DEF MfaInv, MfaTrue, MfaHandler, Mfa!AtRest
  <2> QED BY <2>1, <2>2
<1> QED BY <1>1, <1>2 DEF MfaCurrent, Mfa!ShownCodesWork, Mfa!StatusIsStored

LEMMA MfaInvariance == ASSUME Mfa!ConstantsOK PROVE Mfa!Spec => []MfaInv
<1>1. Mfa!Init => MfaInv
  BY MfaInit
<1>2. MfaInv /\ [Mfa!Next]_Mfa!vars => MfaInv'
  BY MfaKeeps
<1> QED BY <1>1, <1>2, PTL DEF Mfa!Spec

(* For any number of requests: recovery codes on display are the ones that *)
(* work and the panel shows the server's status, once it is at rest and    *)
(* nothing failed, overlapped or was done in another tab (enableMFA,       *)
(* disableMFA, regenerateMFARecoveryCodes, loadMFAStatus).                 *)
THEOREM MfaPanelIsTrue == ASSUME Mfa!ConstantsOK PROVE Mfa!Spec => [](Mfa!TypeOK /\ Mfa!ShownCodesWork /\ Mfa!StatusIsStored)
<1>1. MfaInv => Mfa!TypeOK /\ Mfa!ShownCodesWork /\ Mfa!StatusIsStored
  BY MfaShows
<1> QED BY <1>1, MfaInvariance, PTL

-----------------------------------------------------------------------------
(***************************************************************************)
(* The rows of a collection and their record form.                         *)
(***************************************************************************)

(* The phases in which the handler holds a copy of a record. *)
Working == {"read", "wrote", "done"}

RecRequests ==
  [n : Nat, by : {"page", "other"}, op : {"create", "update", "delete"}, id : Ids \cup {"none"}, form : Records!Forms,
   todo : SUBSET Ids, of : SUBSET Ids, phase : Records!Phases, previous : Records!Records \cup {Records!Gone}]

RecWish(f) == ~(f.clear /\ f.typed # "") /\ (f.type = "public" => ~f.clear /\ f.typed = "")

(* What a record holds once the form was saved in it. *)
RecMatches(item, f) ==
  /\ item.type = f.type /\ (f.text # "" => item.text = f.text)
  /\ f.typed # "" => item.secret = f.typed
  /\ (f.clear \/ f.type = "public") => item.secret = "none"

(* What a request can be at, by its operation: a deletion works on records *)
(* that were asked about, and what it read was there.                      *)
RecShape(r) ==
  /\ r \in RecRequests /\ r.todo \subseteq r.of /\ RecWish(r.form)
  /\ r.phase \in Working => r.id \in Ids
  /\ r.op = "update" => r.id \in Ids
  /\ r.op = "delete" => r.of \subseteq doomed /\ (r.phase \in Working => r.id \in r.todo)
  /\ r.op # "delete" => r.of = {}
  /\ r.op = "create" => r.phase # "read"
  /\ r.by = "other" => r.phase \in {"send", "read", "wrote", "failed"}
  /\ r.phase = "read" \/ (r.phase = "wrote" /\ r.op # "create") => r.previous \in Records!Records

RecTypes ==
  /\ stored \in [Ids -> Records!Records \cup {Records!Gone}] /\ rows \in [Ids -> Records!Records \cup {Records!Gone}]
  /\ fetch \in [phase : {"none", "asked", "served"}, seen : [Ids -> Records!Records \cup {Records!Gone}]]
  /\ asking \subseteq Ids
  /\ dialog \in [open : BOOLEAN, editing : Ids \cup {"none"}] /\ form \in Records!Forms
  /\ issued \in 0 .. MaxRequests
  /\ announced \subseteq Ids
  /\ saved \in {Records!Unsaved} \cup [id : Ids, form : Records!Forms]
  /\ \A r \in reqs : RecShape(r)

(* Booleans apart. *)
RecFlags == saving \in BOOLEAN /\ behind \in BOOLEAN

(* The record that a handler works on alone is as it has left it. *)
RecFit(r) ==
  r.phase \in Working /\ r.id \notin raced =>
    /\ r.phase = "read" => stored[r.id] = r.previous
    /\ r.phase # "read" /\ r.op = "delete" => stored[r.id] = Records!Gone
    /\ r.phase # "read" /\ r.op # "delete" => RecMatches(stored[r.id], r.form)

RecFits == \A r \in reqs : RecFit(r)

RecPairs == \A q, r \in reqs : q.phase \in Working /\ r.phase \in Working /\ q.id = r.id /\ r.id \notin raced => q = r

(* The page has one save under way, and saving says so. *)
RecSave(r) == r.by = "page" /\ r.op # "delete"

RecSaves ==
  /\ saving <=> \E r \in reqs : RecSave(r)
  /\ \A q, r \in reqs : RecSave(q) /\ RecSave(r) => q = r

(* The page, or a deletion that goes on, is done with the record: it is    *)
(* gone, and nobody works on it.                                           *)
Over(i) == i \in announced \/ \E r \in reqs : i \in r.of \ r.todo

RecGone ==
  \A i \in Ids \ raced : Over(i) =>
    /\ stored[i] = Records!Gone /\ i \in doomed
    /\ \A q \in reqs : q.phase \in Working => q.id # i

(* A request of the page has written the record and has yet to load the    *)
(* rows.                                                                   *)
Owes(r, i) ==
  /\ r.by = "page"
  /\ \/ r.phase \in {"wrote", "done", "refresh"} /\ r.id = i
     \/ r.phase # "fetching" /\ i \in r.of \ r.todo

Owed(i) == \E r \in reqs : Owes(r, i)

(* What the page shows, or is about to show, is what is stored, but for    *)
(* the records it will load again.                                         *)
RecRows ==
  ~behind =>
    /\ fetch.phase = "none" => \A i \in Ids : rows[i] = stored[i] \/ Owed(i)
    /\ fetch.phase = "served" => \A i \in Ids : fetch.seen[i] = stored[i] \/ Owed(i)

RecSaved == saved # Records!Unsaved => RecMatches(stored[saved.id], saved.form)

RecShown == RecWish(form) /\ selected \subseteq Records!Present(rows)

RecInv ==
  RecTypes /\ RecFlags /\ RecFits /\ RecPairs /\ RecSaves /\ RecGone /\ RecRows /\ RecSaved /\ RecShown

(***************************************************************************)
(* Values                                                                  *)
(***************************************************************************)

LEMMA RecBlank == ASSUME Records!ConstantsOK PROVE Records!Blank \in Records!Forms /\ RecWish(Records!Blank)
  BY DEF Records!ConstantsOK, Records!Blank, Records!Forms, RecWish

LEMMA RecNotGone == ASSUME Records!ConstantsOK, NEW x \in Records!Records PROVE x # Records!Gone /\ x.type \in Types /\ Records!Gone.type \notin Types
<1>1. "gone" \notin Types
  BY DEF Records!ConstantsOK
<1>2. x.type \in Types
  BY DEF Records!Records
<1>3. Records!Gone.type = "gone"
  BY DEF Records!Gone
<1> QED BY <1>1, <1>2, <1>3

LEMMA RecUpdated ==
  ASSUME Records!ConstantsOK, NEW old \in Records!Records, NEW f \in Records!Forms, RecWish(f)
  PROVE  Records!UpdatedRecord(old, f) \in Records!Records /\ RecMatches(Records!UpdatedRecord(old, f), f)
<1>1. Records!NewSecret(old.secret, f) \in {"none"} \cup Secrets
  BY DEF Records!NewSecret, Records!Forms, Records!Records
<1>2. Records!UpdatedRecord(old, f) \in Records!Records
  BY <1>1 DEF Records!UpdatedRecord, Records!Forms, Records!Records
<1>3. /\ Records!UpdatedRecord(old, f).type = f.type /\ Records!UpdatedRecord(old, f).secret = Records!NewSecret(old.secret, f)
      /\ f.text # "" => Records!UpdatedRecord(old, f).text = f.text
  BY DEF Records!UpdatedRecord
<1>4. /\ f.typed # "" => Records!NewSecret(old.secret, f) = f.typed
      /\ (f.clear \/ f.type = "public") => Records!NewSecret(old.secret, f) = "none"
  BY DEF Records!NewSecret, RecWish
<1> QED BY <1>2, <1>3, <1>4 DEF RecMatches

LEMMA RecCreated ==
  ASSUME Records!ConstantsOK, NEW f \in Records!Forms, RecWish(f),
         NEW x, x = [text |-> f.text, type |-> f.type, secret |-> Records!NewSecret("none", f)]
  PROVE  x \in Records!Records /\ RecMatches(x, f)
<1>1. Records!NewSecret("none", f) \in {"none"} \cup Secrets
  BY DEF Records!NewSecret, Records!Forms
<1>2. x \in Records!Records
  BY <1>1 DEF Records!Forms, Records!Records
<1>3. x.type = f.type /\ x.secret = Records!NewSecret("none", f) /\ x.text = f.text
  OBVIOUS
<1>4. /\ f.typed # "" => Records!NewSecret("none", f) = f.typed
      /\ (f.clear \/ f.type = "public") => Records!NewSecret("none", f) = "none"
  BY DEF Records!NewSecret, RecWish
<1> QED BY <1>2, <1>3, <1>4 DEF RecMatches

LEMMA RecInit == ASSUME Records!ConstantsOK, Records!Init PROVE RecInv
<1>1. stored \in [Ids -> Records!Records \cup {Records!Gone}]
  <2>1. "confidential" \in Types
    BY DEF Records!ConstantsOK
  <2>2. [text : Texts \ {""}, type : {"confidential"}, secret : {"none"} \cup Secrets] \subseteq Records!Records
    BY <2>1 DEF Records!Records
  <2> QED BY <2>2 DEF Records!Init
<1>2. fetch \in [phase : {"none", "asked", "served"}, seen : [Ids -> Records!Records \cup {Records!Gone}]] /\ fetch.phase = "none"
  BY DEF Records!Init, Records!NoFetch
<1>3. dialog \in [open : BOOLEAN, editing : Ids \cup {"none"}]
  BY DEF Records!Init, Records!Closed
<1>4. 0 \in 0 .. MaxRequests
  <2>1. MaxRequests \in Nat
    BY DEF Records!ConstantsOK
  <2> QED BY <2>1
<1>5. RecTypes
  BY <1>1, <1>2, <1>3, <1>4, RecBlank DEF Records!Init, RecTypes
<1>6. RecFlags
  BY DEF Records!Init, RecFlags
<1>7. RecFits /\ RecPairs /\ RecGone /\ RecSaved
  BY DEF Records!Init, RecFits, RecPairs, RecGone, Over, RecSaved
<1>8. RecSaves
  BY DEF Records!Init, RecSaves
<1>9. RecRows
  BY <1>2 DEF Records!Init, RecRows
<1>10. RecShown
  BY RecBlank DEF Records!Init, RecShown
<1> QED BY <1>5, <1>6, <1>7, <1>8, <1>9, <1>10 DEF RecInv

(* The page alone: its form, its selection and its question. *)
LEMMA RecQuiet ==
  ASSUME RecInv, UNCHANGED <<Records!server, rows, fetch, saving, reqs, Records!history>>,
         dialog' \in [open : BOOLEAN, editing : Ids \cup {"none"}], form' \in Records!Forms, RecWish(form'),
         asking' \subseteq Ids, selected' \subseteq Records!Present(rows)
  PROVE  RecInv'
<1>1. UNCHANGED <<stored, issued, rows, fetch, saving, reqs, doomed, announced, saved, behind, raced>>
  BY DEF Records!server, Records!history
<1>2. RecTypes'
  BY <1>1 DEF RecInv, RecTypes, RecShape
<1>3. RecFlags'
  BY <1>1 DEF RecInv, RecFlags
<1>4. RecFits' /\ RecPairs' /\ RecGone' /\ RecSaved'
  BY <1>1 DEF RecInv, RecFits, RecFit, RecPairs, RecGone, Over, RecSaved
<1>5. RecSaves'
  BY <1>1 DEF RecInv, RecSaves
<1>6. RecRows'
  BY <1>1 DEF RecInv, RecRows, Owed
<1>7. RecShown'
  BY <1>1 DEF RecShown, Records!Present
<1> QED BY <1>2, <1>3, <1>4, <1>5, <1>6, <1>7 DEF RecInv

(* A request more, which has yet to reach the server. *)
LEMMA RecNew ==
  ASSUME Records!ConstantsOK, RecInv, NEW m, reqs' = reqs \cup {m}, RecShape(m)', m.phase = "send", m.of = m.todo,
         issued < MaxRequests, issued' = issued + 1, doomed \subseteq doomed', asking' \subseteq Ids,
         UNCHANGED <<stored, rows, fetch, selected, dialog, form, announced, saved, behind, raced>>,
         \/ RecSave(m) /\ ~saving /\ saving' = TRUE
         \/ ~RecSave(m) /\ saving' = saving
  PROVE  RecInv'
<1>1. RecTypes'
  <2>1. issued' \in 0 .. MaxRequests
    <3>1. MaxRequests \in Nat /\ issued \in 0 .. MaxRequests
      BY DEF RecInv, RecTypes, Records!ConstantsOK
    <3> QED BY <3>1
  <2>2. \A r \in reqs : RecShape(r)'
    BY DEF RecInv, RecTypes, RecShape
  <2> QED BY <2>1, <2>2 DEF RecInv, RecTypes
<1>2. RecFlags'
  BY DEF RecInv, RecFlags
<1>3. RecFits' /\ RecPairs' /\ RecSaved'
  BY DEF RecInv, RecFits, RecFit, RecPairs, RecSaved, Working
<1>4. RecGone'
  <2>1. \A i : Over(i)' => Over(i)
    BY DEF Over
  <2> QED BY <2>1 DEF RecInv, RecGone, Working
<1>5. RecSaves'
  BY DEF RecInv, RecSaves
<1>6. RecRows'
  <2>1. \A i : Owed(i) => Owed(i)'
    BY DEF Owed
  <2> QED BY <2>1 DEF RecInv, RecRows
<1>7. RecShown'
  BY DEF RecInv, RecShown, Records!Present
<1> QED BY <1>1, <1>2, <1>3, <1>4, <1>5, <1>6, <1>7 DEF RecInv

(***************************************************************************)
(* A request goes on                                                       *)
(***************************************************************************)

(* Who works on what: one request goes on as m, and changes no record but  *)
(* one that it works on alone, or that is new.                             *)
LEMMA RecMoves ==
  ASSUME RecInv, NEW r \in reqs, NEW m, reqs' = (reqs \ {r}) \cup {m}, m.by = r.by, m.op = r.op,
         UNCHANGED <<saving, doomed>>, raced \subseteq raced',
         \A i \in Ids : stored'[i] # stored[i] =>
           i = m.id /\ ((r.phase \in Working /\ r.id = i) \/ (i \notin doomed /\ \A q \in reqs : q.id # i)),
         m.phase \in Working =>
           /\ m.id \in Ids /\ RecFit(m)'
           /\ \/ r.phase \in Working /\ r.id = m.id
              \/ m.id \in raced'
              \/ stored[m.id] # Records!Gone /\ \A q \in reqs \ {r} : q.phase \in Working => q.id # m.id
              \/ m.id \notin doomed /\ \A q \in reqs : q.id # m.id,
         \A i \in Ids : Over(i)' => \/ Over(i)
                                  \/ /\ r.phase = "done" /\ r.op = "delete" /\ r.id = i
                                     /\ m.phase \notin Working /\ stored' = stored
  PROVE  RecFits' /\ RecPairs' /\ RecSaves' /\ RecGone'
<1> USE DEF RecInv
<1>1. \A q \in reqs : q.phase \in Working => q.id \in Ids
  BY DEF RecTypes, RecShape
<1>2. RecFits'
  <2> SUFFICES ASSUME NEW q \in reqs' PROVE RecFit(q)'
    BY DEF RecFits
  <2>1. CASE q = m
    <3>1. CASE m.phase \in Working
      BY <2>1, <3>1
    <3>2. CASE m.phase \notin Working
      BY <2>1, <3>2 DEF RecFit
    <3> QED BY <3>1, <3>2
  <2>2. CASE q \in reqs \ {r}
    <3> SUFFICES ASSUME q.phase \in Working, q.id \notin raced' PROVE RecFit(q)'
      BY DEF RecFit
    <3>1. q.id \in Ids /\ q.id \notin raced /\ RecFit(q)
      BY <1>1, <2>2 DEF RecFits
    <3>2. stored'[q.id] = stored[q.id]
      <4> SUFFICES ASSUME stored'[q.id] # stored[q.id] PROVE FALSE
        OBVIOUS
      <4>1. (r.phase \in Working /\ r.id = q.id) \/ (\A p \in reqs : p.id # q.id)
        BY <3>1
      <4>2. r.phase \in Working /\ r.id = q.id
        BY <2>2, <4>1
      <4> QED BY <2>2, <3>1, <4>2 DEF RecPairs
    <3> QED BY <3>1, <3>2 DEF RecFit
  <2> QED BY <2>1, <2>2
<1>3. RecPairs'
  <2>1. ASSUME NEW q \in reqs \ {r}, q.phase \in Working, m.phase \in Working, q.id = m.id, m.id \notin raced' PROVE FALSE
    <3>1. m.id \notin raced
      BY <2>1
    <3>2. CASE r.phase \in Working /\ r.id = m.id
      BY <2>1, <3>1, <3>2 DEF RecPairs
    <3> QED BY <2>1, <3>2
  <2>2. ASSUME NEW q \in reqs', NEW p \in reqs', q.phase \in Working, p.phase \in Working, q.id = p.id, p.id \notin raced'
        PROVE  q = p
    <3>1. CASE q \in reqs \ {r} /\ p \in reqs \ {r}
      BY <2>2, <3>1 DEF RecPairs
    <3>2. CASE q = m \/ p = m
      BY <2>1, <2>2, <3>2
    <3> QED BY <3>1, <3>2
  <2> QED BY <2>2 DEF RecPairs
<1>4. RecSaves'
  <2>1. RecSave(m) <=> RecSave(r)
    BY DEF RecSave
  <2> QED BY <2>1 DEF RecSaves
<1>5. RecGone'
  <2> SUFFICES ASSUME NEW i \in Ids \ raced', Over(i)'
               PROVE  stored'[i] = Records!Gone /\ i \in doomed /\ \A q \in reqs' : q.phase \in Working => q.id # i
    BY DEF RecGone
  <2>0. i \notin raced
    OBVIOUS
  <2>1. CASE Over(i)
    <3>1. stored[i] = Records!Gone /\ i \in doomed /\ \A q \in reqs : q.phase \in Working => q.id # i
      BY <2>0, <2>1 DEF RecGone
    <3>2. stored'[i] = stored[i]
      BY <3>1
    <3>3. m.phase \in Working => m.id # i
      BY <3>1
    <3> QED BY <3>1, <3>2, <3>3
  <2>2. CASE r.phase = "done" /\ r.op = "delete" /\ r.id = i /\ m.phase \notin Working /\ stored' = stored
    <3>1. stored[i] = Records!Gone
      BY <2>0, <2>2 DEF RecFits, RecFit, Working
    <3>2. i \in doomed
      BY <2>2 DEF RecTypes, RecShape, Working
    <3>3. \A q \in reqs \ {r} : q.phase \in Working => q.id # i
      BY <2>0, <2>2 DEF RecPairs, Working
    <3> QED BY <2>2, <3>1, <3>2, <3>3
  <2> QED BY <2>1, <2>2
<1> QED BY <1>2, <1>3, <1>4, <1>5

(* What the page shows, when a request goes on and owes what it owed. *)
LEMMA RecRowsMove ==
  ASSUME RecRows, NEW r \in reqs, NEW m, reqs' = (reqs \ {r}) \cup {m}, UNCHANGED <<rows, fetch>>, behind => behind',
         \A i \in Ids : Owes(r, i) => Owes(m, i),
         \A i \in Ids : stored'[i] # stored[i] => Owes(m, i) \/ behind'
  PROVE  RecRows'
<1>1. \A i \in Ids : Owed(i) => Owed(i)'
  BY DEF Owed
<1>2. \A i \in Ids : stored'[i] # stored[i] => Owed(i)' \/ behind'
  BY DEF Owed
<1> QED BY <1>1, <1>2 DEF RecRows

(* The types of the rest when only requests move. *)
LEMMA RecTypesMove ==
  ASSUME RecInv, NEW r \in reqs, NEW m, reqs' \subseteq (reqs \ {r}) \cup {m}, RecShape(m)',
         UNCHANGED <<issued, rows, asking, doomed>>,
         stored' \in [Ids -> Records!Records \cup {Records!Gone}],
         fetch' \in [phase : {"none", "asked", "served"}, seen : [Ids -> Records!Records \cup {Records!Gone}]],
         dialog' \in [open : BOOLEAN, editing : Ids \cup {"none"}], form' \in Records!Forms,
         announced' \subseteq Ids, saved' \in {Records!Unsaved} \cup [id : Ids, form : Records!Forms]
  PROVE  RecTypes'
<1>1. \A q \in reqs : RecShape(q)'
  BY DEF RecInv, RecTypes, RecShape
<1> QED BY <1>1 DEF RecInv, RecTypes

LEMMA RecReads == ASSUME Records!ConstantsOK, RecInv, NEW r \in reqs, Records!Read(r) PROVE RecInv'
<1> DEFINE to(i) == [r EXCEPT !.id = i, !.phase = "read", !.previous = stored[i]]
<1>1. PICK i \in Ids : /\ stored[i] # Records!Gone /\ (r.op = "delete" => i \in r.todo) /\ (r.op # "delete" => i = r.id)
                       /\ reqs' = (reqs \ {r}) \cup {to(i)}
                       /\ raced' = IF Records!AtWork(i) = {} THEN raced ELSE raced \cup {i}
  <2>1. PICK i \in (IF r.op = "delete" THEN r.todo ELSE {r.id}) : /\ stored[i] # Records!Gone
                       /\ reqs' = (reqs \ {r}) \cup {to(i)}
                       /\ raced' = IF Records!AtWork(i) = {} THEN raced ELSE raced \cup {i}
    BY DEF Records!Read
  <2>2. i \in Ids
    <3>1. r.op \in {"create", "update", "delete"} /\ r.op # "create" /\ r.todo \subseteq Ids /\ (r.op = "update" => r.id \in Ids)
      BY DEF Records!Read, RecInv, RecTypes, RecShape, RecRequests
    <3> QED BY <2>1, <3>1
  <2> QED BY <2>1, <2>2
<1>2. r.phase = "send" /\ r.op # "create" /\ UNCHANGED <<stored, issued, rows, fetch, selected, dialog, form, saving, asking, doomed, announced, saved, behind>>
  BY DEF Records!Read, Records!server, Records!pageVars
<1>3. PICK m : m = to(i)
  OBVIOUS
<1>4. /\ m.n = r.n /\ m.by = r.by /\ m.op = r.op /\ m.id = i /\ m.form = r.form /\ m.todo = r.todo /\ m.of = r.of
      /\ m.phase = "read" /\ m.previous = stored[i] /\ m \in RecRequests
  <2>1. r \in RecRequests /\ stored[i] \in Records!Records \cup {Records!Gone}
    BY DEF RecInv, RecTypes, RecShape
  <2>2. "read" \in Records!Phases
    BY DEF Records!Phases
  <2> QED BY <1>3, <2>1, <2>2 DEF RecRequests
<1>5. reqs' = (reqs \ {r}) \cup {m}
  BY <1>1, <1>3
<1> HIDE DEF to
<1>6. RecShape(r) /\ RecTypes /\ r \in RecRequests
  BY DEF RecInv, RecTypes, RecShape
<1>7. RecShape(m)'
  <2>1. stored[i] \in Records!Records
    BY <1>1, <1>6 DEF RecTypes
  <2> QED BY <1>1, <1>2, <1>4, <1>6, <2>1 DEF RecShape, Working
<1>8. RecTypes'
  BY <1>2, <1>5, <1>6, <1>7, RecTypesMove DEF RecTypes
<1>9. RecFits' /\ RecPairs' /\ RecSaves' /\ RecGone'
  <2>1. \A j : Over(j)' => Over(j)
    BY <1>2, <1>4, <1>5 DEF Over
  <2>2. RecFit(m)'
    BY <1>2, <1>4 DEF RecFit
  <2>3. i \in raced' \/ \A q \in reqs \ {r} : q.phase \in Working => q.id # i
    BY <1>1 DEF Records!AtWork, Working
  <2>4. raced \subseteq raced'
    BY <1>1
  <2> QED BY <1>1, <1>2, <1>4, <1>5, <2>1, <2>2, <2>3, <2>4, RecMoves
<1>10. RecRows'
  <2>1. \A j \in Ids : Owes(r, j) => Owes(m, j)
    BY <1>2, <1>4 DEF Owes
  <2> QED BY <1>2, <1>5, <2>1, RecRowsMove DEF RecInv
<1>11. RecFlags' /\ RecSaved' /\ RecShown'
  BY <1>2 DEF RecInv, RecFlags, RecSaved, RecShown, Records!Present
<1> QED BY <1>8, <1>9, <1>10, <1>11 DEF RecInv

(* The request in its next phase. *)
LEMMA RecTo ==
  ASSUME RecInv, NEW r \in reqs, NEW phase \in Records!Phases, NEW m, m = [r EXCEPT !.phase = phase]
  PROVE  /\ m.n = r.n /\ m.by = r.by /\ m.op = r.op /\ m.id = r.id /\ m.form = r.form /\ m.todo = r.todo /\ m.of = r.of
         /\ m.phase = phase /\ m.previous = r.previous /\ m \in RecRequests
         /\ r \in RecRequests /\ RecShape(r) /\ RecFit(r) /\ RecTypes
<1>1. r \in RecRequests /\ RecShape(r) /\ RecFit(r) /\ RecTypes
  BY DEF RecInv, RecTypes, RecShape, RecFits
<1> QED BY <1>1 DEF RecRequests

(* A write leaves the saved record that was reported, or forgets it. *)
LEMMA RecSavedMove ==
  ASSUME Records!ConstantsOK, RecInv, NEW w \in Ids, \A i \in Ids : i # w => stored'[i] = stored[i],
         saved' = (IF saved.id = w THEN Records!Unsaved ELSE saved)
  PROVE  RecSaved' /\ saved' \in {Records!Unsaved} \cup [id : Ids, form : Records!Forms]
<1>1. saved \in {Records!Unsaved} \cup [id : Ids, form : Records!Forms]
  BY DEF RecInv, RecTypes
<1>2. CASE saved' = Records!Unsaved
  BY <1>2 DEF RecSaved
<1>3. CASE saved' # Records!Unsaved
  <2>1. saved' = saved /\ saved.id # w /\ saved \in [id : Ids, form : Records!Forms]
    BY <1>1, <1>3
  <2>2. saved.id \in Ids /\ stored'[saved.id] = stored[saved.id]
    BY <2>1
  <2> QED BY <1>1, <1>3, <2>1, <2>2 DEF RecInv, RecSaved
<1> QED BY <1>2, <1>3

LEMMA RecWrites == ASSUME Records!ConstantsOK, RecInv, NEW r \in reqs, Records!Write(r) PROVE RecInv'
<1> DEFINE new == IF r.op = "delete" THEN Records!Gone ELSE Records!UpdatedRecord(r.previous, r.form)
<1>1. /\ r.phase = "read" /\ stored' = [stored EXCEPT ![r.id] = new] /\ behind' = (behind \/ r.by = "other")
      /\ saved' = (IF saved.id = r.id THEN Records!Unsaved ELSE saved)
      /\ UNCHANGED <<issued, rows, fetch, selected, dialog, form, saving, asking, doomed, announced, raced>>
  BY DEF Records!Write, Records!pageVars
<1>2. PICK m : m = [r EXCEPT !.phase = "wrote"] /\ reqs' = (reqs \ {r}) \cup {m}
  BY DEF Records!Write, Records!To
<1>3. "wrote" \in Records!Phases
  BY DEF Records!Phases
<1>4. /\ m.by = r.by /\ m.op = r.op /\ m.id = r.id /\ m.form = r.form /\ m.todo = r.todo /\ m.of = r.of
      /\ m.phase = "wrote" /\ m.previous = r.previous /\ m \in RecRequests /\ r \in RecRequests /\ RecShape(r) /\ RecTypes
  BY <1>2, <1>3, RecTo
<1>5. r.id \in Ids /\ r.previous \in Records!Records /\ r.form \in Records!Forms /\ RecWish(r.form)
  BY <1>1, <1>4 DEF RecShape, RecRequests, Working
<1>6. Records!UpdatedRecord(r.previous, r.form) \in Records!Records /\ RecMatches(Records!UpdatedRecord(r.previous, r.form), r.form)
  BY <1>5, RecUpdated
<1>7. new \in Records!Records \cup {Records!Gone} /\ (r.op = "delete" => new = Records!Gone) /\ (r.op # "delete" => RecMatches(new, r.form))
  BY <1>6
<1> HIDE DEF new
<1>8. /\ stored' \in [Ids -> Records!Records \cup {Records!Gone}] /\ stored'[r.id] = new
      /\ \A i \in Ids : i # r.id => stored'[i] = stored[i]
  BY <1>1, <1>4, <1>5, <1>7 DEF RecTypes
<1>9. RecShape(m)'
  BY <1>1, <1>4, <1>5 DEF RecShape, Working
<1>10. RecSaved' /\ saved' \in {Records!Unsaved} \cup [id : Ids, form : Records!Forms]
  BY <1>1, <1>5, <1>8, RecSavedMove
<1>11. RecTypes'
  BY <1>1, <1>2, <1>4, <1>8, <1>9, <1>10, RecTypesMove DEF RecTypes
<1>12. RecFits' /\ RecPairs' /\ RecSaves' /\ RecGone'
  <2>1. \A j : Over(j)' => Over(j)
    BY <1>1, <1>2, <1>4 DEF Over
  <2>2. RecFit(m)'
    BY <1>4, <1>7, <1>8 DEF RecFit
  <2>3. r.phase \in Working
    BY <1>1 DEF Working
  <2>8. \A j \in Ids : stored'[j] # stored[j] =>
          j = m.id /\ ((r.phase \in Working /\ r.id = j) \/ (j \notin doomed /\ \A q \in reqs : q.id # j))
    BY <1>4, <1>8, <2>3
  <2>9. m.phase \in Working =>
           /\ m.id \in Ids /\ RecFit(m)'
           /\ \/ r.phase \in Working /\ r.id = m.id
              \/ m.id \in raced'
              \/ stored[m.id] # Records!Gone /\ \A q \in reqs \ {r} : q.phase \in Working => q.id # m.id
              \/ m.id \notin doomed /\ \A q \in reqs : q.id # m.id
    BY <1>4, <1>5, <2>2, <2>3
  <2>10. UNCHANGED <<saving, doomed>> /\ raced \subseteq raced' /\ m.by = r.by /\ m.op = r.op
    BY <1>1, <1>4
  <2> QED BY <1>2, <2>1, <2>8, <2>9, <2>10, RecMoves
<1>13. RecRows'
  <2>1. \A j \in Ids : Owes(r, j) => Owes(m, j)
    BY <1>1, <1>4 DEF Owes
  <2>2. r.by = "page" => Owes(m, r.id)
    BY <1>4 DEF Owes
  <2>3. r.by \in {"page", "other"}
    BY <1>4 DEF RecRequests
  <2>4. \A j \in Ids : stored'[j] # stored[j] => Owes(m, j) \/ behind'
    BY <1>1, <1>8, <2>2, <2>3
  <2> QED BY <1>1, <1>2, <2>1, <2>4, RecRowsMove DEF RecInv
<1>14. RecFlags'
  BY <1>1 DEF RecInv, RecFlags
<1>15. RecShown'
  BY <1>1 DEF RecInv, RecShown, Records!Present
<1> QED BY <1>10, <1>11, <1>12, <1>13, <1>14, <1>15 DEF RecInv

LEMMA RecCreates == ASSUME Records!ConstantsOK, RecInv, NEW r \in reqs, NEW i \in Ids, Records!Create(r, i) PROVE RecInv'
<1> DEFINE new == [text |-> r.form.text, type |-> r.form.type, secret |-> Records!NewSecret("none", r.form)]
<1>1. /\ r.phase = "send" /\ r.op = "create" /\ stored[i] = Records!Gone /\ i \notin doomed /\ \A q \in reqs : q.id # i
      /\ stored' = [stored EXCEPT ![i] = new]
      /\ behind' = (behind \/ r.by = "other")
      /\ UNCHANGED <<issued, rows, fetch, selected, dialog, form, saving, asking, doomed, announced, saved, raced>>
  BY DEF Records!Create, Records!pageVars
<1>2. PICK m : m = [r EXCEPT !.id = i, !.phase = "wrote"] /\ reqs' = (reqs \ {r}) \cup {m}
  BY DEF Records!Create
<1>3. RecShape(r) /\ r \in RecRequests /\ RecTypes /\ "wrote" \in Records!Phases
  BY DEF RecInv, RecTypes, RecShape, Records!Phases
<1>4. /\ m.by = r.by /\ m.op = r.op /\ m.id = i /\ m.form = r.form /\ m.todo = r.todo /\ m.of = r.of
      /\ m.phase = "wrote" /\ m.previous = r.previous /\ m \in RecRequests
  BY <1>2, <1>3 DEF RecRequests
<1>5. r.form \in Records!Forms /\ RecWish(r.form) /\ r.by \in {"page", "other"}
  BY <1>1, <1>3 DEF RecShape, RecRequests
<1>6. new \in Records!Records /\ RecMatches(new, r.form)
  BY <1>5, RecCreated
<1> HIDE DEF new
<1>7. /\ stored' \in [Ids -> Records!Records \cup {Records!Gone}] /\ stored'[i] = new
      /\ \A j \in Ids : j # i => stored'[j] = stored[j]
  BY <1>1, <1>3, <1>6 DEF RecTypes
<1>8. RecShape(m)'
  BY <1>1, <1>3, <1>4 DEF RecShape, Working
<1>9. RecTypes'
  BY <1>1, <1>2, <1>3, <1>7, <1>8, RecTypesMove DEF RecTypes
<1>10. RecFits' /\ RecPairs' /\ RecSaves' /\ RecGone'
  <2>1. \A j : Over(j)' => Over(j)
    BY <1>1, <1>2, <1>4 DEF Over
  <2>2. RecFit(m)'
    BY <1>1, <1>4, <1>6, <1>7 DEF RecFit
  <2>8. \A j \in Ids : stored'[j] # stored[j] =>
          j = m.id /\ ((r.phase \in Working /\ r.id = j) \/ (j \notin doomed /\ \A q \in reqs : q.id # j))
    BY <1>1, <1>4, <1>7
  <2>9. m.phase \in Working =>
           /\ m.id \in Ids /\ RecFit(m)'
           /\ \/ r.phase \in Working /\ r.id = m.id
              \/ m.id \in raced'
              \/ stored[m.id] # Records!Gone /\ \A q \in reqs \ {r} : q.phase \in Working => q.id # m.id
              \/ m.id \notin doomed /\ \A q \in reqs : q.id # m.id
    BY <1>1, <1>4, <2>2
  <2>10. UNCHANGED <<saving, doomed>> /\ raced \subseteq raced' /\ m.by = r.by /\ m.op = r.op
    BY <1>1, <1>4
  <2> QED BY <1>2, <2>1, <2>8, <2>9, <2>10, RecMoves
<1>11. RecRows'
  <2>1. \A j \in Ids : Owes(r, j) => Owes(m, j)
    BY <1>1, <1>4 DEF Owes
  <2>2. r.by = "page" => Owes(m, i)
    BY <1>4 DEF Owes
  <2>3. (behind => behind') /\ (r.by = "other" => behind')
    BY <1>1, Zenon
  <2>4. \A j \in Ids : stored'[j] # stored[j] => Owes(m, j) \/ behind'
    BY <1>5, <1>7, <2>2, <2>3
  <2>5. RecRows /\ UNCHANGED <<rows, fetch>>
    BY <1>1 DEF RecInv
  <2> QED BY <1>2, <2>1, <2>3, <2>4, <2>5, RecRowsMove
<1>12. RecSaved'
  <2> SUFFICES ASSUME saved # Records!Unsaved PROVE RecMatches(stored'[saved.id], saved.form)
    BY <1>1 DEF RecSaved
  <2>1. saved.id \in Ids /\ saved.form.type \in Types /\ RecMatches(stored[saved.id], saved.form)
    BY <1>3 DEF RecTypes, RecInv, RecSaved, Records!Forms
  <2>2. saved.id # i
    <3>1. Records!Gone.type \notin Types
      BY <1>6, RecNotGone
    <3> QED BY <1>1, <2>1, <3>1 DEF RecMatches
  <2> QED BY <1>7, <2>1, <2>2
<1>13. RecFlags'
  BY <1>1 DEF RecInv, RecFlags
<1>14. RecShown'
  BY <1>1 DEF RecInv, RecShown, Records!Present
<1> QED BY <1>9, <1>10, <1>11, <1>12, <1>13, <1>14 DEF RecInv

LEMMA RecRestores == ASSUME Records!ConstantsOK, RecInv, NEW r \in reqs, Records!Restore(r) PROVE RecInv'
<1>1. /\ r.phase = "wrote" /\ stored' = [stored EXCEPT ![r.id] = r.previous]
      /\ behind' = (behind \/ r.by = "other" \/ rows[r.id] # r.previous \/ fetch.phase = "served")
      /\ saved' = (IF saved.id = r.id THEN Records!Unsaved ELSE saved)
      /\ UNCHANGED <<issued, rows, fetch, selected, dialog, form, saving, asking, doomed, announced, raced>>
  BY DEF Records!Restore, Records!pageVars
<1>2. PICK m : m = [r EXCEPT !.phase = "failed"] /\ reqs' = (reqs \ {r}) \cup {m}
  BY DEF Records!Restore, Records!To
<1>3. "failed" \in Records!Phases
  BY DEF Records!Phases
<1>4. /\ m.by = r.by /\ m.op = r.op /\ m.id = r.id /\ m.form = r.form /\ m.todo = r.todo /\ m.of = r.of
      /\ m.phase = "failed" /\ m.previous = r.previous /\ m \in RecRequests /\ r \in RecRequests /\ RecShape(r) /\ RecTypes
  BY <1>2, <1>3, RecTo
<1>5. r.id \in Ids /\ r.previous \in Records!Records \cup {Records!Gone}
  BY <1>1, <1>4 DEF RecShape, RecRequests, Working
<1>6. /\ stored' \in [Ids -> Records!Records \cup {Records!Gone}] /\ stored'[r.id] = r.previous
      /\ \A i \in Ids : i # r.id => stored'[i] = stored[i]
  BY <1>1, <1>4, <1>5 DEF RecTypes
<1>7. RecShape(m)'
  BY <1>1, <1>4, <1>5 DEF RecShape, Working
<1>8. RecSaved' /\ saved' \in {Records!Unsaved} \cup [id : Ids, form : Records!Forms]
  BY <1>1, <1>5, <1>6, RecSavedMove
<1>9. RecTypes'
  BY <1>1, <1>2, <1>4, <1>6, <1>7, <1>8, RecTypesMove DEF RecTypes
<1>10. RecFits' /\ RecPairs' /\ RecSaves' /\ RecGone'
  <2>1. \A j : Over(j)' => Over(j)
    BY <1>1, <1>2, <1>4 DEF Over
  <2>2. r.phase \in Working /\ m.phase \notin Working
    BY <1>1, <1>4 DEF Working
  <2>8. \A j \in Ids : stored'[j] # stored[j] =>
          j = m.id /\ ((r.phase \in Working /\ r.id = j) \/ (j \notin doomed /\ \A q \in reqs : q.id # j))
    BY <1>4, <1>6, <2>2
  <2>9. m.phase \in Working =>
           /\ m.id \in Ids /\ RecFit(m)'
           /\ \/ r.phase \in Working /\ r.id = m.id
              \/ m.id \in raced'
              \/ stored[m.id] # Records!Gone /\ \A q \in reqs \ {r} : q.phase \in Working => q.id # m.id
              \/ m.id \notin doomed /\ \A q \in reqs : q.id # m.id
    BY <2>2
  <2>10. UNCHANGED <<saving, doomed>> /\ raced \subseteq raced' /\ m.by = r.by /\ m.op = r.op
    BY <1>1, <1>4
  <2> QED BY <1>2, <2>1, <2>8, <2>9, <2>10, RecMoves
<1>11. RecRows'
  <2> SUFFICES ASSUME ~behind', fetch.phase = "none", NEW i \in Ids PROVE rows[i] = stored'[i] \/ Owed(i)'
    BY <1>1 DEF RecRows
  <2>1. ~behind /\ r.by # "other" /\ rows[r.id] = r.previous
    BY <1>1
  <2>2. CASE i = r.id
    BY <1>6, <2>1, <2>2
  <2>3. CASE i # r.id
    <3>1. Owes(r, i) => Owes(m, i)
      BY <1>1, <1>4, <2>3 DEF Owes
    <3>2. Owed(i) => Owed(i)'
      BY <1>2, <3>1 DEF Owed
    <3> QED BY <1>6, <2>1, <2>3, <3>2 DEF RecInv, RecRows
  <2> QED BY <2>2, <2>3
<1>12. RecFlags'
  BY <1>1 DEF RecInv, RecFlags
<1>13. RecShown'
  BY <1>1 DEF RecInv, RecShown, Records!Present
<1> QED BY <1>8, <1>9, <1>10, <1>11, <1>12, <1>13 DEF RecInv

LEMMA RecDrop ==
  ASSUME RecInv, NEW D, reqs' = reqs \ D, UNCHANGED <<stored, doomed, announced, raced>>,
         saving' <=> (saving /\ \A r \in D \cap reqs : ~RecSave(r))
  PROVE  RecFits' /\ RecPairs' /\ RecGone' /\ RecSaves'
<1>1. RecFits' /\ RecPairs'
  BY DEF RecInv, RecFits, RecFit, RecPairs
<1>2. RecGone'
  <2>1. \A i : Over(i)' => Over(i)
    BY DEF Over
  <2> QED BY <2>1 DEF RecInv, RecGone
<1>3. RecSaves'
  BY DEF RecInv, RecSaves
<1> QED BY <1>1, <1>2, <1>3

LEMMA RecLogs == ASSUME Records!ConstantsOK, RecInv, NEW r \in reqs, Records!Log(r), r.by = "other" PROVE RecInv'
<1>1. r.phase = "wrote" /\ reqs' = reqs \ {r} /\ UNCHANGED <<stored, issued, rows, fetch, selected, dialog, form, saving, asking, doomed, announced, saved, behind, raced>>
  BY DEF Records!Log, Records!server, Records!pageVars, Records!history
<1>2. RecFits' /\ RecPairs' /\ RecGone' /\ RecSaves'
  <2>1. saving' <=> (saving /\ \A q \in {r} \cap reqs : ~RecSave(q))
    BY <1>1 DEF RecSave
  <2> QED BY <1>1, <2>1, RecDrop
<1>3. RecTypes'
  BY <1>1 DEF RecInv, RecTypes, RecShape
<1>4. RecRows'
  <2>1. \A i : Owed(i) => Owed(i)'
    BY <1>1 DEF Owed, Owes
  <2> QED BY <1>1, <2>1 DEF RecInv, RecRows
<1>5. RecFlags'
  BY <1>1 DEF RecInv, RecFlags
<1>6. RecSaved'
  BY <1>1 DEF RecInv, RecSaved
<1>7. RecShown'
  BY <1>1 DEF RecInv, RecShown, Records!Present
<1> QED BY <1>2, <1>3, <1>4, <1>5, <1>6, <1>7 DEF RecInv

LEMMA RecAnswers == ASSUME Records!ConstantsOK, RecInv, NEW r \in reqs, Records!Log(r), r.by # "other" PROVE RecInv'
<1>1. r.phase = "wrote" /\ r.by # "other" /\ UNCHANGED <<stored, issued, rows, fetch, selected, dialog, form, saving, asking, doomed, announced, saved, behind, raced>>
  BY DEF Records!Log, Records!server, Records!pageVars, Records!history
<1>2. PICK m : m = [r EXCEPT !.phase = "done"] /\ reqs' = (reqs \ {r}) \cup {m}
  BY DEF Records!Log, Records!To
<1>3. "done" \in Records!Phases
  BY DEF Records!Phases
<1>4. /\ m.by = r.by /\ m.op = r.op /\ m.id = r.id /\ m.form = r.form /\ m.todo = r.todo /\ m.of = r.of
      /\ m.phase = "done" /\ m.previous = r.previous /\ m \in RecRequests /\ r \in RecRequests /\ RecShape(r) /\ RecFit(r) /\ RecTypes
  BY <1>2, <1>3, RecTo
<1>5. RecShape(m)'
  BY <1>1, <1>4 DEF RecShape, Working
<1>6. RecTypes'
  BY <1>1, <1>2, <1>4, <1>5, RecTypesMove DEF RecTypes
<1>7. RecFits' /\ RecPairs' /\ RecSaves' /\ RecGone'
  <2>1. \A j : Over(j)' => Over(j)
    BY <1>1, <1>2, <1>4 DEF Over
  <2>2. m.phase \in Working => m.id \in Ids /\ RecFit(m)' /\ r.phase \in Working /\ r.id = m.id
    BY <1>1, <1>4, <1>5 DEF RecShape, RecFit, Working
  <2>3. UNCHANGED <<stored, saving, doomed, raced>> /\ m.by = r.by /\ m.op = r.op
    BY <1>1, <1>4
  <2> QED BY <1>2, <2>1, <2>2, <2>3, RecMoves
<1>8. RecRows'
  <2>1. \A j \in Ids : Owes(r, j) => Owes(m, j)
    BY <1>1, <1>4 DEF Owes
  <2> QED BY <1>1, <1>2, <2>1, RecRowsMove DEF RecInv
<1>9. RecFlags'
  BY <1>1 DEF RecInv, RecFlags
<1>10. RecSaved'
  BY <1>1 DEF RecInv, RecSaved
<1>11. RecShown'
  BY <1>1 DEF RecInv, RecShown, Records!Present
<1> QED BY <1>6, <1>7, <1>8, <1>9, <1>10, <1>11 DEF RecInv

LEMMA RecRefused == ASSUME Records!ConstantsOK, RecInv, NEW r \in reqs, Records!Refuse(r) PROVE RecInv'
<1>1. r.phase \in {"send", "read"} /\ UNCHANGED <<stored, issued, rows, fetch, selected, dialog, form, saving, asking, doomed, announced, saved, behind, raced>>
  BY DEF Records!Refuse, Records!server, Records!pageVars, Records!history
<1>2. PICK m : m = [r EXCEPT !.phase = "failed"] /\ reqs' = (reqs \ {r}) \cup {m}
  BY DEF Records!Refuse, Records!To
<1>3. "failed" \in Records!Phases
  BY DEF Records!Phases
<1>4. /\ m.by = r.by /\ m.op = r.op /\ m.id = r.id /\ m.form = r.form /\ m.todo = r.todo /\ m.of = r.of
      /\ m.phase = "failed" /\ m.previous = r.previous /\ m \in RecRequests /\ r \in RecRequests /\ RecShape(r) /\ RecFit(r) /\ RecTypes
  BY <1>2, <1>3, RecTo
<1>5. RecShape(m)'
  BY <1>1, <1>4 DEF RecShape, Working
<1>6. RecTypes'
  BY <1>1, <1>2, <1>4, <1>5, RecTypesMove DEF RecTypes
<1>7. RecFits' /\ RecPairs' /\ RecSaves' /\ RecGone'
  <2>1. \A j : Over(j)' => Over(j)
    BY <1>1, <1>2, <1>4 DEF Over
  <2>2. m.phase \in Working => m.id \in Ids /\ RecFit(m)' /\ r.phase \in Working /\ r.id = m.id
    BY <1>1, <1>4, <1>5 DEF RecShape, RecFit, Working
  <2>3. UNCHANGED <<stored, saving, doomed, raced>> /\ m.by = r.by /\ m.op = r.op
    BY <1>1, <1>4
  <2> QED BY <1>2, <2>1, <2>2, <2>3, RecMoves
<1>8. RecRows'
  <2>1. \A j \in Ids : Owes(r, j) => Owes(m, j)
    BY <1>1, <1>4 DEF Owes
  <2> QED BY <1>1, <1>2, <2>1, RecRowsMove DEF RecInv
<1>9. RecFlags'
  BY <1>1 DEF RecInv, RecFlags
<1>10. RecSaved'
  BY <1>1 DEF RecInv, RecSaved
<1>11. RecShown'
  BY <1>1 DEF RecInv, RecShown, Records!Present
<1> QED BY <1>6, <1>7, <1>8, <1>9, <1>10, <1>11 DEF RecInv

LEMMA RecNotRestored == ASSUME Records!ConstantsOK, RecInv, NEW r \in reqs, Records!RestoreFails(r) PROVE RecInv'
<1>1. r.phase = "wrote" /\ behind' = TRUE /\ UNCHANGED <<stored, issued, rows, fetch, selected, dialog, form, saving, asking, doomed, announced, saved, raced>>
  BY DEF Records!RestoreFails, Records!server, Records!pageVars
<1>2. PICK m : m = [r EXCEPT !.phase = "failed"] /\ reqs' = (reqs \ {r}) \cup {m}
  BY DEF Records!RestoreFails, Records!To
<1>3. "failed" \in Records!Phases
  BY DEF Records!Phases
<1>4. /\ m.by = r.by /\ m.op = r.op /\ m.id = r.id /\ m.form = r.form /\ m.todo = r.todo /\ m.of = r.of
      /\ m.phase = "failed" /\ m.previous = r.previous /\ m \in RecRequests /\ r \in RecRequests /\ RecShape(r) /\ RecFit(r) /\ RecTypes
  BY <1>2, <1>3, RecTo
<1>5. RecShape(m)'
  BY <1>1, <1>4 DEF RecShape, Working
<1>6. RecTypes'
  BY <1>1, <1>2, <1>4, <1>5, RecTypesMove DEF RecTypes
<1>7. RecFits' /\ RecPairs' /\ RecSaves' /\ RecGone'
  <2>1. \A j : Over(j)' => Over(j)
    BY <1>1, <1>2, <1>4 DEF Over
  <2>2. m.phase \in Working => m.id \in Ids /\ RecFit(m)' /\ r.phase \in Working /\ r.id = m.id
    BY <1>1, <1>4, <1>5 DEF RecShape, RecFit, Working
  <2>3. UNCHANGED <<stored, saving, doomed, raced>> /\ m.by = r.by /\ m.op = r.op
    BY <1>1, <1>4
  <2> QED BY <1>2, <2>1, <2>2, <2>3, RecMoves
<1>8. RecRows'
  BY <1>1 DEF RecRows
<1>9. RecFlags'
  BY <1>1 DEF RecInv, RecFlags
<1>10. RecSaved'
  BY <1>1 DEF RecInv, RecSaved
<1>11. RecShown'
  BY <1>1 DEF RecInv, RecShown, Records!Present
<1> QED BY <1>6, <1>7, <1>8, <1>9, <1>10, <1>11 DEF RecInv

LEMMA RecSavedOne == ASSUME Records!ConstantsOK, RecInv, NEW r \in reqs, Records!Saved(r) PROVE RecInv'
<1>1. /\ r.phase = "done" /\ r.op # "delete" /\ form' = Records!Blank /\ dialog' = Records!Closed
      /\ saved' = IF r.id \notin raced THEN [id |-> r.id, form |-> r.form] ELSE saved
      /\ UNCHANGED <<stored, issued, rows, fetch, selected, saving, asking, doomed, announced, behind, raced>>
  BY DEF Records!Saved, Records!server
<1>2. PICK m : m = [r EXCEPT !.phase = "refresh"] /\ reqs' = (reqs \ {r}) \cup {m}
  BY DEF Records!Saved, Records!To
<1>3. "refresh" \in Records!Phases
  BY DEF Records!Phases
<1>4. /\ m.by = r.by /\ m.op = r.op /\ m.id = r.id /\ m.form = r.form /\ m.todo = r.todo /\ m.of = r.of
      /\ m.phase = "refresh" /\ m.previous = r.previous /\ m \in RecRequests /\ r \in RecRequests /\ RecShape(r) /\ RecFit(r) /\ RecTypes
  BY <1>2, <1>3, RecTo
<1>5. RecShape(m)'
  BY <1>1, <1>4 DEF RecShape, Working
<1>6. RecTypes'
  <2>1. dialog' \in [open : BOOLEAN, editing : Ids \cup {"none"}] /\ form' \in Records!Forms
    BY <1>1, RecBlank DEF Records!Closed
  <2>2. r.id \in Ids /\ r.form \in Records!Forms
    BY <1>1, <1>4 DEF RecShape, RecRequests, Working
  <2>3. saved' \in {Records!Unsaved} \cup [id : Ids, form : Records!Forms]
    BY <1>1, <1>4, <2>2 DEF RecTypes
  <2>4. stored' \in [Ids -> Records!Records \cup {Records!Gone}] /\ announced' \subseteq Ids
    BY <1>1, <1>4 DEF RecTypes
  <2>5. fetch' \in [phase : {"none", "asked", "served"}, seen : [Ids -> Records!Records \cup {Records!Gone}]]
    BY <1>1, <1>4 DEF RecTypes
  <2> QED BY <1>1, <1>2, <1>5, <2>1, <2>3, <2>4, <2>5, RecTypesMove
<1>7. RecFits' /\ RecPairs' /\ RecSaves' /\ RecGone'
  <2>1. \A j : Over(j)' => Over(j)
    BY <1>1, <1>2, <1>4 DEF Over
  <2>2. m.phase \in Working => m.id \in Ids /\ RecFit(m)' /\ r.phase \in Working /\ r.id = m.id
    BY <1>1, <1>4, <1>5 DEF RecShape, RecFit, Working
  <2>3. UNCHANGED <<stored, saving, doomed, raced>> /\ m.by = r.by /\ m.op = r.op
    BY <1>1, <1>4
  <2> QED BY <1>2, <2>1, <2>2, <2>3, RecMoves
<1>8. RecRows'
  <2>1. \A j \in Ids : Owes(r, j) => Owes(m, j)
    BY <1>1, <1>4 DEF Owes
  <2> QED BY <1>1, <1>2, <2>1, RecRowsMove DEF RecInv
<1>9. RecFlags'
  BY <1>1 DEF RecInv, RecFlags
<1>10. RecSaved'
  <2>1. CASE r.id \in raced
    BY <1>1, <2>1 DEF RecInv, RecSaved
  <2>2. CASE r.id \notin raced
    <3>1. RecMatches(stored[r.id], r.form)
      BY <1>1, <1>4, <2>2 DEF RecFit, Working
    <3>2. saved'.id = r.id /\ saved'.form = r.form
      BY <1>1, <2>2
    <3> QED BY <1>1, <3>1, <3>2 DEF RecSaved
  <2> QED BY <2>1, <2>2
<1>11. RecShown'
  BY <1>1, RecBlank DEF RecInv, RecShown, Records!Present
<1> QED BY <1>6, <1>7, <1>8, <1>9, <1>10, <1>11 DEF RecInv

LEMMA RecDeletedAll == ASSUME Records!ConstantsOK, RecInv, NEW r \in reqs, Records!DeletedAll(r) PROVE RecInv'
<1>1. /\ r.phase = "done" /\ r.op = "delete" /\ r.todo \ {r.id} = {} /\ announced' = announced \cup r.of
      /\ selected' \subseteq selected
      /\ UNCHANGED <<stored, issued, rows, fetch, dialog, form, saving, asking, doomed, saved, behind, raced>>
  BY DEF Records!DeletedAll, Records!NextTargets, Records!server
<1>2. PICK m : m = [r EXCEPT !.phase = "refresh"] /\ reqs' = (reqs \ {r}) \cup {m}
  BY DEF Records!DeletedAll, Records!Refreshed, Records!To
<1>3. "refresh" \in Records!Phases
  BY DEF Records!Phases
<1>4. /\ m.by = r.by /\ m.op = r.op /\ m.id = r.id /\ m.form = r.form /\ m.todo = r.todo /\ m.of = r.of
      /\ m.phase = "refresh" /\ m.previous = r.previous /\ m \in RecRequests /\ r \in RecRequests /\ RecShape(r) /\ RecFit(r) /\ RecTypes
  BY <1>2, <1>3, RecTo
<1>5. RecShape(m)'
  BY <1>1, <1>4 DEF RecShape, Working
<1>6. RecTypes'
  <2>1. announced' \subseteq Ids
    BY <1>1, <1>4 DEF RecTypes, RecRequests
  <2>2. stored' \in [Ids -> Records!Records \cup {Records!Gone}] /\ saved' \in {Records!Unsaved} \cup [id : Ids, form : Records!Forms]
    BY <1>1, <1>4 DEF RecTypes
  <2>3. fetch' \in [phase : {"none", "asked", "served"}, seen : [Ids -> Records!Records \cup {Records!Gone}]]
    BY <1>1, <1>4 DEF RecTypes
  <2>4. dialog' \in [open : BOOLEAN, editing : Ids \cup {"none"}] /\ form' \in Records!Forms
    BY <1>1, <1>4 DEF RecTypes
  <2> QED BY <1>1, <1>2, <1>5, <2>1, <2>2, <2>3, <2>4, RecTypesMove
<1>7. RecFits' /\ RecPairs' /\ RecSaves' /\ RecGone'
  <2>1. \A j : Over(j)' => Over(j) \/ r.id = j
    <3> SUFFICES ASSUME NEW j, Over(j)', ~Over(j) PROVE r.id = j
      OBVIOUS
    <3>1. j \in r.of
      BY <1>1, <1>2, <1>4 DEF Over
    <3>2. j \in r.todo
      BY <3>1 DEF Over
    <3> QED BY <1>1, <3>2
  <2>2. m.phase \notin Working
    BY <1>4 DEF Working
  <2>3. UNCHANGED <<stored, saving, doomed, raced>> /\ m.by = r.by /\ m.op = r.op /\ r.phase = "done" /\ r.op = "delete"
    BY <1>1, <1>4
  <2> QED BY <1>2, <2>1, <2>2, <2>3, RecMoves
<1>8. RecRows'
  <2>1. \A j \in Ids : Owes(r, j) => Owes(m, j)
    BY <1>1, <1>4 DEF Owes
  <2> QED BY <1>1, <1>2, <2>1, RecRowsMove DEF RecInv
<1>9. RecFlags'
  BY <1>1 DEF RecInv, RecFlags
<1>10. RecSaved'
  BY <1>1 DEF RecInv, RecSaved
<1>11. RecShown'
  BY <1>1 DEF RecInv, RecShown, Records!Present
<1> QED BY <1>6, <1>7, <1>8, <1>9, <1>10, <1>11 DEF RecInv

LEMMA RecStartsFetch == ASSUME Records!ConstantsOK, RecInv, NEW r \in reqs, Records!StartFetch(r) PROVE RecInv'
<1>1. /\ r.phase = "refresh" /\ fetch' = [Records!NoFetch EXCEPT !.phase = "asked"]
      /\ UNCHANGED <<stored, issued, rows, selected, dialog, form, saving, asking, doomed, announced, saved, behind, raced>>
  BY DEF Records!StartFetch, Records!server, Records!pageVars, Records!history
<1>2. PICK m : m = [r EXCEPT !.phase = "fetching"] /\ reqs' = (reqs \ {r}) \cup {m}
  BY DEF Records!StartFetch, Records!To
<1>3. "fetching" \in Records!Phases
  BY DEF Records!Phases
<1>4. /\ m.by = r.by /\ m.op = r.op /\ m.id = r.id /\ m.form = r.form /\ m.todo = r.todo /\ m.of = r.of
      /\ m.phase = "fetching" /\ m.previous = r.previous /\ m \in RecRequests /\ r \in RecRequests /\ RecShape(r) /\ RecFit(r) /\ RecTypes
  BY <1>2, <1>3, RecTo
<1>5. RecShape(m)'
  BY <1>1, <1>4 DEF RecShape, Working
<1>6. RecTypes'
  <2>1. fetch' \in [phase : {"none", "asked", "served"}, seen : [Ids -> Records!Records \cup {Records!Gone}]]
    BY <1>1 DEF Records!NoFetch
  <2> QED BY <1>1, <1>2, <1>4, <1>5, <2>1, RecTypesMove DEF RecTypes
<1>7. RecFits' /\ RecPairs' /\ RecSaves' /\ RecGone'
  <2>1. \A j : Over(j)' => Over(j)
    BY <1>1, <1>2, <1>4 DEF Over
  <2>2. m.phase \in Working => m.id \in Ids /\ RecFit(m)' /\ r.phase \in Working /\ r.id = m.id
    BY <1>1, <1>4, <1>5 DEF RecShape, RecFit, Working
  <2>3. UNCHANGED <<stored, saving, doomed, raced>> /\ m.by = r.by /\ m.op = r.op
    BY <1>1, <1>4
  <2> QED BY <1>2, <2>1, <2>2, <2>3, RecMoves
<1>8. RecRows'
  <2>1. fetch'.phase = "asked"
    BY <1>1 DEF Records!NoFetch
  <2> QED BY <2>1 DEF RecRows
<1>9. RecFlags'
  BY <1>1 DEF RecInv, RecFlags
<1>10. RecSaved'
  BY <1>1 DEF RecInv, RecSaved
<1>11. RecShown'
  BY <1>1 DEF RecInv, RecShown, Records!Present
<1> QED BY <1>6, <1>7, <1>8, <1>9, <1>10, <1>11 DEF RecInv

LEMMA RecDeletedOne == ASSUME Records!ConstantsOK, RecInv, NEW r \in reqs, Records!DeletedOne(r) PROVE RecInv'
<1>1. r.phase = "done" /\ r.op = "delete" /\ UNCHANGED <<stored, issued, rows, fetch, selected, dialog, form, saving, asking, doomed, announced, saved, behind, raced>>
  BY DEF Records!DeletedOne, Records!server, Records!pageVars, Records!history
<1>2. PICK m : m = [r EXCEPT !.todo = r.todo \ {r.id}, !.id = "none", !.phase = "send"] /\ reqs' = (reqs \ {r}) \cup {m}
  BY DEF Records!DeletedOne, Records!NextTargets
<1>3. RecShape(r) /\ r \in RecRequests /\ RecTypes /\ "send" \in Records!Phases
  BY DEF RecInv, RecTypes, RecShape, Records!Phases
<1>4. /\ m.by = r.by /\ m.op = r.op /\ m.form = r.form /\ m.todo = r.todo \ {r.id} /\ m.of = r.of
      /\ m.phase = "send" /\ m.previous = r.previous /\ m \in RecRequests
  BY <1>2, <1>3 DEF RecRequests
<1>5. RecShape(m)'
  BY <1>1, <1>3, <1>4 DEF RecShape, Working
<1>6. RecTypes'
  BY <1>1, <1>2, <1>3, <1>5, RecTypesMove DEF RecTypes
<1>7. RecFits' /\ RecPairs' /\ RecSaves' /\ RecGone'
  <2>1. \A j : Over(j)' => Over(j) \/ r.id = j
    BY <1>1, <1>2, <1>4 DEF Over
  <2>2. m.phase \notin Working
    BY <1>4 DEF Working
  <2>3. UNCHANGED <<stored, saving, doomed, raced>> /\ m.by = r.by /\ m.op = r.op /\ r.phase = "done" /\ r.op = "delete"
    BY <1>1, <1>4
  <2> QED BY <1>2, <2>1, <2>2, <2>3, RecMoves
<1>8. RecRows'
  <2>1. r.id \in r.of
    BY <1>1, <1>3 DEF RecShape, Working
  <2>2. \A j \in Ids : Owes(r, j) => Owes(m, j)
    BY <1>1, <1>4, <2>1 DEF Owes
  <2> QED BY <1>1, <1>2, <2>2, RecRowsMove DEF RecInv
<1>9. RecFlags'
  BY <1>1 DEF RecInv, RecFlags
<1>10. RecSaved'
  BY <1>1 DEF RecInv, RecSaved
<1>11. RecShown'
  BY <1>1 DEF RecInv, RecShown, Records!Present
<1> QED BY <1>6, <1>7, <1>8, <1>9, <1>10, <1>11 DEF RecInv

LEMMA RecFails == ASSUME Records!ConstantsOK, RecInv, NEW r \in reqs, Records!Failed(r) PROVE RecInv'
<1>1. /\ r.phase = "failed" /\ reqs' = reqs \ {r} /\ saving' = (saving /\ (r.by = "other" \/ r.op = "delete"))
      /\ behind' = (behind \/ r.by = "other" \/ r.todo # r.of)
      /\ UNCHANGED <<stored, issued, rows, fetch, selected, dialog, form, asking, doomed, announced, saved, raced>>
  BY DEF Records!Failed, Records!SavingAfterFailure, Records!server
<1>2. r.by \in {"page", "other"}
  BY DEF RecInv, RecTypes, RecShape, RecRequests
<1>3. RecFits' /\ RecPairs' /\ RecGone' /\ RecSaves'
  <2>1. saving' <=> (saving /\ \A q \in {r} \cap reqs : ~RecSave(q))
    BY <1>1, <1>2 DEF RecSave
  <2> QED BY <1>1, <2>1, RecDrop
<1>4. RecTypes'
  BY <1>1 DEF RecInv, RecTypes, RecShape
<1>5. RecRows'
  <2> SUFFICES ASSUME ~behind' PROVE RecRows'
    BY DEF RecRows
  <2>1. ~behind /\ r.todo = r.of
    BY <1>1
  <2>2. \A i : Owed(i) => Owed(i)'
    BY <1>1, <2>1 DEF Owed, Owes
  <2> QED BY <1>1, <2>1, <2>2 DEF RecInv, RecRows
<1>6. RecFlags'
  BY <1>1 DEF RecInv, RecFlags
<1>7. RecSaved'
  BY <1>1 DEF RecInv, RecSaved
<1>8. RecShown'
  BY <1>1 DEF RecInv, RecShown, Records!Present
<1> QED BY <1>3, <1>4, <1>5, <1>6, <1>7, <1>8 DEF RecInv

LEMMA RecLoses == ASSUME Records!ConstantsOK, RecInv, NEW r \in reqs, Records!LoseAnswer(r) PROVE RecInv'
<1> USE DEF RecInv
<1>1. /\ r.by = "page" /\ r.phase \in {"send", "read", "wrote", "done"} /\ behind' = TRUE
      /\ saving' = (saving /\ (r.by = "other" \/ r.op = "delete"))
      /\ UNCHANGED <<stored, issued, rows, fetch, selected, dialog, form, asking, doomed, announced, saved, raced>>
  BY DEF Records!LoseAnswer, Records!SavingAfterFailure, Records!server
<1>2. RecFits' /\ RecPairs' /\ RecSaves' /\ RecGone' /\ RecTypes'
  <2>1. CASE r.phase = "done"
    <3>1. reqs' = reqs \ {r}
      BY <2>1 DEF Records!LoseAnswer
    <3>2. saving' <=> (saving /\ \A q \in {r} \cap reqs : ~RecSave(q))
      BY <1>1 DEF RecSave
    <3>3. RecFits' /\ RecPairs' /\ RecGone' /\ RecSaves'
      BY <1>1, <3>1, <3>2, RecDrop
    <3>4. RecTypes'
      BY <1>1, <3>1 DEF RecTypes, RecShape
    <3> QED BY <3>3, <3>4
  <2>2. CASE r.phase # "done"
    <3>1. PICK m : m = [r EXCEPT !.by = "other"] /\ reqs' = (reqs \ {r}) \cup {m}
      BY <2>2 DEF Records!LoseAnswer
    <3>2. r \in RecRequests /\ RecShape(r) /\ RecFit(r) /\ RecTypes
      BY DEF RecTypes, RecShape, RecFits
    <3>3. /\ m.by = "other" /\ m.op = r.op /\ m.id = r.id /\ m.form = r.form /\ m.todo = r.todo /\ m.of = r.of
          /\ m.phase = r.phase /\ m.previous = r.previous /\ m \in RecRequests
      BY <3>1, <3>2 DEF RecRequests
    <3>4. RecShape(m)'
      BY <1>1, <2>2, <3>2, <3>3 DEF RecShape, Working
    <3>5. RecTypes'
      BY <1>1, <3>1, <3>2, <3>4, RecTypesMove DEF RecTypes
    <3>6. RecFits'
      <4>1. RecFit(m)'
        BY <1>1, <3>2, <3>3 DEF RecFit
      <4>2. \A q \in reqs : RecFit(q)'
        BY <1>1 DEF RecFits, RecFit
      <4> QED BY <3>1, <4>1, <4>2 DEF RecFits
    <3>7. RecPairs'
      <4>1. ASSUME NEW q \in reqs \ {r}, q.phase \in Working, m.phase \in Working, q.id = m.id, m.id \notin raced PROVE FALSE
        BY <3>3, <4>1 DEF RecPairs
      <4>2. ASSUME NEW q \in reqs', NEW p \in reqs', q.phase \in Working, p.phase \in Working, q.id = p.id, p.id \notin raced
            PROVE  q = p
        <5>1. CASE q \in reqs \ {r} /\ p \in reqs \ {r}
          BY <4>2, <5>1 DEF RecPairs
        <5>2. CASE q = m \/ p = m
          BY <3>1, <4>1, <4>2, <5>2
        <5> QED BY <3>1, <5>1, <5>2
      <4> QED BY <1>1, <4>2 DEF RecPairs
    <3>8. RecGone'
      <4>1. \A i : Over(i)' => Over(i)
        BY <1>1, <3>1, <3>3 DEF Over
      <4>2. ASSUME NEW i \in Ids \ raced', Over(i)'
            PROVE  stored'[i] = Records!Gone /\ i \in doomed' /\ \A q \in reqs' : q.phase \in Working => q.id # i
        <5>1. Over(i) /\ i \notin raced
          BY <1>1, <4>1, <4>2
        <5>2. stored[i] = Records!Gone /\ i \in doomed /\ \A q \in reqs : q.phase \in Working => q.id # i
          BY <5>1 DEF RecGone
        <5> QED BY <1>1, <3>1, <3>3, <5>2
      <4> QED BY <4>2 DEF RecGone
    <3>9. RecSaves'
      <4>1. ~RecSave(m) /\ (saving' <=> saving /\ ~RecSave(r))
        BY <1>1, <3>3 DEF RecSave
      <4> QED BY <3>1, <4>1 DEF RecSaves
    <3> QED BY <3>5, <3>6, <3>7, <3>8, <3>9
  <2> QED BY <2>1, <2>2
<1>3. RecRows'
  BY <1>1 DEF RecRows
<1>4. RecFlags'
  BY <1>1 DEF RecFlags
<1>5. RecSaved'
  BY <1>1 DEF RecSaved
<1>6. RecShown'
  BY <1>1 DEF RecShown, Records!Present
<1> QED BY <1>2, <1>3, <1>4, <1>5, <1>6

(* The handlers whose refresh is over leave. *)
LEMMA RecFinish ==
  ASSUME RecInv, Records!Finish({r \in reqs : r.phase = "fetching"}), UNCHANGED <<stored, doomed, announced, raced>>
  PROVE  /\ RecFits' /\ RecPairs' /\ RecGone' /\ RecSaves' /\ reqs' \subseteq reqs /\ saving' \in BOOLEAN
         /\ \A i : Owed(i) => Owed(i)'
<1> DEFINE D == {r \in reqs : r.phase = "fetching"}
<1>1. reqs' = reqs \ D /\ saving' = (saving /\ \A r \in D : r.op = "delete")
  BY DEF Records!Finish
<1>2. \A r \in D : r \in reqs /\ r.phase = "fetching" /\ r.by = "page"
  BY DEF RecInv, RecTypes, RecShape, RecRequests
<1>3. \A i : Owed(i) => Owed(i)'
  BY <1>1 DEF Owed, Owes
<1> HIDE DEF D
<1>4. saving' <=> (saving /\ \A r \in D \cap reqs : ~RecSave(r))
  BY <1>1, <1>2 DEF RecSave
<1>5. RecFits' /\ RecPairs' /\ RecGone' /\ RecSaves'
  BY <1>1, <1>4, RecDrop
<1>6. saving' \in BOOLEAN
  BY <1>1 DEF RecInv, RecFlags
<1> QED BY <1>1, <1>3, <1>5, <1>6

LEMMA RecFetches == ASSUME Records!ConstantsOK, RecInv, Records!Fetched \/ Records!FetchFails PROVE RecInv'
<1>1. /\ Records!Finish({r \in reqs : r.phase = "fetching"}) /\ fetch' = Records!NoFetch
      /\ UNCHANGED <<stored, issued, dialog, form, asking, doomed, announced, saved, raced>>
  BY DEF Records!Fetched, Records!FetchFails, Records!server, Records!history
<1>2. /\ RecFits' /\ RecPairs' /\ RecGone' /\ RecSaves' /\ reqs' \subseteq reqs /\ saving' \in BOOLEAN
      /\ \A i : Owed(i) => Owed(i)'
  BY <1>1, RecFinish
<1>3. fetch' \in [phase : {"none", "asked", "served"}, seen : [Ids -> Records!Records \cup {Records!Gone}]] /\ fetch'.phase = "none"
  BY <1>1 DEF Records!NoFetch
<1>4. \/ fetch.phase = "served" /\ rows' = fetch.seen /\ selected' = selected \cap Records!Present(fetch.seen) /\ behind' = behind
      \/ UNCHANGED <<rows, selected>> /\ behind' = TRUE
  BY DEF Records!Fetched, Records!FetchFails, Records!Selection, Records!history
<1>5. rows' \in [Ids -> Records!Records \cup {Records!Gone}]
  BY <1>4 DEF RecInv, RecTypes
<1>6. RecTypes'
  <2>1. \A r \in reqs' : RecShape(r)'
    BY <1>1, <1>2 DEF RecInv, RecTypes, RecShape
  <2> QED BY <1>1, <1>3, <1>5, <2>1 DEF RecInv, RecTypes
<1>7. RecRows'
  BY <1>1, <1>2, <1>3, <1>4 DEF RecInv, RecRows
<1>8. RecFlags'
  BY <1>2, <1>4 DEF RecInv, RecFlags
<1>9. RecSaved'
  BY <1>1 DEF RecInv, RecSaved
<1>10. RecShown'
  <2>1. Records!Present(rows') = {i \in Ids : rows'[i] # Records!Gone} /\ Records!Present(rows)' = {i \in Ids : rows'[i] # Records!Gone}
    BY DEF Records!Present
  <2>2. selected' \subseteq Records!Present(rows)'
    BY <1>4, <2>1 DEF RecInv, RecShown, Records!Present
  <2> QED BY <1>1, <2>2 DEF RecInv, RecShown
<1> QED BY <1>2, <1>6, <1>7, <1>8, <1>9, <1>10 DEF RecInv

LEMMA RecAsks == ASSUME Records!ConstantsOK, RecInv, Records!Refresh \/ Records!ServeFetch PROVE RecInv'
<1>1. UNCHANGED <<stored, rows, selected, dialog, form, saving, asking, reqs, doomed, announced, saved, raced>>
  BY DEF Records!Refresh, Records!ServeFetch, Records!server, Records!pageVars, Records!history
<1>2. issued' \in 0 .. MaxRequests
  <2>1. issued' = issued \/ (issued' = issued + 1 /\ issued < MaxRequests)
    BY DEF Records!Refresh, Records!ServeFetch, Records!server
  <2>2. issued \in 0 .. MaxRequests /\ MaxRequests \in Nat
    BY DEF RecInv, RecTypes, Records!ConstantsOK
  <2> QED BY <2>1, <2>2
<1>3. \/ fetch' = [Records!NoFetch EXCEPT !.phase = "asked"] /\ behind' = behind
      \/ fetch' = [phase |-> "served", seen |-> stored] /\ behind' = FALSE
  BY DEF Records!Refresh, Records!ServeFetch, Records!history
<1>4. stored \in [Ids -> Records!Records \cup {Records!Gone}]
  BY DEF RecInv, RecTypes
<1>5. /\ fetch' \in [phase : {"none", "asked", "served"}, seen : [Ids -> Records!Records \cup {Records!Gone}]]
      /\ fetch'.phase # "none" /\ (fetch'.phase = "served" => fetch'.seen = stored)
  BY <1>3, <1>4 DEF Records!NoFetch
<1>6. RecTypes'
  BY <1>1, <1>2, <1>5 DEF RecInv, RecTypes, RecShape
<1>7. RecFits' /\ RecPairs' /\ RecGone' /\ RecSaved'
  BY <1>1 DEF RecInv, RecFits, RecFit, RecPairs, RecGone, Over, RecSaved
<1>8. RecSaves'
  BY <1>1 DEF RecInv, RecSaves
<1>9. RecRows'
  BY <1>1, <1>5 DEF RecRows
<1>10. RecFlags'
  BY <1>1, <1>3 DEF RecInv, RecFlags
<1>11. RecShown'
  BY <1>1 DEF RecInv, RecShown, Records!Present
<1> QED BY <1>6, <1>7, <1>8, <1>9, <1>10, <1>11 DEF RecInv

(* The user's steps on the page. *)
LEMMA RecTyped ==
  ASSUME Records!ConstantsOK, RecInv,
         \/ Records!StartCreate \/ Records!CloseForm \/ Records!AskBulkDelete \/ Records!Decline
         \/ \E i \in Ids : Records!StartEdit(i) \/ Records!AskRemove(i)
         \/ \E t \in Texts : Records!TypeText(t)
         \/ \E t \in Types : Records!ChooseType(t)
         \/ \E s \in Secrets : Records!TypeSecret(s)
         \/ \E c \in BOOLEAN : Records!TickClear(c)
         \/ \E S \in SUBSET Ids : Records!Select(S)
  PROVE  RecInv'
<1> USE DEF Records!history, Records!server
<1>1. /\ dialog \in [open : BOOLEAN, editing : Ids \cup {"none"}] /\ form \in Records!Forms /\ RecWish(form)
      /\ asking \subseteq Ids /\ selected \subseteq Records!Present(rows) /\ rows \in [Ids -> Records!Records \cup {Records!Gone}]
  BY DEF RecInv, RecTypes, RecShown
<1>2. Records!Present(rows) \subseteq Ids
  BY DEF Records!Present
<1>3. ASSUME NEW f \in Records!Forms, RecWish(f), Records!Typed(f) PROVE RecInv'
  BY <1>1, <1>3, RecQuiet DEF Records!Typed
<1>4. CASE Records!StartCreate
  <2>1. [open |-> TRUE, editing |-> "none"] \in [open : BOOLEAN, editing : Ids \cup {"none"}]
    OBVIOUS
  <2> QED BY <1>1, <1>4, <2>1, RecBlank, RecQuiet DEF Records!StartCreate
<1>5. CASE Records!CloseForm
  <2>1. Records!Closed \in [open : BOOLEAN, editing : Ids \cup {"none"}]
    BY DEF Records!Closed
  <2> QED BY <1>1, <1>5, <2>1, RecQuiet DEF Records!CloseForm
<1>6. ASSUME NEW S \in SUBSET Ids, Records!AskDelete(S) PROVE RecInv'
  BY <1>1, <1>6, RecQuiet DEF Records!AskDelete
<1>7. CASE Records!AskBulkDelete
  BY <1>2, <1>6, <1>7 DEF Records!AskBulkDelete
<1>8. CASE Records!Decline
  BY <1>1, <1>8, RecQuiet DEF Records!Decline
<1>9. ASSUME NEW i \in Ids, Records!StartEdit(i) PROVE RecInv'
  <2>1. rows[i] \in Records!Records
    BY <1>1, <1>9 DEF Records!StartEdit
  <2>2. Records!FormFromPlatformItem(rows[i]) \in Records!Forms /\ RecWish(Records!FormFromPlatformItem(rows[i]))
    BY <2>1 DEF Records!FormFromPlatformItem, Records!Forms, Records!Records, RecWish
  <2>3. [open |-> TRUE, editing |-> i] \in [open : BOOLEAN, editing : Ids \cup {"none"}]
    OBVIOUS
  <2> QED BY <1>1, <1>9, <2>2, <2>3, RecQuiet DEF Records!StartEdit
<1>10. ASSUME NEW i \in Ids, Records!AskRemove(i) PROVE RecInv'
  BY <1>6, <1>10 DEF Records!AskRemove
<1>11. ASSUME NEW t \in Texts, Records!TypeText(t) PROVE RecInv'
  <2>1. [form EXCEPT !.text = t] \in Records!Forms /\ RecWish([form EXCEPT !.text = t])
    BY <1>1 DEF Records!Forms, RecWish
  <2> QED BY <1>3, <1>11, <2>1 DEF Records!TypeText
<1>12. ASSUME NEW t \in Types, Records!ChooseType(t) PROVE RecInv'
  <2>1. Records!ChosenType(t) \in Records!Forms
    BY <1>1 DEF Records!Forms, Records!ChosenType
  <2>2. RecWish(Records!ChosenType(t))
    BY <1>1 DEF Records!Forms, Records!ChosenType, RecWish
  <2> QED BY <1>3, <1>12, <2>1, <2>2 DEF Records!ChooseType
<1>13. ASSUME NEW s \in Secrets, Records!TypeSecret(s) PROVE RecInv'
  <2>1. [form EXCEPT !.typed = s, !.clear = FALSE] \in Records!Forms
    BY <1>1 DEF Records!Forms
  <2>2. RecWish([form EXCEPT !.typed = s, !.clear = FALSE])
    BY <1>1, <1>13 DEF Records!Forms, RecWish, Records!TypeSecret
  <2> QED BY <1>3, <1>13, <2>1, <2>2 DEF Records!TypeSecret
<1>14. ASSUME NEW c \in BOOLEAN, Records!TickClear(c) PROVE RecInv'
  <2>1. Records!Ticked(c) \in Records!Forms
    BY <1>1 DEF Records!Forms, Records!Ticked
  <2>2. RecWish(Records!Ticked(c))
    BY <1>1, <1>14 DEF Records!Forms, RecWish, Records!Ticked, Records!TickClear
  <2> QED BY <1>3, <1>14, <2>1, <2>2 DEF Records!TickClear
<1>15. ASSUME NEW S \in SUBSET Ids, Records!Select(S) PROVE RecInv'
  BY <1>1, <1>15, RecQuiet DEF Records!Select
<1> QED BY <1>4, <1>5, <1>7, <1>8, <1>9, <1>10, <1>11, <1>12, <1>13, <1>14, <1>15

(* A request that is made, field by field. *)
LEMMA RecRequest ==
  ASSUME Records!ConstantsOK, RecInv, NEW by \in {"page", "other"}, NEW op \in {"create", "update", "delete"}, NEW id \in Ids \cup {"none"},
         NEW f \in Records!Forms, NEW todo \in SUBSET Ids, NEW m, m = Records!Request(by, op, id, f, todo)
  PROVE  /\ m.by = by /\ m.op = op /\ m.id = id /\ m.form = f /\ m.todo = todo /\ m.of = todo /\ m.phase = "send"
         /\ m \in RecRequests
<1>1. issued + 1 \in Nat
  BY DEF RecInv, RecTypes
<1> QED BY <1>1 DEF Records!Request, RecRequests, Records!Phases

LEMMA RecSends ==
  ASSUME Records!ConstantsOK, RecInv,
         \/ Records!Save \/ Records!Accept
         \/ \E i \in Ids : Records!OtherDeletes(i) \/ \E t \in Texts : Records!OtherUpdates(i, t)
  PROVE  RecInv'
<1> USE DEF Records!history, Records!pageVars
<1>1. /\ dialog.editing \in Ids \cup {"none"} /\ form \in Records!Forms /\ RecWish(form) /\ asking \subseteq Ids
  BY DEF RecInv, RecTypes, RecShown
<1>2. CASE Records!Save
  <2> DEFINE op == IF dialog.editing = "none" THEN "create" ELSE "update"
  <2>1. PICK m : m = Records!Request("page", op, dialog.editing, form, {}) /\ reqs' = reqs \cup {m}
    BY <1>2 DEF Records!Save
  <2>2. op \in {"create", "update", "delete"} /\ op # "delete" /\ (op = "update" => dialog.editing \in Ids)
    BY <1>1
  <2> HIDE DEF op
  <2>3. /\ m.by = "page" /\ m.op = op /\ m.id = dialog.editing /\ m.form = form /\ m.todo = {} /\ m.of = {} /\ m.phase = "send"
        /\ m \in RecRequests
    BY <1>1, <2>1, <2>2, RecRequest
  <2>4. RecShape(m)' /\ RecSave(m)
    BY <1>1, <2>2, <2>3 DEF RecShape, RecSave, Working
  <2> QED BY <1>1, <1>2, <2>1, <2>3, <2>4, RecNew DEF Records!Save
<1>3. CASE Records!Accept
  <2>1. PICK m : m = Records!Request("page", "delete", "none", Records!Blank, asking) /\ reqs' = reqs \cup {m}
    BY <1>3 DEF Records!Accept, Records!Targets
  <2>2. /\ m.by = "page" /\ m.op = "delete" /\ m.form = Records!Blank /\ m.todo = asking /\ m.of = asking /\ m.phase = "send"
        /\ m \in RecRequests
    BY <1>1, <2>1, RecRequest, RecBlank
  <2>3. RecShape(m)' /\ ~RecSave(m)
    BY <1>3, <2>2, RecBlank DEF RecShape, RecSave, Working, Records!Accept
  <2>4. doomed \subseteq doomed'
    BY <1>3 DEF Records!Accept
  <2> QED BY <1>3, <2>1, <2>2, <2>3, <2>4, RecNew DEF Records!Accept
<1>4. ASSUME NEW i \in Ids, Records!OtherDeletes(i) PROVE RecInv'
  <2>1. PICK m : m = Records!Request("other", "delete", "none", Records!Blank, {i}) /\ reqs' = reqs \cup {m}
    BY <1>4 DEF Records!OtherDeletes
  <2>2. /\ m.by = "other" /\ m.op = "delete" /\ m.form = Records!Blank /\ m.todo = {i} /\ m.of = {i} /\ m.phase = "send"
        /\ m \in RecRequests
    <3>1. {i} \in SUBSET Ids /\ "none" \in Ids \cup {"none"} /\ Records!Blank \in Records!Forms
      BY RecBlank
    <3> QED BY <2>1, <3>1, RecRequest
  <2>3. RecShape(m)' /\ ~RecSave(m)
    BY <1>4, <2>2, RecBlank DEF RecShape, RecSave, Working, Records!OtherDeletes
  <2>4. doomed \subseteq doomed'
    BY <1>4 DEF Records!OtherDeletes
  <2> QED BY <1>1, <1>4, <2>1, <2>2, <2>3, <2>4, RecNew DEF Records!OtherDeletes
<1>5. ASSUME NEW i \in Ids, NEW t \in Texts, Records!OtherUpdates(i, t) PROVE RecInv'
  <2> DEFINE f == [Records!Blank EXCEPT !.text = t]
  <2>0. f \in Records!Forms /\ RecWish(f)
    BY RecBlank DEF Records!Forms, RecWish
  <2>1. PICK m : m = Records!Request("other", "update", i, f, {}) /\ reqs' = reqs \cup {m}
    BY <1>5 DEF Records!OtherUpdates
  <2> HIDE DEF f
  <2>2. /\ m.by = "other" /\ m.op = "update" /\ m.id = i /\ m.form = f /\ m.todo = {} /\ m.of = {} /\ m.phase = "send"
        /\ m \in RecRequests
    BY <2>0, <2>1, RecRequest
  <2>3. RecShape(m)' /\ ~RecSave(m)
    BY <2>0, <2>2 DEF RecShape, RecSave, Working
  <2> QED BY <1>1, <1>5, <2>1, <2>2, <2>3, RecNew DEF Records!OtherUpdates
<1> QED BY <1>2, <1>3, <1>4, <1>5

LEMMA RecKeeps == ASSUME Records!ConstantsOK, RecInv, [Records!Next]_Records!vars PROVE RecInv'
<1>1. CASE UNCHANGED Records!vars
  <2>1. UNCHANGED <<Records!server, rows, fetch, selected, dialog, form, saving, asking, reqs, Records!history>>
    BY <1>1 DEF Records!vars, Records!pageVars
  <2>2. /\ dialog \in [open : BOOLEAN, editing : Ids \cup {"none"}] /\ form \in Records!Forms /\ RecWish(form)
        /\ asking \subseteq Ids /\ selected \subseteq Records!Present(rows)
    BY DEF RecInv, RecTypes, RecShown
  <2> QED BY <2>1, <2>2, RecQuiet
<1>2. ASSUME NEW r \in reqs, \/ Records!Read(r) \/ Records!Write(r) \/ Records!Log(r) \/ Records!Restore(r) \/ Records!Refuse(r)
                             \/ Records!RestoreFails(r) \/ Records!LoseAnswer(r)
                             \/ Records!Saved(r) \/ Records!DeletedOne(r) \/ Records!DeletedAll(r) \/ Records!StartFetch(r) \/ Records!Failed(r)
                             \/ \E i \in Ids : Records!Create(r, i)
      PROVE  RecInv'
  BY <1>2, RecReads, RecWrites, RecLogs, RecAnswers, RecRestores, RecRefused, RecSavedOne, RecDeletedOne, RecDeletedAll,
     RecStartsFetch, RecFails, RecCreates, RecNotRestored, RecLoses
<1>3. CASE Records!Refresh \/ Records!ServeFetch
  BY <1>3, RecAsks
<1>4. CASE Records!Fetched \/ Records!FetchFails
  BY <1>4, RecFetches
<1>5. CASE \/ Records!Save \/ Records!Accept
           \/ \E i \in Ids : Records!OtherDeletes(i) \/ \E t \in Texts : Records!OtherUpdates(i, t)
  BY <1>5, RecSends
<1>6. CASE \/ Records!StartCreate \/ Records!CloseForm \/ Records!AskBulkDelete \/ Records!Decline
           \/ \E i \in Ids : Records!StartEdit(i) \/ Records!AskRemove(i)
           \/ \E t \in Texts : Records!TypeText(t)
           \/ \E t \in Types : Records!ChooseType(t)
           \/ \E s \in Secrets : Records!TypeSecret(s)
           \/ \E c \in BOOLEAN : Records!TickClear(c)
           \/ \E S \in SUBSET Ids : Records!Select(S)
  BY <1>6, RecTyped
<1> QED BY <1>1, <1>2, <1>3, <1>4, <1>5, <1>6 DEF Records!Next

LEMMA RecShows ==
  ASSUME Records!ConstantsOK, RecInv
  PROVE  /\ Records!TypeOK /\ Records!RowsShowStored /\ Records!ReportedAreGone /\ Records!SavedIsStoredUnlessEmpty /\ Records!SelectionIsShown
         /\ Records!SavingIsTrue /\ Records!OneSecretWish
<1>1. Records!TypeOK
  <2>1. saving \in BOOLEAN
    BY DEF RecInv, RecFlags
  <2>2. fetch.phase \in {"none", "asked", "served"} /\ selected \subseteq Ids
    BY DEF RecInv, RecTypes, RecShown, Records!Present
  <2>3. \A r \in reqs : /\ r.op \in {"create", "update", "delete"} /\ r.phase \in Records!Phases
                        /\ r.todo \subseteq Ids /\ r.id \in Ids \cup {"none"} /\ r.form \in Records!Forms
    BY DEF RecInv, RecTypes, RecShape, RecRequests
  <2> QED BY <2>1, <2>2, <2>3 DEF Records!TypeOK, RecInv, RecTypes
<1>2. Records!RowsShowStored
  <2> SUFFICES ASSUME reqs = {}, fetch.phase = "none", ~behind PROVE rows = stored
    BY DEF Records!RowsShowStored
  <2>1. \A i \in Ids : rows[i] = stored[i]
    BY DEF RecInv, RecRows, Owed
  <2> QED BY <2>1 DEF RecInv, RecTypes
<1>3. Records!ReportedAreGone
  <2>1. announced \subseteq Ids
    BY DEF RecInv, RecTypes
  <2> QED BY <2>1 DEF RecInv, RecGone, Over, Records!ReportedAreGone
<1>4. Records!SavedIsStoredUnlessEmpty
  BY DEF RecInv, RecSaved, RecMatches, Records!SavedIsStoredUnlessEmpty
<1>5. Records!SelectionIsShown
  BY DEF RecInv, RecShown, Records!SelectionIsShown
<1>6. Records!SavingIsTrue
  <2>1. saving <=> \E r \in reqs : r.by = "page" /\ r.op # "delete"
    BY DEF RecInv, RecSaves, RecSave
  <2>2. saving \in BOOLEAN
    BY DEF RecInv, RecFlags
  <2> QED BY <2>1, <2>2 DEF Records!SavingIsTrue
<1>7. Records!OneSecretWish
  BY DEF RecInv, RecShown, RecWish, Records!OneSecretWish
<1> QED BY <1>1, <1>2, <1>3, <1>4, <1>5, <1>6, <1>7

(* Who changes a record. *)
LEMMA RecChanges ==
  ASSUME Records!ConstantsOK, RecInv, [Records!Next]_Records!vars, NEW i \in Ids, stored'[i] # stored[i], stored[i] # Records!Gone
  PROVE  \E r \in reqs : r.id = i /\ (Records!Write(r) \/ Records!Restore(r))
<1>1. \/ \E r \in reqs : Records!Write(r) \/ Records!Restore(r)
      \/ \E r \in reqs : \E j \in Ids : Records!Create(r, j)
      \/ stored' = stored
  BY DEF Records!Next, Records!vars, Records!server, Records!pageVars, Records!history, Records!StartCreate, Records!CloseForm, Records!Save, Records!AskBulkDelete, Records!AskDelete, Records!Decline, Records!Accept, Records!Refresh,
         Records!ServeFetch, Records!Fetched, Records!FetchFails, Records!StartEdit, Records!AskRemove, Records!OtherDeletes, Records!OtherUpdates, Records!TypeText, Records!ChooseType, Records!TypeSecret,
         Records!TickClear, Records!Typed, Records!Select, Records!Read, Records!Log, Records!Refuse, Records!RestoreFails, Records!LoseAnswer, Records!Saved, Records!DeletedOne, Records!DeletedAll, Records!StartFetch, Records!Failed
<1>2. ASSUME NEW r \in reqs, Records!Write(r) \/ Records!Restore(r) PROVE r.id = i
  <2>1. \E x : stored' = [stored EXCEPT ![r.id] = x]
    BY <1>2 DEF Records!Write, Records!Restore
  <2> QED BY <2>1 DEF RecInv, RecTypes
<1>3. ASSUME NEW r \in reqs, NEW j \in Ids, Records!Create(r, j) PROVE FALSE
  <2>1. stored[j] = Records!Gone /\ \E x : stored' = [stored EXCEPT ![j] = x]
    BY <1>3 DEF Records!Create
  <2> QED BY <2>1 DEF RecInv, RecTypes
<1> QED BY <1>1, <1>2, <1>3

LEMMA RecConfirmed == ASSUME Records!ConstantsOK, RecInv, [Records!Next]_Records!vars PROVE Records!OnlyConfirmedGo
<1> SUFFICES ASSUME NEW i \in Ids, stored[i] # Records!Gone, stored'[i] = Records!Gone
             PROVE  i \in doomed \/ \E r \in reqs : r.op = "create" /\ r.id = i /\ r.phase = "wrote"
  BY DEF Records!OnlyConfirmedGo
<1>1. PICK r \in reqs : r.id = i /\ (Records!Write(r) \/ Records!Restore(r))
  BY RecChanges
<1>2. RecShape(r) /\ r \in RecRequests
  BY DEF RecInv, RecTypes, RecShape
<1>3. CASE Records!Write(r)
  <2>1. r.phase = "read" /\ stored'[i] = IF r.op = "delete" THEN Records!Gone ELSE Records!UpdatedRecord(r.previous, r.form)
    BY <1>1, <1>3 DEF Records!Write, RecInv, RecTypes
  <2>2. CASE r.op = "delete"
    BY <1>1, <1>2, <2>1, <2>2 DEF RecShape, Working
  <2>3. CASE r.op # "delete"
    <3>1. r.previous \in Records!Records /\ r.form \in Records!Forms /\ RecWish(r.form)
      BY <1>2, <2>1 DEF RecShape, RecRequests
    <3>2. Records!UpdatedRecord(r.previous, r.form) # Records!Gone
      BY <3>1, RecUpdated, RecNotGone
    <3> QED BY <2>1, <2>3, <3>2
  <2> QED BY <2>2, <2>3
<1>4. CASE Records!Restore(r)
  <2>1. r.phase = "wrote" /\ r.previous = Records!Gone
    BY <1>1, <1>4 DEF Records!Restore, RecInv, RecTypes
  <2>2. r.op # "create" => r.previous \in Records!Records
    BY <1>2, <2>1 DEF RecShape
  <2>3. r.op = "create"
    BY <2>1, <2>2, RecNotGone
  <2> QED BY <1>1, <2>1, <2>3
<1> QED BY <1>1, <1>3, <1>4

LEMMA RecSecrets == ASSUME Records!ConstantsOK, RecInv, [Records!Next]_Records!vars PROVE Records!SecretsAreKept
<1> SUFFICES ASSUME NEW i \in Ids, stored[i] # Records!Gone, stored'[i] # Records!Gone, stored[i].secret # stored'[i].secret
             PROVE  \E r \in reqs : r.id = i /\ \/ r.form.typed # "" \/ r.form.clear \/ r.form.type = "public"
                                                \/ r.phase = "wrote" \/ i \in raced
  BY DEF Records!SecretsAreKept
<1>1. PICK r \in reqs : r.id = i /\ (Records!Write(r) \/ Records!Restore(r))
  BY RecChanges
<1>2. CASE Records!Restore(r)
  BY <1>1, <1>2 DEF Records!Restore
<1>3. CASE Records!Write(r)
  <2>1. r.phase = "read" /\ stored'[i] = IF r.op = "delete" THEN Records!Gone ELSE Records!UpdatedRecord(r.previous, r.form)
    BY <1>1, <1>3 DEF Records!Write, RecInv, RecTypes
  <2>2. stored'[i].secret = Records!NewSecret(r.previous.secret, r.form)
    <3>1. stored'[i] = Records!UpdatedRecord(r.previous, r.form)
      BY <2>1
    <3>2. Records!UpdatedRecord(r.previous, r.form).secret = Records!NewSecret(r.previous.secret, r.form)
      BY DEF Records!UpdatedRecord
    <3> QED BY <3>1, <3>2
  <2>3. i \notin raced => stored[i] = r.previous
    BY <1>1, <2>1 DEF RecInv, RecFits, RecFit, Working
  <2> SUFFICES ASSUME r.form.typed = "", ~r.form.clear, r.form.type # "public", i \notin raced PROVE FALSE
    BY <1>1
  <2>4. Records!NewSecret(r.previous.secret, r.form) = r.previous.secret
    BY DEF Records!NewSecret
  <2> QED BY <2>2, <2>3, <2>4
<1> QED BY <1>1, <1>2, <1>3

LEMMA RecInvariance == ASSUME Records!ConstantsOK PROVE Records!Spec => []RecInv
<1>1. Records!Init => RecInv
  BY RecInit
<1>2. RecInv /\ [Records!Next]_Records!vars => RecInv'
  BY RecKeeps
<1> QED BY <1>1, <1>2, PTL DEF Records!Spec

(* For any records, texts, types, secrets and number of requests: the rows *)
(* of a page at rest are the stored ones, unless an answer was lost, an    *)
(* undoing failed or came late, a load failed, a bulk deletion stopped     *)
(* half-way or a change was made elsewhere; what it reported as saved or   *)
(* deleted is so at the server, its selection is on display, its save      *)
(* button tells whether a save is under way, and its form never wants a    *)
(* secret both set and cleared (PlatformTablePage, handlePlatformItem).    *)
THEOREM RecordPagesAreTrue ==
  ASSUME Records!ConstantsOK
  PROVE  Records!Spec => [](/\ Records!TypeOK /\ Records!RowsShowStored /\ Records!ReportedAreGone /\ Records!SavedIsStoredUnlessEmpty /\ Records!SelectionIsShown
                            /\ Records!SavingIsTrue /\ Records!OneSecretWish)
<1>1. RecInv => /\ Records!TypeOK /\ Records!RowsShowStored /\ Records!ReportedAreGone /\ Records!SavedIsStoredUnlessEmpty /\ Records!SelectionIsShown
                /\ Records!SavingIsTrue /\ Records!OneSecretWish
  BY RecShows
<1> QED BY <1>1, RecInvariance, PTL

(* No record goes whose own deletion was not confirmed, and no secret      *)
(* changes that no request asked to change, however handlers overlap       *)
(* (bulkDelete, DeletePlatformItem, applyOIDCClientPlatformSecret).        *)
THEOREM RecordsGoAsAsked == ASSUME Records!ConstantsOK PROVE Records!Spec => [][Records!OnlyConfirmedGo /\ Records!SecretsAreKept]_Records!vars
<1>1. RecInv /\ [Records!Next]_Records!vars => Records!OnlyConfirmedGo /\ Records!SecretsAreKept
  BY RecConfirmed, RecSecrets
<1> QED BY <1>1, RecInvariance, PTL DEF Records!Spec

-----------------------------------------------------------------------------
(***************************************************************************)
(* The data table.                                                         *)
(***************************************************************************)

(* The module's counting is that of FiniteSets. *)
LEMMA TableCounts == (\A S : Table!Cardinality(S) = Cardinality(S)) /\ \A S : Table!IsFiniteSet(S) <=> IsFiniteSet(S)
<1>1. \A S : Table!Cardinality(S) = Cardinality(S)
  BY DEF Cardinality, Table!Cardinality
<1>2. \A S : Table!IsFiniteSet(S) <=> IsFiniteSet(S)
  BY DEF IsFiniteSet, Table!IsFiniteSet
<1> QED BY <1>1, <1>2

(* Division, for the page numbers. *)
LEMMA TableDiv ==
  ASSUME NEW a \in Nat, NEW s \in Nat \ {0}
  PROVE  (a \div s) \in Nat /\ (a \div s) * s <= a /\ a < ((a \div s) + 1) * s
  OBVIOUS

LEMMA TablePages ==
  ASSUME NEW c \in Nat, NEW s \in Nat \ {0}, NEW k \in Nat, k + 1 < (c + s - 1) \div s
  PROVE  (k + 1) * s < c
<1> DEFINE p == (c + s - 1) \div s
<1>1. c + s - 1 \in Nat
  OBVIOUS
<1>2. p \in Nat /\ p * s <= c + s - 1
  BY <1>1, TableDiv
<1>3. k + 2 <= p
  BY <1>2
<1> HIDE DEF p
<1>4. (k + 2) * s <= p * s
  BY <1>2, <1>3
<1>5. (k + 2) * s = (k + 1) * s + s /\ (k + 1) * s \in Nat
  OBVIOUS
<1> QED BY <1>2, <1>4, <1>5

(* What the constants are taken for. *)
LEMMA TableConstants ==
  ASSUME Table!ConstantsOK
  PROVE  IsFiniteSet(Rows) /\ Rows \subseteq Nat /\ Cardinality(Rows) \in Nat /\ \A s \in Sizes : s \in Nat \ {0} /\ s \in Nat /\ s >= 1
<1>1. IsFiniteSet(Rows) /\ Rows \subseteq Nat
  BY TableCounts DEF Table!ConstantsOK
<1>2. Cardinality(Rows) \in Nat
  BY <1>1, FS_CardinalityType
<1>3. Sizes \subseteq Nat \ {0}
  BY DEF Table!ConstantsOK
<1> QED BY <1>1, <1>2, <1>3

LEMMA TableProduct == ASSUME NEW k \in Nat, NEW s \in Nat, s >= 1 PROVE k * s \in Nat /\ k <= k * s /\ (k + 1) * s = k * s + s
<1>1. k * s \in Nat /\ k * (s - 1) \in Nat
  OBVIOUS
<1>2. k * s = k * (s - 1) + k
  OBVIOUS
<1>3. (k + 1) * s = k * s + s
  OBVIOUS
<1> QED BY <1>1, <1>2, <1>3

(* The rows that are left by the filter, numbered without a gap in the     *)
(* order of the table.                                                     *)
LEMMA TablePlaces ==
  ASSUME Table!ConstantsOK, Table!TypeOK
  PROVE  /\ Table!Filtered \subseteq Rows /\ IsFiniteSet(Table!Filtered) /\ Cardinality(Table!Filtered) \in Nat /\ Cardinality(Rows) \in Nat
         /\ Cardinality(Table!Filtered) <= Cardinality(Rows)
         /\ Table!Filtered # {} => Cardinality(Table!Filtered) > 0
         /\ \A r \in Table!Filtered : Table!Place(r) \in 0 .. Cardinality(Table!Filtered) - 1
         /\ \A r, q \in Table!Filtered : r < q => Table!Place(r) < Table!Place(q)
         /\ \A n \in 0 .. Cardinality(Table!Filtered) - 1 : \E r \in Table!Filtered : Table!Place(r) = n
<1>1. Table!Filtered \subseteq Rows /\ IsFiniteSet(Rows) /\ Rows \subseteq Nat
  BY TableCounts DEF Table!ConstantsOK, Table!TypeOK, Table!Filtered
<1>2. IsFiniteSet(Table!Filtered) /\ Cardinality(Table!Filtered) <= Cardinality(Rows)
  BY <1>1, FS_Subset
<1>3. Cardinality(Rows) \in Nat /\ Table!Filtered \subseteq Nat
  BY <1>1, FS_CardinalityType
<1> DEFINE place(r) == Cardinality({s \in Table!Filtered : s < r})
<1>4. /\ Cardinality(Table!Filtered) \in Nat /\ (Table!Filtered # {} => Cardinality(Table!Filtered) > 0)
      /\ \A r \in Table!Filtered : place(r) \in 0 .. Cardinality(Table!Filtered) - 1
      /\ \A r, q \in Table!Filtered : r < q => place(r) < place(q)
      /\ \A n \in 0 .. Cardinality(Table!Filtered) - 1 : \E r \in Table!Filtered : place(r) = n
  BY <1>2, <1>3, SetPlaces
<1>5. \A r : place(r) = Table!Place(r)
  BY TableCounts DEF Table!Place
<1> HIDE DEF place
<1> QED BY <1>1, <1>2, <1>3, <1>4, <1>5

(* A page begins with a row of the rows there are; after the effect, with  *)
(* one of the rows that the filter finds.  A column is left.               *)
TableInv ==
  /\ Table!TypeOK /\ pageIndex * pageSize <= Cardinality(Rows)
  /\ ~pending /\ Table!Filtered # {} => pageIndex * pageSize < Cardinality(Table!Filtered)
  /\ Columns \ hidden # {}

LEMMA TableInit == ASSUME Table!ConstantsOK, Table!Init PROVE TableInv
<1>1. Cardinality(Rows) \in Nat /\ pageIndex = 0 /\ pageSize \in Nat /\ pageIndex * pageSize = 0
  <2>1. pageIndex = 0 /\ pageSize \in Nat
    BY TableConstants DEF Table!Init
  <2> QED BY <2>1, TableConstants
<1>2. 0 \in 0 .. Cardinality(Rows)
  BY <1>1
<1>3. pending \in BOOLEAN
  BY DEF Table!Init
<1>4. Table!TypeOK
  BY <1>1, <1>2, <1>3, TableCounts DEF Table!Init, Table!TypeOK
<1>5. Columns \ hidden # {}
  BY DEF Table!Init, Table!ConstantsOK
<1>6. Table!Filtered # {} => 0 < Cardinality(Table!Filtered)
  BY <1>4, TablePlaces
<1>7. 0 <= Cardinality(Rows)
  BY <1>1
<1> QED BY <1>1, <1>4, <1>5, <1>6, <1>7 DEF TableInv

(* What a step that sets the page has to respect. *)
LEMMA TablePageKeeps ==
  ASSUME Table!ConstantsOK, TableInv, UNCHANGED <<data, query, selected, hidden, pending>>, pageSize' \in Sizes, pageIndex' \in Nat,
         pageIndex' * pageSize' <= Cardinality(Rows),
         ~pending /\ Table!Filtered # {} => pageIndex' * pageSize' < Cardinality(Table!Filtered)
  PROVE  TableInv'
<1>1. Cardinality(Rows) \in Nat /\ pageSize' \in Nat /\ pageSize' >= 1
  BY TableConstants
<1>2. pageIndex' <= pageIndex' * pageSize' /\ pageIndex' * pageSize' \in Nat
  BY <1>1, TableProduct
<1>3. pageIndex' \in 0 .. Cardinality(Rows)
  BY <1>1, <1>2
<1>4. pending' \in BOOLEAN
  BY DEF TableInv, Table!TypeOK
<1>5. Table!TypeOK'
  BY <1>3, <1>4, TableCounts DEF TableInv, Table!TypeOK
<1>6. Table!Filtered' = Table!Filtered
  BY DEF Table!Filtered
<1> QED BY <1>5, <1>6 DEF TableInv

LEMMA TableKeeps == ASSUME Table!ConstantsOK, TableInv, [Table!Next]_Table!vars PROVE TableInv'
<1>1. /\ pageIndex \in Nat /\ pageSize \in Nat \ {0} /\ pageSize \in Sizes /\ Cardinality(Rows) \in Nat /\ Cardinality(Table!Filtered) \in Nat
      /\ Cardinality(Table!Filtered) <= Cardinality(Rows) /\ (Table!Filtered # {} => Cardinality(Table!Filtered) > 0)
      /\ pageIndex * pageSize <= Cardinality(Rows) /\ pageIndex * pageSize \in Nat
      /\ (~pending /\ Table!Filtered # {} => pageIndex * pageSize < Cardinality(Table!Filtered))
  <2>1. Table!TypeOK /\ pageIndex * pageSize <= Cardinality(Rows) /\ (~pending /\ Table!Filtered # {} => pageIndex * pageSize < Cardinality(Table!Filtered))
    BY DEF TableInv
  <2>2. pageSize \in Sizes /\ pageIndex \in 0 .. Cardinality(Rows)
    BY <2>1, TableCounts DEF Table!TypeOK
  <2>3. pageIndex \in Nat /\ pageSize \in Nat \ {0} /\ Cardinality(Rows) \in Nat /\ pageSize \in Nat /\ pageSize >= 1
    BY <2>2, TableConstants
  <2> QED BY <2>1, <2>2, <2>3, TablePlaces, TableProduct
<1>2. ASSUME NEW d \in SUBSET Rows, Table!DataChanges(d) PROVE TableInv'
  BY <1>2 DEF Table!DataChanges, TableInv, Table!TypeOK
<1>3. ASSUME NEW q \in Queries \cup {""}, Table!SetQuery(q) PROVE TableInv'
  BY <1>3 DEF Table!SetQuery, TableInv, Table!TypeOK
<1>4. ASSUME Table!Settle PROVE TableInv'
  <2>1. /\ pageIndex' = 0 /\ pending' = FALSE /\ UNCHANGED <<data, query, pageSize, selected, hidden>>
    BY <1>4 DEF Table!Settle, Table!PageAfter
  <2>2. 0 \in 0 .. Cardinality(Rows) /\ 0 * pageSize = 0
    BY <1>1
  <2>3. pending' \in BOOLEAN
    BY <2>1
  <2>4. Table!TypeOK'
    BY <2>1, <2>2, <2>3, TableCounts DEF TableInv, Table!TypeOK
  <2>5. Table!Filtered' = Table!Filtered
    BY <2>1 DEF Table!Filtered
  <2> QED BY <1>1, <2>1, <2>2, <2>4, <2>5 DEF TableInv
<1>5. ASSUME Table!NextPage PROVE TableInv'
  <2>1. /\ pageIndex' = pageIndex + 1 /\ UNCHANGED <<data, query, pageSize, selected, hidden, pending>>
        /\ pageIndex + 1 < (Cardinality(Table!Filtered) + pageSize - 1) \div pageSize
    BY <1>5, TableCounts DEF Table!NextPage, Table!CanNextPage, Table!PageCount
  <2>2. (pageIndex + 1) * pageSize < Cardinality(Table!Filtered)
    BY <1>1, <2>1, TablePages
  <2>3. (pageIndex + 1) * pageSize \in Nat /\ pageIndex + 1 \in Nat
    BY <1>1
  <2>4. (pageIndex + 1) * pageSize <= Cardinality(Rows)
    BY <1>1, <2>2, <2>3
  <2> QED BY <1>1, <2>1, <2>2, <2>3, <2>4, TablePageKeeps
<1>6. ASSUME Table!PreviousPage PROVE TableInv'
  <2>1. /\ pageIndex' = pageIndex - 1 /\ UNCHANGED <<data, query, pageSize, selected, hidden, pending>> /\ pageIndex > 0
    BY <1>6 DEF Table!PreviousPage, Table!CanPreviousPage
  <2>2. pageIndex - 1 \in Nat /\ (pageIndex - 1) * pageSize = pageIndex * pageSize - pageSize
    BY <1>1, <2>1
  <2>3. (pageIndex - 1) * pageSize \in Nat /\ (pageIndex - 1) * pageSize <= pageIndex * pageSize
    BY <1>1, <2>2
  <2>4. (pageIndex - 1) * pageSize <= Cardinality(Rows) /\ (~pending /\ Table!Filtered # {} => (pageIndex - 1) * pageSize < Cardinality(Table!Filtered))
    BY <1>1, <2>3
  <2> QED BY <1>1, <2>1, <2>2, <2>4, TablePageKeeps
<1>7. ASSUME NEW size \in Sizes, Table!SetPageSize(size) PROVE TableInv'
  <2> DEFINE a == pageIndex * pageSize
  <2>1. /\ pageIndex' = a \div size /\ pageSize' = size /\ UNCHANGED <<data, query, selected, hidden, pending>>
    BY <1>7 DEF Table!SetPageSize, Table!PageForSize
  <2>2. a \in Nat /\ size \in Nat \ {0}
    BY <1>1 DEF Table!ConstantsOK
  <2>3. a <= Cardinality(Rows) /\ (~pending /\ Table!Filtered # {} => a < Cardinality(Table!Filtered))
    BY <1>1
  <2> HIDE DEF a
  <2>4. (a \div size) \in Nat /\ (a \div size) * size <= a
    BY <2>2, TableDiv
  <2>5. (a \div size) * size \in Nat
    BY <2>2, <2>4
  <2>6. (a \div size) * size <= Cardinality(Rows) /\ (~pending /\ Table!Filtered # {} => (a \div size) * size < Cardinality(Table!Filtered))
    BY <1>1, <2>2, <2>3, <2>4, <2>5
  <2> QED BY <2>1, <2>4, <2>6, TablePageKeeps
<1>8. ASSUME NEW s \in SUBSET Rows, Table!Selects(s) PROVE TableInv'
  <2>1. UNCHANGED <<data, query, pageIndex, pageSize, hidden>> /\ selected' = s /\ (pending => pending') /\ pending' \in BOOLEAN
    BY <1>8 DEF Table!Selects, TableInv, Table!TypeOK
  <2>2. Table!Filtered' = Table!Filtered
    BY <2>1 DEF Table!Filtered
  <2> QED BY <2>1, <2>2 DEF TableInv, Table!TypeOK
<1>9. ASSUME (\E r \in Table!Shown : Table!ToggleRow(r)) \/ Table!ToggleAllPageRows \/ Table!ClearSelection PROVE TableInv'
  <2>1. Table!Shown \subseteq Rows /\ selected \subseteq Rows
    BY TablePlaces DEF Table!Shown, TableInv, Table!TypeOK
  <2>2. \E s \in SUBSET Rows : Table!Selects(s)
    BY <1>9, <2>1 DEF Table!ToggleRow, Table!ToggleAllPageRows, Table!ClearSelection, Table!Toggled
  <2> QED BY <1>8, <2>2
<1>10. ASSUME NEW c \in Columns, Table!ToggleColumn(c) PROVE TableInv'
  <2>1. /\ UNCHANGED <<data, query, pageIndex, pageSize, selected, pending>>
        /\ hidden' = (IF c \in hidden THEN hidden \ {c} ELSE hidden \cup {c}) /\ (c \in hidden \/ Cardinality(Columns \ hidden) > 1)
    BY <1>10, TableCounts DEF Table!ToggleColumn, Table!CanToggle
  <2>2. Columns \ hidden' # {}
    <3>1. CASE c \in hidden
      BY <2>1, <3>1
    <3>2. CASE c \notin hidden
      <4>1. Columns \ hidden # {c}
        BY <2>1, <3>2, FS_Singleton
      <4> QED BY <2>1, <3>2, <4>1
    <3> QED BY <3>1, <3>2
  <2>3. Table!Filtered' = Table!Filtered /\ pending' \in BOOLEAN
    BY <2>1 DEF Table!Filtered, TableInv, Table!TypeOK
  <2> QED BY <2>1, <2>2, <2>3 DEF TableInv, Table!TypeOK
<1>11. ASSUME Table!ShowAllColumns \/ UNCHANGED Table!vars PROVE TableInv'
  <2>1. UNCHANGED <<data, query, pageIndex, pageSize, selected, pending>> /\ hidden' \subseteq hidden
    BY <1>11 DEF Table!ShowAllColumns, Table!vars
  <2>2. Table!Filtered' = Table!Filtered /\ pending' \in BOOLEAN
    BY <2>1 DEF Table!Filtered, TableInv, Table!TypeOK
  <2> QED BY <2>1, <2>2 DEF TableInv, Table!TypeOK
<1> QED BY <1>2, <1>3, <1>4, <1>5, <1>6, <1>7, <1>9, <1>10, <1>11 DEF Table!Next

LEMMA TableShows == ASSUME Table!ConstantsOK, TableInv PROVE Table!TypeOK /\ Table!PageIsTrue
<1>1. Table!TypeOK
  BY DEF TableInv
<1> DEFINE C == Cardinality(Table!Filtered)
           a == pageIndex * pageSize
           b == (pageIndex + 1) * pageSize
<1>2. ASSUME ~pending, Table!Filtered # {} PROVE Table!Shown # {} /\ {Table!Place(r) + 1 : r \in Table!Shown} = Table!FirstRow .. Table!LastRow
  <2>1. /\ a \in Nat /\ b \in Nat /\ C \in Nat /\ a < C /\ a < b
    <3>1. pageIndex \in Nat /\ pageSize \in Nat /\ pageSize >= 1 /\ C \in Nat
      <4>1. Table!TypeOK /\ pageSize \in Sizes /\ pageIndex \in 0 .. Cardinality(Rows)
        BY TableCounts DEF TableInv, Table!TypeOK
      <4> QED BY <4>1, TableConstants, TablePlaces
    <3>2. b = a + pageSize /\ a \in Nat
      BY <3>1, TableProduct
    <3> QED BY <1>2, <3>1, <3>2 DEF TableInv
  <2>2. Table!Shown = {r \in Table!Filtered : a <= Table!Place(r) /\ Table!Place(r) < b}
    BY DEF Table!Shown
  <2>3. Table!FirstRow = a + 1 /\ Table!LastRow = IF C < b THEN C ELSE b
    BY <1>2, TableCounts DEF Table!FirstRow, Table!LastRow
  <2>4. /\ \A r \in Table!Filtered : Table!Place(r) \in 0 .. C - 1
        /\ \A n \in 0 .. C - 1 : \E r \in Table!Filtered : Table!Place(r) = n
    BY <1>1, TablePlaces
  <2> HIDE DEF a, b, C
  <2>5. PICK r \in Table!Filtered : Table!Place(r) = a
    BY <2>1, <2>4
  <2>6. Table!Shown # {}
    BY <2>1, <2>2, <2>5
  <2>7. ASSUME NEW s \in Table!Shown PROVE Table!Place(s) + 1 \in Table!FirstRow .. Table!LastRow
    BY <2>1, <2>2, <2>3, <2>4
  <2>8. ASSUME NEW n \in Table!FirstRow .. Table!LastRow PROVE \E s \in Table!Shown : Table!Place(s) + 1 = n
    <3>1. n - 1 \in 0 .. C - 1 /\ a <= n - 1 /\ n - 1 < b /\ n \in Nat
      BY <2>1, <2>3
    <3>2. PICK s \in Table!Filtered : Table!Place(s) = n - 1
      BY <2>4, <3>1
    <3> QED BY <2>2, <3>1, <3>2
  <2> QED BY <2>6, <2>7, <2>8
<1> QED BY <1>1, <1>2 DEF TableInv, Table!PageIsTrue

LEMMA TableClicks == ASSUME Table!ConstantsOK, TableInv, [Table!Next]_Table!vars PROVE Table!OnlyShownChange
<1> SUFFICES ASSUME data' = data, selected' # {}, NEW r \in Rows \ Table!Shown PROVE r \in selected <=> r \in selected'
  BY DEF Table!OnlyShownChange
<1>1. CASE selected' = selected
  BY <1>1
<1>2. CASE \E q \in Table!Shown : Table!ToggleRow(q)
  <2>1. PICK q \in Table!Shown : selected' = IF q \in selected THEN selected \ {q} ELSE selected \cup {q}
    BY <1>2 DEF Table!ToggleRow, Table!Selects
  <2>2. r # q
    OBVIOUS
  <2> QED BY <2>1, <2>2
<1>3. CASE Table!ToggleAllPageRows
  <2>1. selected' = selected \ Table!Shown \/ selected' = selected \cup Table!Shown
    BY <1>3 DEF Table!ToggleAllPageRows, Table!Selects, Table!Toggled
  <2> QED BY <2>1
<1>4. CASE Table!ClearSelection
  BY <1>4 DEF Table!ClearSelection, Table!Selects
<1>5. CASE \E d \in SUBSET Rows : Table!DataChanges(d)
  BY <1>5 DEF Table!DataChanges
<1> QED BY <1>1, <1>2, <1>3, <1>4, <1>5
  DEF Table!Next, Table!vars, Table!SetQuery, Table!Settle, Table!NextPage, Table!PreviousPage, Table!SetPageSize, Table!ToggleColumn, Table!ShowAllColumns

LEMMA TableSizes == ASSUME Table!ConstantsOK, TableInv, [Table!Next]_Table!vars PROVE Table!FirstRowStays
<1> SUFFICES ASSUME pageSize' # pageSize, ~pending PROVE \E r \in Table!Shown \cap Table!Shown' : \A s \in Table!Shown : r <= s
  BY DEF Table!FirstRowStays
<1>1. PICK size \in Sizes : Table!SetPageSize(size)
  BY DEF Table!Next, Table!vars, Table!DataChanges, Table!SetQuery, Table!Settle, Table!NextPage, Table!PreviousPage, Table!ToggleRow, Table!ToggleAllPageRows, Table!ClearSelection,
         Table!Selects, Table!ToggleColumn, Table!ShowAllColumns
<1> DEFINE C == Cardinality(Table!Filtered)
           a == pageIndex * pageSize
           b == (pageIndex + 1) * pageSize
<1>2. /\ pageIndex' = a \div size /\ pageSize' = size /\ UNCHANGED <<data, query>> /\ Table!Filtered # {}
  BY <1>1 DEF Table!SetPageSize, Table!PageForSize
<1>3. /\ a \in Nat /\ b \in Nat /\ C \in Nat /\ a < C /\ a < b /\ size \in Nat \ {0}
  <2>1. pageIndex \in Nat /\ pageSize \in Nat /\ pageSize >= 1 /\ C \in Nat
    <3>1. Table!TypeOK /\ pageSize \in Sizes /\ pageIndex \in 0 .. Cardinality(Rows)
      BY TableCounts DEF TableInv, Table!TypeOK
    <3> QED BY <3>1, TableConstants, TablePlaces
  <2>2. b = a + pageSize /\ a \in Nat
    BY <2>1, TableProduct
  <2>3. size \in Nat \ {0}
    BY TableConstants
  <2>4. a < C
    BY <1>2 DEF TableInv
  <2> QED BY <2>1, <2>2, <2>3, <2>4
<1>4. /\ Table!Filtered \subseteq Nat
      /\ \A r \in Table!Filtered : Table!Place(r) \in 0 .. C - 1
      /\ \A r, q \in Table!Filtered : r < q => Table!Place(r) < Table!Place(q)
      /\ \A n \in 0 .. C - 1 : \E r \in Table!Filtered : Table!Place(r) = n
  BY TablePlaces DEF TableInv, Table!ConstantsOK
<1>5. Table!Shown = {r \in Table!Filtered : a <= Table!Place(r) /\ Table!Place(r) < b}
  BY DEF Table!Shown
<1>6. Table!Shown' = {r \in Table!Filtered : (a \div size) * size <= Table!Place(r) /\ Table!Place(r) < ((a \div size) + 1) * size}
  BY <1>2 DEF Table!Shown, Table!Filtered, Table!Place
<1> HIDE DEF a, b, C
<1>7. (a \div size) * size <= a /\ a < ((a \div size) + 1) * size
  BY <1>3, TableDiv
<1>8. PICK r \in Table!Filtered : Table!Place(r) = a
  BY <1>3, <1>4
<1>9. r \in Table!Shown \cap Table!Shown'
  BY <1>3, <1>5, <1>6, <1>7, <1>8
<1>10. ASSUME NEW s \in Table!Shown PROVE r <= s
  <2>1. s \in Table!Filtered /\ a <= Table!Place(s)
    BY <1>5
  <2>2. ~(s < r)
    BY <1>3, <1>4, <1>8, <2>1
  <2> QED BY <1>4, <1>8, <2>1, <2>2
<1> QED BY <1>9, <1>10

LEMMA TableInvariance == ASSUME Table!ConstantsOK PROVE Table!Spec => []TableInv
<1>1. Table!Init => TableInv
  BY TableInit
<1>2. TableInv /\ [Table!Next]_Table!vars => TableInv'
  BY TableKeeps
<1> QED BY <1>1, <1>2, PTL DEF Table!Spec

(* For any rows, filters, page sizes and columns: a table whose effect has *)
(* run shows rows whenever its filter finds any, and the text under it     *)
(* names exactly these (DataTable).                                        *)
THEOREM TablePagesAreTrue == ASSUME Table!ConstantsOK PROVE Table!Spec => [](Table!TypeOK /\ Table!PageIsTrue)
<1>1. TableInv => Table!TypeOK /\ Table!PageIsTrue
  BY TableShows
<1> QED BY <1>1, TableInvariance, PTL

(* A click changes the selection of rows on the page only, and a new page  *)
(* size keeps the first of them in view (toggleAllPageRowsSelected,        *)
(* setPageSize).                                                           *)
THEOREM TableClicksAreLocal == ASSUME Table!ConstantsOK PROVE Table!Spec => [][Table!OnlyShownChange /\ Table!FirstRowStays]_Table!vars
<1>1. TableInv /\ [Table!Next]_Table!vars => Table!OnlyShownChange /\ Table!FirstRowStays
  BY TableClicks, TableSizes
<1> QED BY <1>1, TableInvariance, PTL DEF Table!Spec
=============================================================================
