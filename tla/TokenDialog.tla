---------------------------- MODULE TokenDialog ----------------------------
(***************************************************************************)
(* The dialog that issues an agent gateway's registration token            *)
(* (AgentGatewayTokenDialog), with the application context it depends on   *)
(* (AppProvider) and the server's handler.                                 *)
(*                                                                         *)
(* The dialog asks for a token in an effect whose dependencies name the    *)
(* context value, and every answer is followed by a refresh of the data    *)
(* that value holds.                                                       *)
(***************************************************************************)
EXTENDS Naturals, FiniteSets

CONSTANTS MaxTokens,     \* bound on the token requests of one behaviour
          MaxChanges,    \* bound on other writes to the store, and on theme changes
          MaxOpenings    \* bound on the times the dialog is opened

(* What the values of the constants satisfy. *)
ConstantsOK == {MaxTokens, MaxChanges, MaxOpenings} \subseteq Nat

VARIABLES
  gen,       \* the token whose hash the gateway's row holds, 0 for none
  writes,    \* number of writes to what the bootstrap data shows
  rows,      \* the writes the page's bootstrap data has seen
  fetch,     \* the bootstrap request under way
  opening,   \* number of times the dialog was opened
  open,      \* the dialog is mounted
  allowed,   \* canIssueToken
  stale,     \* the context value changed since the effect ran
  run,       \* number of the effect's newest run, 0 once it is cleaned up
  runs,      \* runs of issue() that have not returned
  issued,    \* token requests so far
  changes,   \* other writes and theme changes so far
  loading, error, shown,     \* the dialog's state: shown is its token, 0 for ''
  crossed    \* history: a run wrote the row over the token of a later one

server == <<gen, writes>>
page == <<rows, fetch, stale>>
view == <<loading, error, shown>>
counters == <<opening, issued, changes>>
vars == <<server, page, view, counters, open, allowed, run, runs, crossed>>

Tokens == 1 .. MaxTokens
NoFetch == [phase |-> "none", seen |-> 0]

TypeOK ==
  /\ gen \in 0 .. MaxTokens /\ writes \in Nat /\ rows \in 0 .. writes
  /\ fetch \in [phase : {"none", "asked", "served"}, seen : 0 .. writes]
  /\ opening \in 0 .. MaxOpenings /\ issued \in 0 .. MaxTokens /\ changes \in 0 .. MaxChanges
  /\ open \in BOOLEAN /\ allowed \in BOOLEAN /\ stale \in BOOLEAN
  /\ run \in 0 .. MaxTokens
  /\ runs \subseteq [n : Tokens, before : 0 .. MaxTokens,
                     phase : {"sent", "saved", "ok", "failed", "refresh", "fetching", "done"}]
  /\ loading \in BOOLEAN /\ error \in BOOLEAN /\ shown \in 0 .. MaxTokens
  /\ crossed \in BOOLEAN

Init ==
  /\ gen = 0 /\ writes = 0 /\ rows = 0 /\ fetch = NoFetch
  /\ opening = 0 /\ issued = 0 /\ changes = 0
  /\ open = FALSE /\ allowed \in BOOLEAN /\ stale = FALSE
  /\ run = 0 /\ runs = {}
  /\ loading = FALSE /\ error = FALSE /\ shown = 0
  /\ crossed = FALSE

To(r, phase) == (runs \ {r}) \cup {[r EXCEPT !.phase = phase]}
Alive(r) == r.n = run

(* issue() up to its await: the run number is the token it will be given. *)
NewRun == [n |-> issued + 1, before |-> 0, phase |-> "sent"]

(***************************************************************************)
(* The dialog                                                              *)
(***************************************************************************)

(* The operation is chosen in the row's menu: the dialog mounts with       *)
(* loading set and no token, and its effect runs.                          *)
Open ==
  /\ ~open /\ opening < MaxOpenings /\ issued < MaxTokens
  /\ open' = TRUE /\ opening' = opening + 1 /\ stale' = FALSE /\ shown' = 0
  /\ IF allowed
       THEN /\ loading' = TRUE /\ error' = FALSE
            /\ run' = issued + 1 /\ runs' = runs \cup {NewRun} /\ issued' = issued + 1
       ELSE /\ loading' = FALSE /\ error' = TRUE
            /\ UNCHANGED <<run, runs, issued>>
  /\ UNCHANGED <<server, rows, fetch, changes, allowed, crossed>>

(* The context value differs from the one the effect depends on: its       *)
(* cleanup clears alive, and the effect runs again.                        *)
RunEffectAgain ==
  /\ open /\ stale
  /\ stale' = FALSE
  /\ IF allowed
       THEN /\ issued < MaxTokens
            /\ loading' = TRUE /\ error' = FALSE
            /\ run' = issued + 1 /\ runs' = runs \cup {NewRun} /\ issued' = issued + 1
       ELSE /\ loading' = FALSE /\ error' = TRUE
            /\ UNCHANGED <<run, runs, issued>>
  /\ UNCHANGED <<server, rows, fetch, opening, changes, open, allowed, shown, crossed>>

Close ==
  /\ open
  /\ open' = FALSE /\ run' = 0 /\ loading' = FALSE /\ error' = FALSE /\ shown' = 0
  /\ UNCHANGED <<server, page, counters, allowed, runs, crossed>>

(* Mutant: the answer is shown whether or not the run is the newest one. *)
AnsweredUnguarded(r) ==
  /\ r.phase = "ok"
  /\ shown' = (IF open THEN r.n ELSE shown) /\ runs' = To(r, "refresh")
  /\ UNCHANGED <<server, page, loading, error, counters, open, allowed, run, crossed>>

(* The token arrives: the run that was cleaned up ignores it. *)
Answered(r) ==
  /\ r.phase = "ok"
  /\ IF Alive(r)
       THEN shown' = r.n /\ runs' = To(r, "refresh")
       ELSE runs' = To(r, "done") /\ UNCHANGED shown
  /\ UNCHANGED <<server, page, loading, error, counters, open, allowed, run, crossed>>

Failed(r) ==
  /\ r.phase = "failed"
  /\ error' = (Alive(r) \/ error) /\ runs' = To(r, "done")
  /\ UNCHANGED <<server, page, loading, shown, counters, open, allowed, run, crossed>>

(* Mutant: loading is cleared by every run. *)
FinallyUnguarded(r) ==
  /\ r.phase = "done"
  /\ loading' = FALSE /\ runs' = runs \ {r}
  /\ UNCHANGED <<server, page, error, shown, counters, open, allowed, run, crossed>>

Finally(r) ==
  /\ r.phase = "done"
  /\ loading' = (loading /\ ~Alive(r)) /\ runs' = runs \ {r}
  /\ UNCHANGED <<server, page, error, shown, counters, open, allowed, run, crossed>>

(***************************************************************************)
(* The application context                                                 *)
(***************************************************************************)

(* refresh: after two other queries the bootstrap query is invalidated,    *)
(* which cancels its fetch under way and starts another one.               *)
Refetch(r) ==
  /\ r.phase = "refresh"
  /\ fetch' = [phase |-> "asked", seen |-> 0]
  /\ runs' = {IF q = r THEN [q EXCEPT !.phase = "fetching"]
              ELSE IF q.phase = "fetching" THEN [q EXCEPT !.phase = "done"] ELSE q : q \in runs}
  /\ UNCHANGED <<server, rows, stale, view, counters, open, allowed, run, crossed>>

(* handleBootstrap reads the store. *)
BootstrapServed ==
  /\ fetch.phase = "asked"
  /\ fetch' = [phase |-> "served", seen |-> writes]
  /\ UNCHANGED <<server, rows, stale, view, counters, open, allowed, run, runs, crossed>>

(* The data arrives.  Equal data keep their identity; other data make a    *)
(* new context value.                                                      *)
BootstrapArrives ==
  /\ fetch.phase = "served"
  /\ fetch' = NoFetch /\ rows' = fetch.seen
  /\ stale' = (stale \/ fetch.seen # rows)
  /\ runs' = {IF q.phase = "fetching" THEN [q EXCEPT !.phase = "done"] ELSE q : q \in runs}
  /\ UNCHANGED <<server, view, counters, open, allowed, run, crossed>>

(* The system's colour scheme changes: resolvedTheme is part of the value. *)
ThemeChanges ==
  /\ changes < MaxChanges /\ changes' = changes + 1
  /\ stale' = TRUE
  /\ UNCHANGED <<server, rows, fetch, view, opening, issued, open, allowed, run, runs, crossed>>

(***************************************************************************)
(* The server                                                              *)
(***************************************************************************)

(* Another request writes something the bootstrap data shows. *)
OtherWrite ==
  /\ changes < MaxChanges /\ changes' = changes + 1
  /\ writes' = writes + 1
  /\ UNCHANGED <<gen, page, view, opening, issued, open, allowed, run, runs, crossed>>

(* handleAgentGatewayToken saves the hash of a new token. *)
SaveToken(r) ==
  /\ r.phase = "sent"
  /\ gen' = r.n /\ writes' = writes + 1
  /\ runs' = (runs \ {r}) \cup {[r EXCEPT !.phase = "saved", !.before = gen]}
  /\ crossed' = (crossed \/ gen > r.n)
  /\ UNCHANGED <<page, view, counters, open, allowed, run>>

(* The gateway is gone or disabled, or the row cannot be saved. *)
RefuseToken(r) ==
  /\ r.phase = "sent"
  /\ runs' = To(r, "failed")
  /\ UNCHANGED <<server, page, view, counters, open, allowed, run, crossed>>

(* The operation log is written and the token returned. *)
LogToken(r) ==
  /\ r.phase = "saved"
  /\ writes' = writes + 1 /\ runs' = To(r, "ok")
  /\ UNCHANGED <<gen, page, view, counters, open, allowed, run, crossed>>

(* The log cannot be written: the row that was read is put back. *)
RestoreGateway(r) ==
  /\ r.phase = "saved"
  /\ gen' = r.before /\ writes' = writes + 1 /\ runs' = To(r, "failed")
  /\ crossed' = (crossed \/ gen > r.n)
  /\ UNCHANGED <<page, view, counters, open, allowed, run>>

Next ==
  \/ Open \/ RunEffectAgain \/ Close
  \/ BootstrapServed \/ BootstrapArrives \/ ThemeChanges \/ OtherWrite
  \/ \E r \in runs : \/ Answered(r) \/ Failed(r) \/ Finally(r) \/ Refetch(r)
                     \/ SaveToken(r) \/ RefuseToken(r) \/ LogToken(r) \/ RestoreGateway(r)

Spec == Init /\ [][Next]_vars

(***************************************************************************)
(* Properties                                                              *)
(***************************************************************************)

(* The fields of the token and of the agent commands are only drawn with a *)
(* token in them: the end of a run that was cleaned up, or of one that     *)
(* failed, does not reveal them empty.                                     *)
FieldsHaveToken == open /\ ~loading /\ ~error => shown # 0

(* At rest the token on display is the one the gateway accepts, however    *)
(* many the effect asked for and in whichever order they were answered,    *)
(* unless a run wrote the row, or put it back, after a later one had.      *)
ShownIsValid == open /\ runs = {} /\ ~stale /\ ~error /\ ~crossed => shown = gen

(* While the dialog stays open its token is only replaced by one that was  *)
(* asked for later: an answer that arrives late is ignored.                *)
ShownNeverOlder == (open /\ open') => shown' >= shown

=============================================================================
