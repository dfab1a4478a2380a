----------------------------- MODULE LiveView -----------------------------
(***************************************************************************)
(* What the browser promises of its remote connections: a session is       *)
(* attached once, at most one is attached at a time and it is the one on   *)
(* the screen, and a session that was let go is never attached again.      *)
(***************************************************************************)
EXTENDS Naturals

CONSTANT Sessions     \* numbers of the sessions the server may create

VARIABLES shown,      \* the session on the screen, 0 when there is none
          link        \* link[s]: "new", "attached" or "gone"

viewVars == <<shown, link>>

Detached == [s \in Sessions |-> IF link[s] = "attached" THEN "gone" ELSE link[s]]

ViewInit == shown = 0 /\ link = [s \in Sessions |-> "new"]

Attach(s) ==
  /\ link[s] = "new"
  /\ shown' = s
  /\ link' = [Detached EXCEPT ![s] = "attached"]

Drop(s) ==
  /\ link[s] = "attached"
  /\ link' = [link EXCEPT ![s] = "gone"]
  /\ UNCHANGED shown

Dismiss ==
  /\ shown # 0
  /\ shown' = 0
  /\ link' = Detached

ViewNext == Dismiss \/ \E s \in Sessions : Attach(s) \/ Drop(s)

ViewSpec == ViewInit /\ [][ViewNext]_viewVars
=============================================================================
