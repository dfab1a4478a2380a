---------------------------- MODULE MCScheduler ----------------------------
(* Instances of Scheduler for TLC.                                         *)
EXTENDS Scheduler, TLC

CONSTANTS t1, t2

(* A recurring log cleanup and a backup at start. *)
TwoKinds == t1 :> "cleanup" @@ t2 :> "backup"
TwoRecurring == {t1}
TwoOnStart == {t2}

(* One recurring asset check. *)
OneKind == t1 :> "prelogged"
OneRecurring == {t1}
NoOnStart == {}

RunSymmetry == Permutations(Runs)
=============================================================================
