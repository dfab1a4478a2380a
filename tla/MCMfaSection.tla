---------------------------- MODULE MCMfaSection ----------------------------
(* MfaSection with up to five requests. *)
EXTENDS MfaSection
=============================================================================
