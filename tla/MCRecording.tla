---------------------------- MODULE MCRecording ----------------------------
(* Instances of Recording for TLC. *)
EXTENDS Recording, TLC

Symmetry == Permutations(Jobs) \cup Permutations(Deletes)
=============================================================================
