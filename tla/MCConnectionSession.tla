------------------------ MODULE MCConnectionSession ------------------------
(* Instances of ConnectionSession for TLC. *)
EXTENDS ConnectionSession, TLC

Symmetry == Permutations(Conns) \cup Permutations(Closers)
=============================================================================
