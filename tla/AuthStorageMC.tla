---------------------------- MODULE AuthStorageMC ----------------------------
(* AuthStorage for a few interchangeable processes, for TLC. *)
EXTENDS AuthStorage, TLC

Symmetry == Permutations(Procs)
=============================================================================
