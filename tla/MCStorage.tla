----------------------------- MODULE MCStorage -----------------------------
(* Small instances of file storage for TLC. *)
EXTENDS Storage, TLC

Symmetry == Permutations(Attempts)
=============================================================================
