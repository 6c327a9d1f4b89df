---------------------------- MODULE MCScheduler ----------------------------
(* Small instances of the scheduler for TLC. *)
EXTENDS Scheduler, TLC

Symmetry == Permutations(Leases)
SymmetryAll == Permutations(Leases) \cup Permutations(Workers)

Now == {0}
OneLater == {1}
=============================================================================
