------------------------------- MODULE MCLocks -------------------------------
(* Instances of Locks for TLC. *)
EXTENDS Locks, TLC

Symmetry == Permutations(Pids)
=============================================================================
