------------------------------- MODULE MCLocks -------------------------------
(* Locks for TLC.                                                          *)
EXTENDS Locks, TLC

Symmetry == Permutations(Procs) \cup Permutations(Nodes)
=============================================================================
