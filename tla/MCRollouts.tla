----------------------------- MODULE MCRollouts -----------------------------
(* Rollouts on small instances: see the .cfg files for the bounds.         *)
EXTENDS Rollouts, TLC

Symmetry == Permutations(Requests)

\* Without heartbeats (Beating = {}) node and lastApply are written and never read: states
\* that differ in them alone have the same future.
ViewWithoutPresence == <<latest, rollout, proven, current, desired, lastGood, request, worker>>
=============================================================================
