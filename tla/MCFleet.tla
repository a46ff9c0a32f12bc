------------------------------ MODULE MCFleet ------------------------------
(* Fleet on small instances: see the .cfg files for the bounds.            *)
EXTENDS Fleet

\* Without heartbeats node, lastApply and beat are written and never read: states that
\* differ in them alone have the same future.
ViewWithoutPresence == <<latest, rollout, proven, current, desired, lastGood, request, worker,
                         hostVars, enrolled, late>>
=============================================================================
