------------------------------ MODULE MCAgent ------------------------------
(* The agent against any control plane, on small instances.                *)
EXTENDS Agent
=============================================================================
