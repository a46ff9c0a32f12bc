------------------------------ MODULE NodeConfig ------------------------------
(***************************************************************************)
(* What the control plane promises of the configurations of its nodes, with*)
(* nothing of how: no requests, reports, statuses, timeouts or snapshots.  *)
(* Bundles are published one after the other and never change; the node is *)
(* to run its target, and runs, as far as anybody knows, the active bundle;*)
(* a bundle is proven once the node has run it.  Module Rollouts           *)
(* implements this specification.                                          *)
(***************************************************************************)
EXTENDS Naturals, Sequences

CONSTANT Nodes

VARIABLES
  published,  \* published[n]: the bundles of node n, each with its content and fallback
  proven,     \* proven[n]: the bundles that n has run
  active,     \* active[n]: the bundle n runs, or 0
  target      \* target[n]: the bundle n is to run, or 0

vars == <<published, proven, active, target>>

Init ==
  /\ published = [n \in Nodes |-> <<>>]
  /\ proven = [n \in Nodes |-> {}]
  /\ active = [n \in Nodes |-> 0]
  /\ target = [n \in Nodes |-> 0]

\* A bundle has a new content or that of a proven bundle, and falls back on a
\* proven bundle or on nothing.  It becomes the target.
Publish(n) ==
  LET v == Len(published[n]) + 1 IN
  /\ target' = [target EXCEPT ![n] = v]
  /\ UNCHANGED <<proven, active>>
  /\ \E fallback \in {0} \cup proven[n],
        content \in {v} \cup {published[n][w].content : w \in proven[n]} :
       published' = [published EXCEPT ![n] = Append(@, [content |-> content, fallback |-> fallback])]

Run(n, b) ==
  /\ active' = [active EXCEPT ![n] = b]
  /\ target' = [target EXCEPT ![n] = b]
  /\ UNCHANGED published

\* The node runs a bundle.
Activate(n) ==
  \E v \in 1..Len(published[n]) :
    /\ Run(n, v)
    /\ proven' = [proven EXCEPT ![n] = @ \cup {v}]

\* The node runs the fallback of a bundle that failed.
Revert(n) == \E v \in 1..Len(published[n]) : Run(n, published[n][v].fallback) /\ UNCHANGED proven

\* The target is given up.
Abandon(n) ==
  /\ target' = [target EXCEPT ![n] = active[n]]
  /\ UNCHANGED <<published, proven, active>>

Next == \E n \in Nodes : Publish(n) \/ Activate(n) \/ Revert(n) \/ Abandon(n)

Spec == Init /\ [][Next]_vars
===============================================================================
