------------------------------- MODULE Fleet -------------------------------
(***************************************************************************)
(* One agent and the control plane: the agent of module Agent calls the    *)
(* transactions of module Rollouts over HTTP, while administrators and the *)
(* worker change the same rows.  A call whose answer the agent gave up on  *)
(* may still be served, at any later time, or never.                       *)
(*                                                                         *)
(* Nodes are the identities the agent can be given, one per registration.  *)
(***************************************************************************)
EXTENDS Integers, FiniteSets

CONSTANTS Nodes, NoNode, Requests, MaxBundles, MaxErrors, Bad, MaxFaults

ASSUME FleetAssumption ==
  /\ NoNode \notin Nodes
  /\ MaxBundles \in Nat /\ MaxErrors \in Nat /\ MaxFaults \in Nat
  /\ Bad \subseteq 1..MaxBundles

VARIABLES
  latest, rollout, proven, current, desired, lastGood, lastApply, node, request, beat, worker,
  agent, disk, passed, faults,
  enrolled, \* the nodes that were registered
  late      \* the calls the agent gave up on that may still be served

Store == INSTANCE Rollouts WITH Beating <- Nodes
Host == INSTANCE Agent

storeVars == <<latest, rollout, proven, current, desired, lastGood, lastApply, node, request,
               beat, worker>>
hostVars == <<agent, disk, passed, faults>>
vars == <<storeVars, hostVars, enrolled, late>>

\* What the agent is calling, by its stage.
What == [renewing |-> "renew", registering |-> "register", asking |-> "next",
         starting |-> "in_progress", failing |-> "failed", succeeding |-> "succeeded",
         undoing |-> "rolled_back"]

Call == [what |-> What[agent.stage], node |-> agent.node,
         version |-> IF agent.stage = "asking" THEN agent.current ELSE agent.bundle.version]

TypeOK ==
  /\ Store!TypeOK /\ Host!TypeOK
  /\ enrolled \subseteq Nodes
  /\ late \subseteq [what : {What[s] : s \in DOMAIN What}, node : Nodes \cup {NoNode},
                     version : 0..MaxBundles]

Init == Store!Init /\ Host!Init /\ enrolled = {} /\ late = {}

-----------------------------------------------------------------------------
(* The handlers the agent calls.                                           *)

\* Mutant: the answer pairs the newest version with the config the node runs.
HandleNextOfCurrent(n, have, b) ==
  \/ /\ Store!Offer(n, have) # Store!NullBundle
     /\ Store!NextConfig(n, have)
     /\ b = [version |-> desired[n],
             content |-> rollout[n][IF current[n] = 0 THEN desired[n] ELSE current[n]].content]
  \/ /\ Store!Offer(n, have) = Store!NullBundle
     /\ UNCHANGED storeVars
     /\ b = Host!NoBundle

\* config/next: the answer is the bundle, or 204 for NullBundle.
HandleNext(n, have, b) ==
  \/ /\ Store!Offer(n, have) # Store!NullBundle
     /\ Store!NextConfig(n, have)
     /\ b = [version |-> desired[n], content |-> rollout[n][desired[n]].content]
  \/ /\ Store!Offer(n, have) = Store!NullBundle
     /\ UNCHANGED storeVars
     /\ b = Host!NoBundle

\* RegisterNode gives the node a new id; the ids are alike, so it takes the next one.
HandleRegister(n) ==
  /\ n \notin enrolled
  /\ n = CHOOSE m \in Nodes : m \notin enrolled
  /\ enrolled' = enrolled \cup {n}
  /\ UNCHANGED storeVars

Offers == Host!Offered \cup {Host!NoBundle}

\* Mutant: the bundle is handed out without marking its rollout.
ServeNextUnmarked ==
  /\ agent.stage = "asking"
  /\ Store!Offer(agent.node, agent.current) # Store!NullBundle
  /\ Host!Fetched([version |-> desired[agent.node],
                   content |-> rollout[agent.node][desired[agent.node]].content])
  /\ UNCHANGED <<storeVars, enrolled, late>>

ServeNext ==
  /\ agent.stage = "asking"
  /\ \E b \in Offers :
       /\ HandleNext(agent.node, agent.current, b)
       /\ IF b = Host!NoBundle THEN Host!NothingNew ELSE Host!Fetched(b)
  /\ UNCHANGED <<enrolled, late>>


ServeReport ==
  /\ agent.stage \in {"starting", "failing", "succeeding", "undoing"}
  /\ Store!ReportConfig(Call.node, Call.version, Call.what)
  /\ Host!ReportAccepted
  /\ UNCHANGED <<enrolled, late>>

ServeRenew ==
  /\ agent.stage = "renewing"
  /\ Store!RenewNode(agent.node)
  /\ Host!Renewed
  /\ UNCHANGED <<enrolled, late>>

ServeRegister ==
  /\ agent.stage = "registering"
  /\ \/ \E n \in Nodes : HandleRegister(n) /\ Host!Registered(n)
     \/ Host!Refused /\ UNCHANGED <<storeVars, enrolled>>
  /\ UNCHANGED late

-----------------------------------------------------------------------------
(* The network.                                                            *)

GiveUp ==
  /\ Host!CallFailed \/ Host!RenewFailed
  /\ late' \in {late, late \cup {Call}}
  /\ UNCHANGED <<storeVars, enrolled>>

\* Mutant: a late report is applied to the node's newest bundle.
ServeLateToNewest(c) ==
  /\ c \in late
  /\ late' = late \ {c}
  /\ c.what \in Store!ReportStatus
  /\ Store!ReportConfig(c.node, latest[c.node], c.what)
  /\ UNCHANGED <<hostVars, enrolled>>

ServeLate(c) ==
  /\ c \in late
  /\ late' = late \ {c}
  /\ \/ /\ c.what = "renew"
        /\ Store!RenewNode(c.node)
        /\ UNCHANGED enrolled
     \/ /\ c.what = "next"
        /\ \E b \in Offers : HandleNext(c.node, c.version, b)
        /\ UNCHANGED enrolled
     \/ /\ c.what \in Store!ReportStatus
        /\ Store!ReportConfig(c.node, c.version, c.what)
        /\ UNCHANGED enrolled
     \/ /\ c.what = "register"
        /\ \E n \in Nodes : HandleRegister(n)
  /\ UNCHANGED hostVars

-----------------------------------------------------------------------------
AdminNext ==
  /\ \E q \in Requests :
       \/ \E n \in enrolled : \/ Store!BeginCreate(q, n)
                              \/ \E v \in 1..MaxBundles : Store!BeginRollback(q, n, v)
       \/ Store!CreateRollout(q) \/ Store!RollbackRollout(q) \/ Store!EndRequest(q)
  /\ UNCHANGED <<hostVars, enrolled, late>>

WorkerNext == Store!WorkerNext /\ UNCHANGED <<hostVars, enrolled, late>>

ServerNext == ServeNext \/ ServeReport \/ ServeRenew \/ ServeRegister

AgentNext ==
  /\ Host!BeginCycle \/ Host!LocalStep \/ Host!DiskError \/ Host!Crash
  /\ UNCHANGED <<storeVars, enrolled, late>>

Next == AdminNext \/ WorkerNext \/ ServerNext \/ AgentNext \/ GiveUp \/ \E c \in late : ServeLate(c)

Spec == Init /\ [][Next]_vars

\* The agent's ticker fires for ever, its local steps end, and the control
\* plane answers the call the agent waits for.
Fairness ==
  /\ WF_vars(Host!BeginCycle /\ UNCHANGED <<storeVars, enrolled, late>>)
  /\ WF_vars(Host!LocalStep /\ UNCHANGED <<storeVars, enrolled, late>>)
  /\ WF_vars(ServerNext)

FairSpec == Spec /\ Fairness

-----------------------------------------------------------------------------
\* The agents the control plane really has behave as Rollouts assumes of them:
\* they report only about bundles handed to them, however late a report is
\* served and whatever the agent forgot in a crash in between.
ImplementsRollouts == Store!Spec

\* A bundle the control plane records as proven (so every bundle it records as
\* current, as last known good or falls back on) passed every check on that
\* very node: reports served late, in any order with the timeouts, rollbacks and
\* crashes in between, are never booked to another bundle.
ProvenPassed == \A n \in Nodes : \A v \in proven[n] : <<n, v>> \in passed

\* A config that fails its checks goes no further than the rollout it came with:
\* it is never recorded as the current one, no failing rollout falls back on it and
\* no rollback copies it, whatever is lost, late or forgotten on the way.
OnlyGoodSpreads ==
  \A n \in Nodes :
    /\ current[n] # 0 => rollout[n][current[n]].content \notin Bad
    /\ \A v \in 1..latest[n] :
         LET row == rollout[n][v] IN
         /\ row.previous # 0 => rollout[n][row.previous].content \notin Bad
         /\ row.content # v => row.content \notin Bad

\* The agent stands at a version it never had from the node it is now: it brought
\* it from an earlier identity, and it is not below the version desired of this one.
BroughtTooHigh(n) == agent.current >= desired[n] /\ <<n, agent.current>> \notin passed


=============================================================================
