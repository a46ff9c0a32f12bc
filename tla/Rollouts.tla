------------------------------ MODULE Rollouts ------------------------------
(***************************************************************************)
(* The rollout half of the control plane: the tables config_bundles,       *)
(* rollouts, node_config_states, node_config_applies and nodes, and the    *)
(* transactions of internal/platform/rollouts.go and store.go that write   *)
(* them on behalf of administrators, of the agents and of the worker.      *)
(*                                                                         *)
(* Every Create and every Rollback inserts one bundle and one rollout with *)
(* version max + 1 of the node, so a rollout is named by (node, version);  *)
(* version 0 stands for a NULL bundle reference.                           *)
(*                                                                         *)
(* Transactions are READ COMMITTED.  A transaction that writes blindly is  *)
(* one step, at its commit.  A statement that waits for a row lock re-reads*)
(* the locked row, but its subselects on other tables keep the snapshot    *)
(* the statement began with: such operations are two steps, the first of   *)
(* which takes the snapshot (Begin...).                                    *)
(***************************************************************************)
EXTENDS Integers, FiniteSets

CONSTANTS
  Nodes,       \* the registered nodes
  Beating,     \* the nodes whose agent renews and heartbeats in this instance
  Requests,    \* the administrators' requests that can be served at a time
  MaxBundles,  \* bound: bundles ever created for one node
  MaxErrors    \* bound: database errors that abort a pass of the worker

ASSUME RolloutsAssumption ==
  /\ Beating \subseteq Nodes
  /\ MaxBundles \in Nat
  /\ MaxErrors \in Nat

VARIABLES
  latest,    \* latest[n]: max(bundle_version) of node n
  rollout,   \* rollout[n][v]: the rollout of bundle v: status, previous bundle, content
  proven,    \* proven[n]: the bundles with a 'succeeded' row in node_config_applies
  current,   \* node_config_states.current_bundle_id
  desired,   \* node_config_states.desired_bundle_id
  lastGood,  \* node_config_states.last_known_good_bundle_id
  lastApply, \* node_config_states.last_apply_status
  node,      \* node[n]: nodes.status, nodes.health_status, whether last_heartbeat_at is recent
  request,   \* request[q]: an administrator's request between its snapshot and its commit
  beat,      \* beat[n]: a heartbeat between its snapshot and its commit
  worker     \* the worker's pass over the stale rollouts

configVars == <<current, desired, lastGood, lastApply>>
vars == <<latest, rollout, proven, configVars, node, request, beat, worker>>

NullBundle == 0
Versions == 1..MaxBundles
Bundles == 0..MaxBundles

ReportStatus == {"in_progress", "succeeded", "failed", "rolled_back"}
Terminal == {"succeeded", "failed", "rolled_back"}
Awaited == {"awaiting_apply", "in_progress"}
BadApply == {"failed", "rolled_back"}

\* The content of a bundle is named by the version that first carried it: a
\* Create carries a new content, a Rollback a copy of an older bundle's.
NoRollout == [status |-> "none", previous |-> NullBundle, content |-> NullBundle]
RolloutRow == [status : {"none", "pending", "awaiting_apply"} \cup ReportStatus,
               previous : Bundles, content : Bundles]

\* health_status and health_score are written in pairs only: (online, 100),
\* (degraded, 70), (offline, 0).  The pair is named by its status.
NodeRow == [status : {"registered", "ready", "offline"},
            health : {"online", "degraded", "offline"},
            recent : BOOLEAN]

Idle == [kind |-> "idle"]
CreateRequest == [kind : {"create"}, node : Nodes, target : {NullBundle}, seen : Bundles]
RollbackRequest == [kind : {"rollback"}, node : Nodes, target : Versions, seen : Bundles]

TypeOK ==
  /\ latest \in [Nodes -> Bundles]
  /\ rollout \in [Nodes -> [Versions -> RolloutRow]]
  /\ proven \in [Nodes -> SUBSET Versions]
  /\ current \in [Nodes -> Bundles]
  /\ desired \in [Nodes -> Bundles]
  /\ lastGood \in [Nodes -> Bundles]
  /\ lastApply \in [Nodes -> {"none"} \cup Terminal]
  /\ node \in [Nodes -> NodeRow]
  /\ request \in [Requests -> {Idle} \cup CreateRequest \cup RollbackRequest]
  /\ beat \in [Nodes -> {"idle", "none"} \cup Terminal]
  /\ worker \in [stage : {"idle", "failing"}, stale : SUBSET (Nodes \X Versions),
                 errors : 0..MaxErrors]

-----------------------------------------------------------------------------
(* A node as RegisterNode leaves it: no bundle, no heartbeat yet.          *)
Init ==
  /\ latest = [n \in Nodes |-> 0]
  /\ rollout = [n \in Nodes |-> [v \in Versions |-> NoRollout]]
  /\ proven = [n \in Nodes |-> {}]
  /\ current = [n \in Nodes |-> NullBundle]
  /\ desired = [n \in Nodes |-> NullBundle]
  /\ lastGood = [n \in Nodes |-> NullBundle]
  /\ lastApply = [n \in Nodes |-> "none"]
  /\ node = [n \in Nodes |-> [status |-> "registered", health |-> "offline", recent |-> FALSE]]
  /\ request = [q \in Requests |-> Idle]
  /\ beat = [n \in Nodes |-> "idle"]
  /\ worker = [stage |-> "idle", stale |-> {}, errors |-> 0]

-----------------------------------------------------------------------------
(* Administrators.  The first statement of both transactions reads the     *)
(* node's current bundle in a subselect and then waits for the node's row  *)
(* lock: seen is the bundle that was current when the statement began.     *)
(* Requests from another tenant end in 404 and change nothing.             *)

\* Mutant: the fallback of a new rollout is read from desired_bundle_id.
BeginCreateFromDesired(q, n) ==
  /\ request[q] = Idle
  /\ request' = [request EXCEPT ![q] = [kind |-> "create", node |-> n,
                                        target |-> NullBundle, seen |-> desired[n]]]
  /\ UNCHANGED <<latest, rollout, proven, configVars, node, beat, worker>>

BeginCreate(q, n) ==
  /\ request[q] = Idle
  /\ request' = [request EXCEPT ![q] = [kind |-> "create", node |-> n,
                                        target |-> NullBundle, seen |-> current[n]]]
  /\ UNCHANGED <<latest, rollout, proven, configVars, node, beat, worker>>

BeginRollback(q, n, v) ==
  /\ request[q] = Idle
  /\ v <= latest[n]
  /\ request' = [request EXCEPT ![q] = [kind |-> "rollback", node |-> n,
                                        target |-> v, seen |-> current[n]]]
  /\ UNCHANGED <<latest, rollout, proven, configVars, node, beat, worker>>

\* Mutant: the version is computed from the bundle seen current, not from max.
AddRolloutAfterPrevious(n, previous, content) ==
  LET v == previous + 1 IN
  /\ latest' = [latest EXCEPT ![n] = v]
  /\ rollout' = [rollout EXCEPT ![n][v] =
                   [status |-> "pending", previous |-> previous, content |-> content]]
  /\ desired' = [desired EXCEPT ![n] = v]

\* One more bundle and its pending rollout; the node is to converge to it.
AddRollout(n, previous, content) ==
  LET v == latest[n] + 1 IN
  /\ latest' = [latest EXCEPT ![n] = v]
  /\ rollout' = [rollout EXCEPT ![n][v] =
                   [status |-> "pending", previous |-> previous, content |-> content]]
  /\ desired' = [desired EXCEPT ![n] = v]

CreateRollout(q) ==
  LET n == request[q].node IN
  /\ request[q].kind = "create"
  /\ latest[n] < MaxBundles
  /\ AddRollout(n, request[q].seen, latest[n] + 1)
  /\ request' = [request EXCEPT ![q] = Idle]
  /\ UNCHANGED <<proven, current, lastGood, lastApply, node, beat, worker>>

\* The guards of RollbackRollout: the rollout's status is read under its row
\* lock, the node's current bundle is the one in the statement's snapshot.
MayRollBack(q) ==
  LET r == rollout[request[q].node][request[q].target] IN
  /\ r.status = "succeeded"
  /\ request[q].seen = request[q].target
  /\ r.previous # NullBundle

RollbackRollout(q) ==
  LET n == request[q].node
      v == request[q].target IN
  /\ request[q].kind = "rollback"
  /\ MayRollBack(q)
  /\ latest[n] < MaxBundles
  /\ AddRollout(n, v, rollout[n][rollout[n][v].previous].content)
  /\ request' = [request EXCEPT ![q] = Idle]
  /\ UNCHANGED <<proven, current, lastGood, lastApply, node, beat, worker>>

\* 409 for a rollout that cannot be rolled back; any request may also end in
\* a database error or a closed connection: its transaction is rolled back.
EndRequest(q) ==
  /\ request[q] # Idle
  /\ request' = [request EXCEPT ![q] = Idle]
  /\ UNCHANGED <<latest, rollout, proven, configVars, node, beat, worker>>

-----------------------------------------------------------------------------
(* The agent's polling: config/next and config/report.                     *)


\* The bundle config/next answers an agent that runs version have, NullBundle
\* for 204.  NULL joins with nothing, and only an unconverged node is served.
Offer(n, have) ==
  IF desired[n] # NullBundle /\ desired[n] # current[n] /\ have < desired[n]
  THEN desired[n] ELSE NullBundle

NextConfig(n, have) ==
  LET v == Offer(n, have) IN
  /\ v # NullBundle
  /\ rollout' = [rollout EXCEPT ![n][v].status =
                   IF @ = "pending" THEN "awaiting_apply" ELSE @]
  /\ UNCHANGED <<latest, proven, configVars, node, request, beat, worker>>

\* A report about bundle v, as the agent sends it: (online, 100) with
\* in_progress and succeeded, (degraded, 70) with failed and rolled_back.
\* Nothing looks at the rollout's status: a report is applied whenever it comes.
SetCurrent(n, b) ==
  /\ current' = [current EXCEPT ![n] = b]
  /\ desired' = [desired EXCEPT ![n] = b]
  /\ lastGood' = [lastGood EXCEPT ![n] = b]

SetHealth(n, h) == node' = [node EXCEPT ![n].health = h]

\* Mutant: every report is recorded as the node's last apply.
ReportConfigLogged(n, v, s) ==
  /\ rollout' = [rollout EXCEPT ![n][v].status = s]
  /\ lastApply' = [lastApply EXCEPT ![n] = s]
  /\ UNCHANGED <<latest, proven, current, desired, lastGood, node, request, beat, worker>>

\* Mutant: a rolled back node is taken to run the version before v.
ReportConfigToPredecessor(n, v, s) ==
  /\ rollout' = [rollout EXCEPT ![n][v].status = s]
  /\ proven' = [proven EXCEPT ![n] = IF s = "succeeded" THEN @ \cup {v} ELSE @]
  /\ CASE s = "succeeded" -> SetCurrent(n, v)
       [] s = "rolled_back" -> SetCurrent(n, v - 1)
       [] OTHER -> UNCHANGED <<current, desired, lastGood>>
  /\ lastApply' = [lastApply EXCEPT ![n] = IF s \in Terminal THEN s ELSE @]
  /\ UNCHANGED <<latest, node, request, beat, worker>>

ReportConfig(n, v, s) ==
  /\ rollout' = [rollout EXCEPT ![n][v].status = s]
  /\ \/ /\ s = "in_progress"
        /\ UNCHANGED <<proven, configVars, node>>
     \/ /\ s = "succeeded"
        /\ proven' = [proven EXCEPT ![n] = @ \cup {v}]
        /\ SetCurrent(n, v)
        /\ SetHealth(n, "online")
     \/ /\ s = "failed"
        /\ UNCHANGED <<proven, current, desired, lastGood>>
        /\ SetHealth(n, "degraded")
     \/ /\ s = "rolled_back"
        /\ SetCurrent(n, rollout[n][v].previous)
        /\ SetHealth(n, "degraded")
        /\ UNCHANGED proven
  /\ s \in Terminal => lastApply' = [lastApply EXCEPT ![n] = s]
  /\ UNCHANGED <<latest, request, beat, worker>>

-----------------------------------------------------------------------------
(* Presence: heartbeats, renewals, the 90 seconds without a heartbeat.     *)

\* HeartbeatNode derives the health from last_apply_status in a subselect,
\* which keeps its snapshot while the statement waits for the node's row.
BeginHeartbeat(n) ==
  /\ n \in Beating
  /\ beat[n] = "idle"
  /\ beat' = [beat EXCEPT ![n] = lastApply[n]]
  /\ UNCHANGED <<latest, rollout, proven, configVars, node, request, worker>>

\* Mutant: only a failed last apply degrades a node, not one rolled back.
HeartbeatNodeFailedOnly(n) ==
  /\ beat[n] # "idle"
  /\ node' = [node EXCEPT ![n] =
                [status |-> "ready",
                 health |-> IF beat[n] = "failed" THEN "degraded" ELSE "online",
                 recent |-> TRUE]]
  /\ beat' = [beat EXCEPT ![n] = "idle"]
  /\ UNCHANGED <<latest, rollout, proven, configVars, request, worker>>

HeartbeatNode(n) ==
  /\ beat[n] # "idle"
  /\ node' = [node EXCEPT ![n] =
                [status |-> "ready",
                 health |-> IF beat[n] \in BadApply THEN "degraded" ELSE "online",
                 recent |-> TRUE]]
  /\ beat' = [beat EXCEPT ![n] = "idle"]
  /\ UNCHANGED <<latest, rollout, proven, configVars, request, worker>>

RenewNode(n) ==
  /\ n \in Beating
  /\ node' = [node EXCEPT ![n].status = "registered"]
  /\ UNCHANGED <<latest, rollout, proven, configVars, request, beat, worker>>

\* Ninety seconds go by without a heartbeat of n.
Silence(n) ==
  /\ node[n].recent
  /\ node' = [node EXCEPT ![n].recent = FALSE]
  /\ UNCHANGED <<latest, rollout, proven, configVars, request, beat, worker>>

-----------------------------------------------------------------------------
(* The worker: every ten seconds it selects the rollouts that were handed  *)
(* out and are older than two minutes, fails them one transaction at a     *)
(* time, and then marks the silent nodes offline.                          *)

\* Mutant: a rollout whose agent reported in_progress is left alone.
FailStaleScanAwaitingOnly(old) ==
  /\ worker.stage = "idle"
  /\ worker' = [worker EXCEPT
       !.stage = "failing",
       !.stale = {i \in Nodes \X Versions : /\ i[2] <= old[i[1]]
                                            /\ rollout[i[1]][i[2]].status = "awaiting_apply"}]
  /\ UNCHANGED <<latest, rollout, proven, configVars, node, request, beat>>

\* Rollouts of a node are created in version order: those older than two
\* minutes are the ones up to old[n].
FailStaleScan(old) ==
  /\ worker.stage = "idle"
  /\ worker' = [worker EXCEPT
       !.stage = "failing",
       !.stale = {i \in Nodes \X Versions : /\ i[2] <= old[i[1]]
                                            /\ rollout[i[1]][i[2]].status \in Awaited}]
  /\ UNCHANGED <<latest, rollout, proven, configVars, node, request, beat>>

\* Mutant: the node is sent back to the fallback of the rollout that timed out.
FailStaleRolloutToFallback(n, v) ==
  /\ worker.stage = "failing"
  /\ <<n, v>> \in worker.stale
  /\ rollout' = [rollout EXCEPT ![n][v].status = "failed"]
  /\ desired' = [desired EXCEPT ![n] = rollout[n][v].previous]
  /\ lastApply' = [lastApply EXCEPT ![n] = "failed"]
  /\ SetHealth(n, "degraded")
  /\ worker' = [worker EXCEPT !.stale = @ \ {<<n, v>>}]
  /\ UNCHANGED <<latest, proven, current, lastGood, request, beat>>

\* The transaction does not look again at the status it was selected for.
FailStaleRollout(n, v) ==
  /\ worker.stage = "failing"
  /\ <<n, v>> \in worker.stale
  /\ rollout' = [rollout EXCEPT ![n][v].status = "failed"]
  /\ desired' = [desired EXCEPT ![n] = current[n]]
  /\ lastApply' = [lastApply EXCEPT ![n] = "failed"]
  /\ SetHealth(n, "degraded")
  /\ worker' = [worker EXCEPT !.stale = @ \ {<<n, v>>}]
  /\ UNCHANGED <<latest, proven, current, lastGood, request, beat>>

\* A failing transaction ends the pass: the rest of the selection is dropped
\* and, by the continue of Runner.Run, no node is marked offline.
FailStaleError ==
  /\ worker.stage = "failing"
  /\ worker.errors < MaxErrors
  /\ worker' = [stage |-> "idle", stale |-> {}, errors |-> worker.errors + 1]
  /\ UNCHANGED <<latest, rollout, proven, configVars, node, request, beat>>

\* Mutant: a node that never heartbeated is passed over (no IS NULL branch).
MarkOfflineNodesHeard ==
  /\ worker.stage = "failing"
  /\ worker.stale = {}
  /\ node' = [n \in Nodes |-> IF node[n].recent \/ node[n].status = "registered" THEN node[n]
                              ELSE [status |-> "offline", health |-> "offline", recent |-> FALSE]]
  /\ worker' = [worker EXCEPT !.stage = "idle"]
  /\ UNCHANGED <<latest, rollout, proven, configVars, request, beat>>

MarkOfflineNodes ==
  /\ worker.stage = "failing"
  /\ worker.stale = {}
  /\ node' = [n \in Nodes |-> IF node[n].recent THEN node[n]
                              ELSE [status |-> "offline", health |-> "offline", recent |-> FALSE]]
  /\ worker' = [worker EXCEPT !.stage = "idle"]
  /\ UNCHANGED <<latest, rollout, proven, configVars, request, beat>>

-----------------------------------------------------------------------------
\* The bundles of n that some agent was given: only about these does an agent
\* ever report, at any time, in any order and any number of times (a request
\* that timed out at the agent may still be served).
HandedOut(n) == {v \in Versions : rollout[n][v].status \notin {"none", "pending"}}

AdminNext ==
  \E q \in Requests :
    \/ \E n \in Nodes : BeginCreate(q, n) \/ \E v \in Versions : BeginRollback(q, n, v)
    \/ CreateRollout(q) \/ RollbackRollout(q) \/ EndRequest(q)

AgentNext ==
  \E n \in Nodes :
    \/ \E have \in Bundles : NextConfig(n, have)
    \/ \E v \in HandedOut(n), s \in ReportStatus : ReportConfig(n, v, s)
    \/ BeginHeartbeat(n) \/ HeartbeatNode(n) \/ RenewNode(n) \/ Silence(n)

WorkerNext ==
  \/ \E old \in [Nodes -> Bundles] : FailStaleScan(old)
  \/ \E n \in Nodes, v \in Versions : FailStaleRollout(n, v)
  \/ FailStaleError \/ MarkOfflineNodes

Next == AdminNext \/ AgentNext \/ WorkerNext

Spec == Init /\ [][Next]_vars

-----------------------------------------------------------------------------
(* Safety.                                                                 *)

\* A bundle reference the control plane falls back on is NULL or a bundle that
\* an agent reported as applied.
Trusted(n) == {NullBundle} \cup proven[n]

\* The control plane never records an unproven bundle as a node's current or
\* last known good bundle, nor as the one a failing rollout falls back to:
\* whatever order reports, timeouts, rollbacks and stale snapshots come in, the
\* bundles SetCurrent writes (ReportConfig, cases succeeded and rolled_back)
\* have a 'succeeded' row in node_config_applies.
TrustedRecords ==
  \A n \in Nodes :
    /\ current[n] \in Trusted(n) /\ lastGood[n] \in Trusted(n)
    /\ \A v \in 1..latest[n] : rollout[n][v].previous \in Trusted(n)

\* An administrator's rollback never distributes a content that was not proven
\* on the node before: RollbackRollout copies the config of a proven bundle.
RollbackContentProven ==
  \A n \in Nodes : \A v \in 1..latest[n] :
    \/ rollout[n][v].content = v
    \/ \E w \in proven[n] : w < v /\ rollout[n][w].content = rollout[n][v].content

\* A superseded bundle is never handed out again: as long as the node has not
\* converged, what NextConfig offers is the newest bundle of the node, although
\* late reports and timeouts of older rollouts rewrite desired_bundle_id.
OffersOnlyNewest == \A n \in Nodes : desired[n] # current[n] => desired[n] = latest[n]

\* Every reference leads to a bundle that exists, and a success is never
\* forgotten: what is in flight (a request waiting for its node's row, the
\* worker's selection) refers to existing bundles, a waiting request saw a
\* trusted bundle as current, and a rollout that stands as succeeded was proven.
Bookkeeping ==
  /\ \A n \in Nodes :
       /\ current[n] <= latest[n] /\ desired[n] <= latest[n]
       /\ proven[n] \subseteq 1..latest[n]
       /\ \A v \in Versions : /\ rollout[n][v].status = "none" <=> v > latest[n]
                              /\ rollout[n][v].status = "succeeded" => v \in proven[n]
  /\ \A q \in Requests : request[q] # Idle =>
       /\ request[q].seen \in Trusted(request[q].node)
       /\ request[q].target <= latest[request[q].node]
  /\ \A i \in worker.stale : i[2] <= latest[i[1]]

\* Bundles are immutable and versions are never reused: concurrent
\* administrators never get the same version of a node, and no later step
\* changes the content or the fallback of a bundle that exists.
KeepsBundles ==
  \A n \in Nodes :
    /\ latest'[n] \in {latest[n], latest[n] + 1}
    /\ \A v \in 1..latest[n] : /\ rollout'[n][v].content = rollout[n][v].content
                               /\ rollout'[n][v].previous = rollout[n][v].previous

BundlesImmutable == [][KeepsBundles]_vars

\* Reports that come late, twice or in any order, timeouts of rollouts that were
\* finished meanwhile, rollbacks and creations that act on stale snapshots: seen from
\* outside each of them publishes a bundle, activates one, reverts to the fallback of
\* one, abandons the target, or does nothing at all.
Published(n) == [v \in 1..latest[n] |-> [content |-> rollout[n][v].content,
                                        fallback |-> rollout[n][v].previous]]
Abstract == INSTANCE NodeConfig WITH
  published <- [n \in Nodes |-> Published(n)], active <- current, target <- desired
ImplementsNodeConfig == Abstract!Spec

-----------------------------------------------------------------------------
(* Liveness.  The worker's ticker fires forever and its queries end; two   *)
(* minutes go by, so again and again a scan finds every rollout that       *)
(* exists old enough.  An agent owes nothing.                              *)
WorkerFairness ==
  /\ SF_vars(FailStaleScan(latest))
  /\ \A n \in Nodes, v \in Versions : WF_vars(FailStaleRollout(n, v))
  /\ WF_vars(MarkOfflineNodes)

FairSpec == Spec /\ WorkerFairness

\* A rollout that was handed to an agent does not stay open for ever, even if
\* the agent dies, its reports are lost, or some passes of the worker fail.
HandedOutSettles ==
  \A n \in Nodes, v \in Versions :
    rollout[n][v].status \in Awaited ~> rollout[n][v].status \in Terminal

\* A node that falls silent is shown offline, or is heard of again, although a
\* failing transaction of the worker skips the marking of offline nodes.
SilentNodeGoesOffline ==
  \A n \in Nodes : ~node[n].recent ~> (node[n].status = "offline" \/ node[n].recent)

ShownOnlineAfterBadApply(n) == lastApply[n] \in BadApply /\ node[n].health = "online"

\* "Bad config: mark node degraded" (docs/05-node-agent-and-vps-manager.md) does not
\* hold of every state: a heartbeat that waits for the row a failing report or
\* timeout is writing answers from its snapshot and shows the node online again.
\* While the agent lives and heartbeats every thirty seconds, its next heartbeats
\* correct it, whichever of failed and rolled_back the last apply was.
HealthCatchesUp ==
  \A n \in Beating :
    WF_vars(BeginHeartbeat(n)) /\ WF_vars(HeartbeatNode(n))
      => (ShownOnlineAfterBadApply(n) ~> ~ShownOnlineAfterBadApply(n))
=============================================================================
