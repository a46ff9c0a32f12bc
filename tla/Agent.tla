------------------------------- MODULE Agent -------------------------------
(***************************************************************************)
(* The node agent, internal/fleet/agent.go: the cycle it runs every thirty *)
(* seconds (enroll, ask for a bundle, apply it, report), its state.json    *)
(* and its two config files, under failing calls, failing disk writes and  *)
(* crashes at any point.  The control plane answers anything here; module  *)
(* Fleet puts the real one in its place.                                   *)
(*                                                                         *)
(* A config is named by a number.  The xray adapter and the simulated      *)
(* health check are functions of the config: they refuse those in Bad.     *)
(* PublishCapabilities and Heartbeat are calls whose failure ends a cycle, *)
(* like that of asking; they change nothing here.                          *)
(***************************************************************************)
EXTENDS Integers, FiniteSets

CONSTANTS
  Nodes,      \* the identities the control plane may give this agent
  NoNode,     \* not enrolled
  MaxBundles, \* bound: versions and contents of bundles
  Bad,        \* the contents that validation, apply or health check refuses
  MaxFaults   \* bound: failed calls, failed writes and crashes

ASSUME AgentAssumption ==
  /\ NoNode \notin Nodes
  /\ MaxBundles \in Nat
  /\ Bad \subseteq 1..MaxBundles
  /\ MaxFaults \in Nat

VARIABLES
  agent,  \* the process: its stage in the cycle, agentState, the bundle in hand
  disk,   \* the state directory: state.json, active/config.json, previous/config.json
  passed, \* history: the <<node, version>> that passed every check of the runtime
  faults  \* how many faults happened

vars == <<agent, disk, passed, faults>>

NoBundle == [version |-> 0, content |-> 0]
Offered == [version : 1..MaxBundles, content : 1..MaxBundles]

NoFile == 0
Torn == MaxBundles + 1  \* os.WriteFile truncates the file before it writes
Files == 0..(MaxBundles + 1)

\* The stages that wait for an answer, and those that work on the state directory.
Calling == {"renewing", "registering", "asking", "starting", "failing", "succeeding", "undoing"}
Local == {"enrolled", "fetched", "written", "snapshotted", "passed", "restoring", "restored"}

TypeOK ==
  /\ agent \in [stage : {"idle"} \cup Calling \cup Local, node : Nodes \cup {NoNode},
                current : 0..MaxBundles, previous : 0..MaxBundles,
                bundle : Offered \cup {NoBundle}]
  /\ disk \in [node : Nodes \cup {NoNode}, current : 0..MaxBundles, previous : 0..MaxBundles,
               active : Files, kept : Files]
  /\ passed \subseteq Nodes \X (1..MaxBundles)
  /\ faults \in 0..MaxFaults

Init ==
  /\ agent = [stage |-> "idle", node |-> NoNode, current |-> 0, previous |-> 0,
              bundle |-> NoBundle]
  /\ disk = [node |-> NoNode, current |-> 0, previous |-> 0, active |-> NoFile, kept |-> NoFile]
  /\ passed = {}
  /\ faults = 0

-----------------------------------------------------------------------------
Goto(from, to) == agent.stage = from /\ agent' = [agent EXCEPT !.stage = to]

EndCycle == agent' = [agent EXCEPT !.stage = "idle", !.bundle = NoBundle]

Fault == faults < MaxFaults /\ faults' = faults + 1

\* state.json holds the whole agentState.
PersistState ==
  disk' = [disk EXCEPT !.node = agent.node, !.current = agent.current, !.previous = agent.previous]

-----------------------------------------------------------------------------
(* Enrollment.  Any failure of Renew, a timeout too, makes the agent       *)
(* register again; the versions it stands at stay as they are.             *)

BeginCycle ==
  /\ Goto("idle", IF agent.node = NoNode THEN "registering" ELSE "renewing")
  /\ UNCHANGED <<disk, passed, faults>>

Renewed == Goto("renewing", "asking") /\ UNCHANGED <<disk, passed, faults>>

RenewFailed == Goto("renewing", "registering") /\ Fault /\ UNCHANGED <<disk, passed>>

Registered(n) ==
  /\ agent.stage = "registering"
  /\ agent' = [agent EXCEPT !.stage = "enrolled", !.node = n]
  /\ UNCHANGED <<disk, passed, faults>>

\* 401: the bootstrap token is used up, expired or unknown.
Refused == Goto("registering", "idle") /\ UNCHANGED <<disk, passed, faults>>

PersistEnrolled == Goto("enrolled", "asking") /\ PersistState /\ UNCHANGED <<passed, faults>>

-----------------------------------------------------------------------------
(* Reconcile.                                                              *)

NothingNew == Goto("asking", "idle") /\ UNCHANGED <<disk, passed, faults>>

Fetched(b) ==
  /\ agent.stage = "asking"
  /\ agent' = [agent EXCEPT !.stage = "starting", !.bundle = b]
  /\ UNCHANGED <<disk, passed, faults>>

\* The control plane accepted the report the agent waits for.
ReportAccepted ==
  /\ \/ Goto("starting", "fetched")
     \/ Goto("failing", "restoring")
     \/ agent.stage \in {"succeeding", "undoing"} /\ EndCycle
  /\ UNCHANGED <<disk, passed, faults>>

WriteBundle ==
  /\ Goto("fetched", "written")
  /\ disk' = [disk EXCEPT !.active = agent.bundle.content]
  /\ UNCHANGED <<passed, faults>>

\* active/config.json already holds the new bundle when it is copied.
SnapshotPrevious ==
  /\ Goto("written", "snapshotted")
  /\ disk' = [disk EXCEPT !.kept = disk.active]
  /\ UNCHANGED <<passed, faults>>

\* Mutant: the versions are moved before the checks, whatever these say.
CheckBundleAfterwards ==
  /\ agent.stage = "snapshotted"
  /\ agent' = [agent EXCEPT !.stage = IF agent.bundle.content \in Bad THEN "failing" ELSE "passed",
                            !.current = agent.bundle.version, !.previous = agent.current]
  /\ passed' = IF agent.bundle.content \in Bad THEN passed
               ELSE passed \cup {<<agent.node, agent.bundle.version>>}
  /\ UNCHANGED <<disk, faults>>

\* Validate, Apply and HealthCheck.
CheckBundle ==
  /\ \/ /\ agent.bundle.content \in Bad
        /\ Goto("snapshotted", "failing")
        /\ UNCHANGED passed
     \/ /\ agent.stage = "snapshotted"
        /\ agent.bundle.content \notin Bad
        /\ agent' = [agent EXCEPT !.stage = "passed", !.current = agent.bundle.version,
                                  !.previous = agent.current]
        /\ passed' = passed \cup {<<agent.node, agent.bundle.version>>}
  /\ UNCHANGED <<disk, faults>>

PersistApplied == Goto("passed", "succeeding") /\ PersistState /\ UNCHANGED <<passed, faults>>

\* Mutant: the version before the current one is taken for the previous one.
RestorePreviousByOne ==
  /\ agent.stage = "restoring"
  /\ agent' = [agent EXCEPT !.stage = "restored", !.current = agent.current - 1]
  /\ disk' = [disk EXCEPT !.active = disk.kept]
  /\ UNCHANGED <<passed, faults>>

\* handleApplyFailure, once its first report is accepted.  An error of
\* restorePrevious only goes into the message.
RestorePrevious ==
  /\ agent.stage = "restoring"
  /\ agent' = [agent EXCEPT !.stage = "restored", !.current = agent.previous]
  /\ \/ disk' = [disk EXCEPT !.active = disk.kept] /\ UNCHANGED faults
     \/ disk' \in {disk, [disk EXCEPT !.active = Torn]} /\ Fault
  /\ UNCHANGED passed

PersistRestored == Goto("restored", "undoing") /\ PersistState /\ UNCHANGED <<passed, faults>>

-----------------------------------------------------------------------------
(* Faults.                                                                 *)

\* A call fails: refused, timed out after ten seconds, its answer lost, 500.
CallFailed ==
  /\ agent.stage \in Calling \ {"renewing"}
  /\ EndCycle /\ Fault
  /\ UNCHANGED <<disk, passed>>

\* What an interrupted write of the current stage leaves behind.  A state.json
\* that cannot be decoded is read as an empty one.
Interrupted ==
  CASE agent.stage = "fetched" -> [disk EXCEPT !.active = Torn]
    [] agent.stage = "written" -> [disk EXCEPT !.kept = Torn]
    [] agent.stage = "restoring" -> [disk EXCEPT !.active = Torn]
    [] agent.stage \in {"enrolled", "passed", "restored"} ->
         [disk EXCEPT !.node = NoNode, !.current = 0, !.previous = 0]
    [] OTHER -> disk

\* A failing write ends the cycle; the process keeps what it has in memory.
DiskError ==
  /\ agent.stage \in {"enrolled", "fetched", "written", "passed", "restored"}
  /\ EndCycle /\ Fault
  /\ disk' \in {disk, Interrupted}
  /\ UNCHANGED passed

\* The process dies and starts again from state.json.
Crash ==
  /\ Fault
  /\ disk' \in {disk, Interrupted}
  /\ agent' = [stage |-> "idle", node |-> disk'.node, current |-> disk'.current,
               previous |-> disk'.previous, bundle |-> NoBundle]
  /\ UNCHANGED passed

-----------------------------------------------------------------------------
LocalStep == PersistEnrolled \/ WriteBundle \/ SnapshotPrevious \/ CheckBundle \/ PersistApplied
             \/ RestorePrevious \/ PersistRestored

\* The control plane never offers a version the agent says it has.
Answered ==
  \/ \E n \in Nodes : Registered(n)
  \/ \E b \in Offered : b.version > agent.current /\ Fetched(b)
  \/ Renewed \/ Refused \/ NothingNew \/ ReportAccepted

Next == BeginCycle \/ LocalStep \/ Answered \/ RenewFailed \/ CallFailed \/ DiskError \/ Crash

Spec == Init /\ [][Next]_vars

-----------------------------------------------------------------------------
\* Whatever fails and wherever the process dies, the versions the agent stands
\* at, in memory and in state.json, are versions that passed every check of the
\* runtime (or none): what it tells the control plane it has, it has applied.
VersionsPassed ==
  {agent.current, agent.previous, disk.current, disk.previous} \subseteq
    {0} \cup {p[2] : p \in passed}

\* "rollback to previous known-good version" (docs/05-node-agent-and-vps-manager.md)
\* and TestReconcileRollbackOnHealthFailure: on a node that ran a good config, a
\* bundle that fails its checks leaves the agent at the version it stood at, and
\* its config is no longer the active one.
RollbackRestoresPrevious ==
  agent.stage = "restored" /\ passed # {} =>
    /\ agent.current = disk.current
    /\ disk.active # agent.bundle.content
=============================================================================
