---------------------------- MODULE AgentProofs ----------------------------
(***************************************************************************)
(* What the agent says it runs, it has checked: for any number of faults,  *)
(* identities and bundles, and whatever the control plane answers.         *)
(***************************************************************************)
EXTENDS Agent, TLAPS

USE AgentAssumption DEF NoBundle, Offered, Files, NoFile, Torn

\* The fields of the agent's records.
LEMMA Fields ==
  ASSUME TypeOK
  PROVE  /\ agent.node \in Nodes \cup {NoNode}
         /\ agent.current \in 0..MaxBundles /\ agent.previous \in 0..MaxBundles
         /\ agent.bundle \in Offered \cup {NoBundle}
         /\ disk.node \in Nodes \cup {NoNode}
         /\ disk.current \in 0..MaxBundles /\ disk.previous \in 0..MaxBundles
         /\ disk.active \in Files /\ disk.kept \in Files
BY DEF TypeOK

-----------------------------------------------------------------------------
(* The inductive invariant.  VersionsPassed needs, besides the types, that *)
(* the agent has an identity and a bundle in hand while it applies one:    *)
(* that is what CheckBundle adds to passed.                                *)
Applying == {"starting", "fetched", "written", "snapshotted", "failing", "passed", "succeeding",
             "restoring", "restored", "undoing"}

InHand ==
  /\ agent.stage \notin {"idle", "registering"} => agent.node \in Nodes
  /\ agent.stage \in Applying => agent.bundle \in Offered

Inv == TypeOK /\ InHand /\ VersionsPassed

\* A new installation.
LEMMA InitInv == Init => Inv
BY DEF Init, Inv, TypeOK, InHand, VersionsPassed, Applying, Calling, Local

\* The stages that only wait, and calls that fail, change no version.
LEMMA WaitInv ==
  ASSUME Inv, UNCHANGED <<disk, passed>>,
         faults' = faults \/ Fault,
         \/ BeginCycle \/ Renewed \/ RenewFailed \/ Refused \/ NothingNew \/ ReportAccepted
         \/ CallFailed
         \/ \E n \in Nodes : Registered(n)
         \/ \E b \in Offered : Fetched(b)
  PROVE  Inv'
<1>1. faults' \in 0..MaxFaults
  BY DEF Inv, TypeOK, Fault
<1>2. /\ agent' \in [stage : {"idle"} \cup Calling \cup Local, node : Nodes \cup {NoNode},
                     current : 0..MaxBundles, previous : 0..MaxBundles,
                     bundle : Offered \cup {NoBundle}]
      /\ agent'.current = agent.current /\ agent'.previous = agent.previous
      /\ InHand'
  <2>1. CASE BeginCycle
    BY <2>1 DEF Inv, TypeOK, InHand, BeginCycle, Goto, Calling, Local, Applying
  <2>5. CASE Renewed \/ RenewFailed
    BY <2>5 DEF Inv, TypeOK, InHand, Renewed, RenewFailed, Goto, Calling, Local, Applying
  <2>6. CASE Refused \/ NothingNew
    BY <2>6 DEF Inv, TypeOK, InHand, Refused, NothingNew, Goto, Calling, Local, Applying
  <2>7. CASE CallFailed
    BY <2>7 DEF Inv, TypeOK, InHand, CallFailed, EndCycle, Calling, Local, Applying
  <2>2. CASE ReportAccepted
    <3>1. CASE \/ Goto("starting", "fetched")
               \/ Goto("failing", "restoring")
      BY <3>1 DEF Inv, TypeOK, InHand, Goto, Calling, Local, Applying
    <3>2. CASE EndCycle
      BY <3>2 DEF Inv, TypeOK, InHand, EndCycle, Calling, Local, Applying
    <3> QED
      BY <2>2, <3>1, <3>2 DEF ReportAccepted
  <2>3. ASSUME NEW n \in Nodes, Registered(n)
        PROVE  /\ agent' \in [stage : {"idle"} \cup Calling \cup Local, node : Nodes \cup {NoNode},
                              current : 0..MaxBundles, previous : 0..MaxBundles,
                              bundle : Offered \cup {NoBundle}]
               /\ agent'.current = agent.current /\ agent'.previous = agent.previous
               /\ InHand'
    BY <2>3 DEF Inv, TypeOK, InHand, Registered, Calling, Local, Applying
  <2>4. ASSUME NEW b \in Offered, Fetched(b)
        PROVE  /\ agent' \in [stage : {"idle"} \cup Calling \cup Local, node : Nodes \cup {NoNode},
                              current : 0..MaxBundles, previous : 0..MaxBundles,
                              bundle : Offered \cup {NoBundle}]
               /\ agent'.current = agent.current /\ agent'.previous = agent.previous
               /\ InHand'
    BY <2>4 DEF Inv, TypeOK, InHand, Fetched, Calling, Local, Applying
  <2> QED
    BY <2>1, <2>2, <2>3, <2>4, <2>5, <2>6, <2>7
<1>3. TypeOK'
  BY <1>1, <1>2 DEF Inv, TypeOK
<1>4. VersionsPassed'
  BY <1>2 DEF Inv, VersionsPassed
<1> QED
  BY <1>2, <1>3, <1>4 DEF Inv

\* Writing state.json makes the versions on disk those in memory.
LEMMA PersistInv ==
  ASSUME Inv, PersistEnrolled \/ PersistApplied \/ PersistRestored
  PROVE  Inv'
<1>1. /\ PersistState /\ UNCHANGED <<passed, faults>>
      /\ \/ Goto("enrolled", "asking") \/ Goto("passed", "succeeding")
         \/ Goto("restored", "undoing")
  BY DEF PersistEnrolled, PersistApplied, PersistRestored
<1>2. TypeOK' /\ InHand'
  BY <1>1, Fields DEF Inv, TypeOK, InHand, PersistState, Goto, Calling, Local, Applying
<1>3. /\ agent'.current = agent.current /\ agent'.previous = agent.previous
      /\ disk'.current = agent.current /\ disk'.previous = agent.previous
  BY <1>1 DEF Inv, TypeOK, PersistState, Goto
<1>4. VersionsPassed'
  BY <1>1, <1>3 DEF Inv, VersionsPassed
<1> QED
  BY <1>2, <1>4 DEF Inv

\* The config files do not matter to the versions.
LEMMA FilesInv ==
  ASSUME Inv, WriteBundle \/ SnapshotPrevious
  PROVE  Inv'
<1>1. TypeOK' /\ InHand'
  <2>1. CASE WriteBundle
    <3>1. agent.bundle \in Offered
      BY <2>1 DEF Inv, InHand, WriteBundle, Goto, Applying
    <3>2. agent.bundle.content \in Files
      BY <3>1
    <3> QED
      BY <2>1, <3>2 DEF Inv, TypeOK, InHand, WriteBundle, Goto, Calling, Local, Applying
  <2>2. CASE SnapshotPrevious
    BY <2>2, Fields DEF Inv, TypeOK, InHand, SnapshotPrevious, Goto, Calling, Local, Applying
  <2> QED
    BY <2>1, <2>2
<1>2. /\ agent'.current = agent.current /\ agent'.previous = agent.previous
      /\ disk'.current = disk.current /\ disk'.previous = disk.previous
      /\ passed' = passed
  BY DEF Inv, TypeOK, WriteBundle, SnapshotPrevious, Goto
<1> QED
  BY <1>1, <1>2 DEF Inv, VersionsPassed

\* A bundle that passes the checks becomes the current version.
LEMMA CheckInv ==
  ASSUME Inv, CheckBundle
  PROVE  Inv'
<1>1. agent.node \in Nodes /\ agent.bundle \in Offered
  BY DEF Inv, InHand, CheckBundle, Goto, Applying
<1>2. CASE Goto("snapshotted", "failing") /\ UNCHANGED <<passed, disk, faults>>
  <2>1. TypeOK' /\ InHand'
    BY <1>2 DEF Inv, TypeOK, InHand, Goto, Calling, Local, Applying
  <2>2. agent'.current = agent.current /\ agent'.previous = agent.previous
    BY <1>2 DEF Inv, TypeOK, Goto
  <2> QED
    BY <1>2, <2>1, <2>2 DEF Inv, VersionsPassed
<1>3. CASE /\ agent' = [agent EXCEPT !.stage = "passed", !.current = agent.bundle.version,
                                     !.previous = agent.current]
           /\ passed' = passed \cup {<<agent.node, agent.bundle.version>>}
           /\ UNCHANGED <<disk, faults>>
  <2>1. agent.bundle.version \in 1..MaxBundles /\ agent.current \in 0..MaxBundles
    BY <1>1, Fields DEF Inv
  <2>2. TypeOK' /\ InHand'
    <3>1. agent' \in [stage : {"idle"} \cup Calling \cup Local, node : Nodes \cup {NoNode},
                      current : 0..MaxBundles, previous : 0..MaxBundles,
                      bundle : Offered \cup {NoBundle}]
      <4> DEFINE v == agent.bundle.version
                 c == agent.current
      <4>1. v \in 0..MaxBundles /\ c \in 0..MaxBundles
        BY <2>1
      <4>2. agent' = [agent EXCEPT !.stage = "passed", !.current = v, !.previous = c]
        BY <1>3
      <4> HIDE DEF v, c
      <4> QED
        BY <4>1, <4>2 DEF Inv, TypeOK, Local
    <3>2. passed' \subseteq Nodes \X (1..MaxBundles)
      BY <1>1, <1>3, <2>1 DEF Inv, TypeOK
    <3>3. agent'.node = agent.node /\ agent'.bundle = agent.bundle
      BY <1>3 DEF Inv, TypeOK
    <3> QED
      BY <1>1, <1>3, <3>1, <3>2, <3>3 DEF Inv, TypeOK, InHand
  <2>3. agent'.current = agent.bundle.version /\ agent'.previous = agent.current
    BY <1>3 DEF Inv, TypeOK
  <2>4. <<agent.node, agent.bundle.version>>[2] = agent.bundle.version
    OBVIOUS
  <2>5. {agent'.current, agent'.previous, disk'.current, disk'.previous} \subseteq
          {0} \cup {p[2] : p \in passed'}
    BY <1>3, <2>3, <2>4 DEF Inv, VersionsPassed
  <2> QED
    BY <2>2, <2>5 DEF Inv, VersionsPassed
<1> QED
  BY <1>2, <1>3 DEF CheckBundle

\* A rollback goes to a version that passed before.
LEMMA RestoreInv ==
  ASSUME Inv, RestorePrevious
  PROVE  Inv'
<1>1. /\ agent' = [agent EXCEPT !.stage = "restored", !.current = agent.previous]
      /\ agent.stage = "restoring" /\ passed' = passed
      /\ faults' \in 0..MaxFaults
      /\ \E f \in Files : disk' = disk \/ disk' = [disk EXCEPT !.active = f]
  BY Fields DEF Inv, TypeOK, RestorePrevious, Fault
<1>2. TypeOK' /\ InHand'
  BY <1>1, Fields DEF Inv, TypeOK, InHand, Calling, Local, Applying
<1>3. /\ agent'.current = agent.previous /\ agent'.previous = agent.previous
      /\ disk'.current = disk.current /\ disk'.previous = disk.previous
  BY <1>1 DEF Inv, TypeOK
<1> QED
  BY <1>1, <1>2, <1>3 DEF Inv, VersionsPassed

\* An interrupted write leaves a well typed state directory, and the versions
\* in state.json as they were or lost.
LEMMA InterruptedType ==
  ASSUME Inv
  PROVE  /\ Interrupted \in [node : Nodes \cup {NoNode}, current : 0..MaxBundles,
                             previous : 0..MaxBundles, active : Files, kept : Files]
         /\ Interrupted.current \in {0, disk.current}
         /\ Interrupted.previous \in {0, disk.previous}
<1>1. \/ Interrupted = disk
      \/ Interrupted = [disk EXCEPT !.active = Torn]
      \/ Interrupted = [disk EXCEPT !.kept = Torn]
      \/ Interrupted = [disk EXCEPT !.node = NoNode, !.current = 0, !.previous = 0]
  BY DEF Interrupted
<1>2. disk \in [node : Nodes \cup {NoNode}, current : 0..MaxBundles, previous : 0..MaxBundles,
                active : Files, kept : Files]
  BY DEF Inv, TypeOK
<1>3. Torn \in Files /\ 0 \in 0..MaxBundles
  OBVIOUS
<1> HIDE DEF Torn, Files
<1>4. CASE Interrupted = disk
  BY <1>2, <1>4
<1>5. CASE Interrupted = [disk EXCEPT !.active = Torn]
  BY <1>2, <1>3, <1>5
<1>6. CASE Interrupted = [disk EXCEPT !.kept = Torn]
  BY <1>2, <1>3, <1>6
<1>7. CASE Interrupted = [disk EXCEPT !.node = NoNode, !.current = 0, !.previous = 0]
  BY <1>2, <1>3, <1>7
<1> QED
  BY <1>1, <1>4, <1>5, <1>6, <1>7

\* Failing writes and crashes preserve the invariant.
LEMMA FaultInv ==
  ASSUME Inv, DiskError \/ Crash
  PROVE  Inv'
<1>1. faults' \in 0..MaxFaults /\ passed' = passed /\ disk' \in {disk, Interrupted}
  BY DEF Inv, TypeOK, DiskError, Crash, Fault
<1>2. /\ disk' \in [node : Nodes \cup {NoNode}, current : 0..MaxBundles, previous : 0..MaxBundles,
                    active : Files, kept : Files]
      /\ disk'.current \in {0, disk.current} /\ disk'.previous \in {0, disk.previous}
  <2>1. CASE disk' = disk
    BY <2>1 DEF Inv, TypeOK
  <2>2. CASE disk' = Interrupted
    BY <2>2, InterruptedType
  <2> QED
    BY <1>1, <2>1, <2>2
<1>3. CASE DiskError
  <2>1. agent' = [agent EXCEPT !.stage = "idle", !.bundle = NoBundle]
    BY <1>3 DEF DiskError, EndCycle
  <2>2. TypeOK' /\ InHand'
    BY <1>1, <1>2, <2>1 DEF Inv, TypeOK, InHand, Applying
  <2>3. agent'.current = agent.current /\ agent'.previous = agent.previous
    BY <2>1 DEF Inv, TypeOK
  <2> QED
    BY <1>1, <1>2, <2>2, <2>3 DEF Inv, VersionsPassed
<1>4. CASE Crash
  <2>1. agent' = [stage |-> "idle", node |-> disk'.node, current |-> disk'.current,
                  previous |-> disk'.previous, bundle |-> NoBundle]
    BY <1>4 DEF Crash
  <2>2. TypeOK' /\ InHand'
    BY <1>1, <1>2, <2>1 DEF Inv, TypeOK, InHand, Applying
  <2>3. agent'.current = disk'.current /\ agent'.previous = disk'.previous
    BY <2>1
  <2> QED
    BY <1>1, <1>2, <2>2, <2>3 DEF Inv, VersionsPassed
<1> QED
  BY <1>3, <1>4

\* Every step keeps the invariant: one case for each action of Next.
LEMMA NextInv == Inv /\ [Next]_vars => Inv'
<1> SUFFICES ASSUME Inv, [Next]_vars PROVE Inv'
  OBVIOUS
<1>1. CASE UNCHANGED vars
  BY <1>1 DEF vars, Inv, TypeOK, InHand, VersionsPassed
<1>2. CASE LocalStep
  BY <1>2, PersistInv, FilesInv, CheckInv, RestoreInv DEF LocalStep
<1>3. CASE BeginCycle \/ Answered \/ RenewFailed \/ CallFailed
  <2>1. /\ UNCHANGED <<disk, passed>>
        /\ faults' = faults \/ Fault
        /\ \/ BeginCycle \/ Renewed \/ RenewFailed \/ Refused \/ NothingNew \/ ReportAccepted
           \/ CallFailed
           \/ \E n \in Nodes : Registered(n)
           \/ \E b \in Offered : Fetched(b)
    BY <1>3 DEF Answered, BeginCycle, Renewed, RenewFailed, Refused, NothingNew, ReportAccepted,
                CallFailed, Registered, Fetched
  <2> QED
    BY <2>1, WaitInv
<1>4. CASE DiskError \/ Crash
  BY <1>4, FaultInv
<1> QED
  BY <1>1, <1>2, <1>3, <1>4 DEF Next

-----------------------------------------------------------------------------
\* While the agent reports a success its bundle has passed.
AppliedPassed ==
  agent.stage \in {"passed", "succeeding"} => <<agent.node, agent.bundle.version>> \in passed

\* An agent goes on applying the bundle it fetched on the node it fetched it for.
LEMMA NextKeepsHand ==
  ASSUME Inv, AppliedPassed, [Next]_vars
  PROVE  /\ passed \subseteq passed' /\ AppliedPassed'
         /\ agent'.stage \in Applying =>
              \/ /\ agent.stage \in Applying
                 /\ agent'.node = agent.node /\ agent'.bundle = agent.bundle
              \/ \E b \in Offered : Fetched(b)
<1> DEFINE Kept == /\ agent.stage \in Applying
                   /\ agent'.node = agent.node /\ agent'.bundle = agent.bundle
           Goal == /\ passed \subseteq passed' /\ AppliedPassed'
                   /\ agent'.stage \in Applying => Kept \/ \E b \in Offered : Fetched(b)
<1>1. ASSUME NEW from, NEW to, Goto(from, to), UNCHANGED passed,
             to \in Applying => from \in Applying,
             to \in {"passed", "succeeding"} => from = "passed"
      PROVE  Goal
  BY <1>1 DEF Goto, Inv, TypeOK, AppliedPassed
<1>2. ASSUME agent'.stage \notin Applying, UNCHANGED passed
      PROVE  Goal
  BY <1>2 DEF Applying, AppliedPassed
<1>3. CASE LocalStep
  <2>1. CASE PersistEnrolled \/ WriteBundle \/ SnapshotPrevious \/ PersistApplied \/ PersistRestored
    BY <1>1, <2>1 DEF PersistEnrolled, WriteBundle, SnapshotPrevious, PersistApplied,
                      PersistRestored, Applying
  <2>2. CASE CheckBundle
    <3>1. CASE Goto("snapshotted", "failing") /\ UNCHANGED passed
      BY <1>1, <3>1 DEF Applying
    <3>2. CASE /\ agent.stage = "snapshotted"
               /\ agent' = [agent EXCEPT !.stage = "passed", !.current = agent.bundle.version,
                                         !.previous = agent.current]
               /\ passed' = passed \cup {<<agent.node, agent.bundle.version>>}
      BY <3>2 DEF Inv, TypeOK, AppliedPassed, Applying
    <3> QED
      BY <2>2, <3>1, <3>2 DEF CheckBundle
  <2>3. CASE RestorePrevious
    BY <2>3 DEF RestorePrevious, Inv, TypeOK, AppliedPassed, Applying
  <2> QED
    BY <1>3, <2>1, <2>2, <2>3 DEF LocalStep
<1>4. CASE BeginCycle
  <2>1. agent'.stage \in {"registering", "renewing"} /\ UNCHANGED passed
    BY <1>4 DEF BeginCycle, Goto, Inv, TypeOK
  <2> QED
    BY <1>2, <2>1 DEF Applying
<1>5. CASE RenewFailed \/ Renewed \/ Refused \/ NothingNew
  BY <1>1, <1>5 DEF RenewFailed, Renewed, Refused, NothingNew, Applying
<1>6. CASE CallFailed \/ DiskError \/ Crash
  <2>1. agent'.stage = "idle" /\ UNCHANGED passed
    <3>1. EndCycle => agent'.stage = "idle"
      BY DEF EndCycle, Inv, TypeOK
    <3>2. Crash => agent'.stage = "idle"
      BY DEF Crash
    <3> QED
      BY <1>6, <3>1, <3>2 DEF CallFailed, DiskError, Crash
  <2> QED
    BY <1>2, <2>1 DEF Applying
<1>7. CASE ReportAccepted
  <2>1. CASE Goto("starting", "fetched") \/ Goto("failing", "restoring")
    BY <1>1, <1>7, <2>1 DEF ReportAccepted, Applying
  <2>2. CASE EndCycle
    <3>1. agent'.stage = "idle" /\ UNCHANGED passed
      BY <1>7, <2>2 DEF ReportAccepted, EndCycle, Inv, TypeOK
    <3> QED
      BY <1>2, <3>1 DEF Applying
  <2> QED
    BY <1>7, <2>1, <2>2 DEF ReportAccepted
<1>8. ASSUME NEW n \in Nodes, Registered(n) PROVE Goal
  <2>1. agent'.stage = "enrolled" /\ UNCHANGED passed
    BY <1>8 DEF Registered, Inv, TypeOK
  <2> QED
    BY <1>2, <2>1 DEF Applying
<1>9. ASSUME NEW b \in Offered, Fetched(b) PROVE Goal
  BY <1>9 DEF Fetched, Inv, TypeOK, AppliedPassed
<1>10. CASE UNCHANGED vars
  BY <1>10 DEF vars, AppliedPassed
<1> QED
  BY <1>3, <1>4, <1>5, <1>6, <1>7, <1>8, <1>9, <1>10 DEF Next, Answered

\* Every reachable state of the agent satisfies the inductive invariant.
THEOREM InvHolds == Spec => []Inv
BY InitInv, NextInv, PTL DEF Spec

\* Type correctness of the agent, for any constants.
THEOREM TypeCorrect == Spec => []TypeOK
<1>1. Inv => TypeOK
  BY DEF Inv
<1> QED
  BY <1>1, InvHolds, PTL

\* The versions an agent stands at, in memory or on disk, passed every check,
\* whatever fails, wherever it crashes and whatever it is offered.
THEOREM OnlyPassedVersions == Spec => []VersionsPassed
<1>1. Inv => VersionsPassed
  BY DEF Inv
<1> QED
  BY <1>1, InvHolds, PTL
=============================================================================
