----------------------------- MODULE FleetProofs -----------------------------
(***************************************************************************)
(* One agent and the control plane together, for any number of identities, *)
(* bundles, administrators, faults and late calls.  The step argument      *)
(* composes those of the two parts: every step of Fleet is one of the      *)
(* store, of the agent, or of both, so their inductive invariants hold, and*)
(* what is left to show is that the two keep to what they assume of each   *)
(* other.                                                                  *)
(***************************************************************************)
EXTENDS Fleet, TLAPS

StoreProofs == INSTANCE NodeConfigProofs WITH Beating <- Nodes
HostProofs == INSTANCE AgentProofs

USE FleetAssumption

\* What the parts assume of the constants.
LEMMA PartsAssume == StoreProofs!RolloutsAssumption /\ HostProofs!AgentAssumption
BY DEF StoreProofs!RolloutsAssumption, HostProofs!AgentAssumption

-----------------------------------------------------------------------------
(* Store and StoreProofs, Host and HostProofs, are the same instances.     *)

\* The type invariants are one.
LEMMA SameStoreType == Store!TypeOK <=> StoreProofs!TypeOK
BY DEF Store!TypeOK, StoreProofs!TypeOK, Store!Bundles, StoreProofs!Bundles, Store!Versions,
       StoreProofs!Versions, Store!RolloutRow, StoreProofs!RolloutRow, Store!NodeRow,
       StoreProofs!NodeRow, Store!Terminal, StoreProofs!Terminal, Store!ReportStatus,
       StoreProofs!ReportStatus, Store!Idle, StoreProofs!Idle, Store!CreateRequest,
       StoreProofs!CreateRequest, Store!RollbackRequest, StoreProofs!RollbackRequest,
       Store!NullBundle, StoreProofs!NullBundle

\* The initial states are the same.
LEMMA SameStoreInit == Store!Init <=> StoreProofs!Init
BY DEF Store!Init, StoreProofs!Init, Store!Versions, StoreProofs!Versions, Store!NoRollout,
       StoreProofs!NoRollout, Store!NullBundle, StoreProofs!NullBundle, Store!Idle,
       StoreProofs!Idle

\* The steps of administrators are the same.
LEMMA SameStoreAdmin == Store!AdminNext <=> StoreProofs!AdminNext
<1> USE DEF Store!configVars, StoreProofs!configVars, Store!NullBundle, StoreProofs!NullBundle,
            Store!Idle, StoreProofs!Idle, Store!AddRollout, StoreProofs!AddRollout
<1>1. ASSUME NEW q, NEW n
      PROVE  Store!BeginCreate(q, n) <=> StoreProofs!BeginCreate(q, n)
  BY DEF Store!BeginCreate, StoreProofs!BeginCreate
<1>2. ASSUME NEW q, NEW n, NEW v
      PROVE  Store!BeginRollback(q, n, v) <=> StoreProofs!BeginRollback(q, n, v)
  BY DEF Store!BeginRollback, StoreProofs!BeginRollback
<1>3. ASSUME NEW q PROVE Store!CreateRollout(q) <=> StoreProofs!CreateRollout(q)
  BY DEF Store!CreateRollout, StoreProofs!CreateRollout
<1>4. ASSUME NEW q PROVE Store!RollbackRollout(q) <=> StoreProofs!RollbackRollout(q)
  BY DEF Store!RollbackRollout, StoreProofs!RollbackRollout, Store!MayRollBack,
         StoreProofs!MayRollBack
<1>5. ASSUME NEW q PROVE Store!EndRequest(q) <=> StoreProofs!EndRequest(q)
  BY DEF Store!EndRequest, StoreProofs!EndRequest
<1> QED
  BY <1>1, <1>2, <1>3, <1>4, <1>5
     DEF Store!AdminNext, StoreProofs!AdminNext, Store!Versions, StoreProofs!Versions

\* The steps of reports and fetches are the same.
LEMMA SameStoreAgent == Store!AgentNext <=> StoreProofs!AgentNext
<1> USE DEF Store!configVars, StoreProofs!configVars, Store!NullBundle, StoreProofs!NullBundle
<1>1. ASSUME NEW n, NEW have
      PROVE  Store!NextConfig(n, have) <=> StoreProofs!NextConfig(n, have)
  BY DEF Store!NextConfig, StoreProofs!NextConfig, Store!Offer, StoreProofs!Offer
<1>2. ASSUME NEW n, NEW v, NEW s
      PROVE  Store!ReportConfig(n, v, s) <=> StoreProofs!ReportConfig(n, v, s)
  BY DEF Store!ReportConfig, StoreProofs!ReportConfig, Store!SetCurrent, StoreProofs!SetCurrent,
         Store!SetHealth, StoreProofs!SetHealth, Store!Terminal, StoreProofs!Terminal
<1>3. ASSUME NEW n PROVE Store!BeginHeartbeat(n) <=> StoreProofs!BeginHeartbeat(n)
  BY DEF Store!BeginHeartbeat, StoreProofs!BeginHeartbeat
<1>4. ASSUME NEW n PROVE Store!HeartbeatNode(n) <=> StoreProofs!HeartbeatNode(n)
  BY DEF Store!HeartbeatNode, StoreProofs!HeartbeatNode, Store!BadApply, StoreProofs!BadApply
<1>5. ASSUME NEW n PROVE Store!RenewNode(n) <=> StoreProofs!RenewNode(n)
  BY DEF Store!RenewNode, StoreProofs!RenewNode
<1>6. ASSUME NEW n PROVE Store!Silence(n) <=> StoreProofs!Silence(n)
  BY DEF Store!Silence, StoreProofs!Silence
<1> QED
  BY <1>1, <1>2, <1>3, <1>4, <1>5, <1>6
     DEF Store!AgentNext, StoreProofs!AgentNext, Store!Bundles, StoreProofs!Bundles,
         Store!HandedOut, StoreProofs!HandedOut, Store!Versions, StoreProofs!Versions,
         Store!ReportStatus, StoreProofs!ReportStatus

\* The steps of the worker are the same.
LEMMA SameStoreWorker == Store!WorkerNext <=> StoreProofs!WorkerNext
<1> USE DEF Store!configVars, StoreProofs!configVars, Store!Versions, StoreProofs!Versions
<1>1. ASSUME NEW old PROVE Store!FailStaleScan(old) <=> StoreProofs!FailStaleScan(old)
  BY DEF Store!FailStaleScan, StoreProofs!FailStaleScan, Store!Awaited, StoreProofs!Awaited
<1>2. ASSUME NEW n, NEW v
      PROVE  Store!FailStaleRollout(n, v) <=> StoreProofs!FailStaleRollout(n, v)
  BY DEF Store!FailStaleRollout, StoreProofs!FailStaleRollout, Store!SetHealth,
         StoreProofs!SetHealth
<1>3. Store!FailStaleError <=> StoreProofs!FailStaleError
  BY DEF Store!FailStaleError, StoreProofs!FailStaleError
<1>4. Store!MarkOfflineNodes <=> StoreProofs!MarkOfflineNodes
  BY DEF Store!MarkOfflineNodes, StoreProofs!MarkOfflineNodes
<1> QED
  BY <1>1, <1>2, <1>3, <1>4
     DEF Store!WorkerNext, StoreProofs!WorkerNext, Store!Bundles, StoreProofs!Bundles

\* So all steps of the store are the same.
LEMMA SameStoreNext == [Store!Next]_(Store!vars) <=> [StoreProofs!Next]_(StoreProofs!vars)
BY SameStoreAdmin, SameStoreAgent, SameStoreWorker
   DEF Store!Next, StoreProofs!Next, Store!vars, StoreProofs!vars, Store!configVars,
       StoreProofs!configVars

\* The same for the agent.
LEMMA SameHostType == Host!TypeOK <=> HostProofs!TypeOK
BY DEF Host!TypeOK, HostProofs!TypeOK, Host!Calling, HostProofs!Calling, Host!Local,
       HostProofs!Local, Host!Offered, HostProofs!Offered, Host!NoBundle, HostProofs!NoBundle,
       Host!Files, HostProofs!Files

\* The initial states of the agent are the same.
LEMMA SameHostInit == Host!Init <=> HostProofs!Init
BY DEF Host!Init, HostProofs!Init, Host!NoBundle, HostProofs!NoBundle, Host!NoFile,
       HostProofs!NoFile

\* A fetched bundle is the same to both.
LEMMA SameHostFetched == \A b : Host!Fetched(b) <=> HostProofs!Fetched(b)
BY DEF Host!Fetched, HostProofs!Fetched

\* The local steps of the agent are the same.
LEMMA SameHostLocal == Host!LocalStep <=> HostProofs!LocalStep
<1> USE DEF Host!Goto, HostProofs!Goto, Host!PersistState, HostProofs!PersistState
<1>1. Host!PersistEnrolled <=> HostProofs!PersistEnrolled
  BY DEF Host!PersistEnrolled, HostProofs!PersistEnrolled
<1>2. Host!WriteBundle <=> HostProofs!WriteBundle
  BY DEF Host!WriteBundle, HostProofs!WriteBundle
<1>3. Host!SnapshotPrevious <=> HostProofs!SnapshotPrevious
  BY DEF Host!SnapshotPrevious, HostProofs!SnapshotPrevious
<1>4. Host!CheckBundle <=> HostProofs!CheckBundle
  BY DEF Host!CheckBundle, HostProofs!CheckBundle
<1>5. Host!PersistApplied <=> HostProofs!PersistApplied
  BY DEF Host!PersistApplied, HostProofs!PersistApplied
<1>6. Host!RestorePrevious <=> HostProofs!RestorePrevious
  BY DEF Host!RestorePrevious, HostProofs!RestorePrevious, Host!Torn, HostProofs!Torn,
         Host!Fault, HostProofs!Fault
<1>7. Host!PersistRestored <=> HostProofs!PersistRestored
  BY DEF Host!PersistRestored, HostProofs!PersistRestored
<1> QED
  BY <1>1, <1>2, <1>3, <1>4, <1>5, <1>6, <1>7 DEF Host!LocalStep, HostProofs!LocalStep

\* The faults of the agent are the same.
LEMMA SameHostFaults ==
  /\ Host!RenewFailed <=> HostProofs!RenewFailed
  /\ Host!CallFailed <=> HostProofs!CallFailed
  /\ Host!DiskError <=> HostProofs!DiskError
  /\ Host!Crash <=> HostProofs!Crash
<1> USE DEF Host!Fault, HostProofs!Fault, Host!EndCycle, HostProofs!EndCycle, Host!NoBundle,
            HostProofs!NoBundle, Host!Goto, HostProofs!Goto
<1>1. Host!RenewFailed <=> HostProofs!RenewFailed
  BY DEF Host!RenewFailed, HostProofs!RenewFailed
<1>2. Host!CallFailed <=> HostProofs!CallFailed
  BY DEF Host!CallFailed, HostProofs!CallFailed, Host!Calling, HostProofs!Calling
<1>3. Host!Interrupted = HostProofs!Interrupted
  BY DEF Host!Interrupted, HostProofs!Interrupted, Host!Torn, HostProofs!Torn
<1>4. Host!DiskError <=> HostProofs!DiskError
  BY <1>3 DEF Host!DiskError, HostProofs!DiskError
<1>5. Host!Crash <=> HostProofs!Crash
  BY <1>3 DEF Host!Crash, HostProofs!Crash
<1> QED
  BY <1>1, <1>2, <1>4, <1>5

\* So all steps of the agent are the same.
LEMMA SameHostNext == [Host!Next]_(Host!vars) <=> [HostProofs!Next]_(HostProofs!vars)
<1> USE DEF Host!Goto, HostProofs!Goto
<1>1. Host!BeginCycle <=> HostProofs!BeginCycle
  BY DEF Host!BeginCycle, HostProofs!BeginCycle
<1>2. \A n : Host!Registered(n) <=> HostProofs!Registered(n)
  BY DEF Host!Registered, HostProofs!Registered
<1>3. Host!ReportAccepted <=> HostProofs!ReportAccepted
  BY DEF Host!ReportAccepted, HostProofs!ReportAccepted, Host!EndCycle, HostProofs!EndCycle,
         Host!NoBundle, HostProofs!NoBundle
<1>4. /\ Host!Renewed <=> HostProofs!Renewed
      /\ Host!Refused <=> HostProofs!Refused
      /\ Host!NothingNew <=> HostProofs!NothingNew
  BY DEF Host!Renewed, HostProofs!Renewed, Host!Refused, HostProofs!Refused, Host!NothingNew,
         HostProofs!NothingNew
<1>5. Host!Answered <=> HostProofs!Answered
  BY <1>2, <1>3, <1>4, SameHostFetched
     DEF Host!Answered, HostProofs!Answered, Host!Offered, HostProofs!Offered
<1>6. Host!vars = HostProofs!vars
  BY DEF Host!vars, HostProofs!vars
<1>7. Host!Next <=> HostProofs!Next
  BY <1>1, <1>5, SameHostLocal, SameHostFaults DEF Host!Next, HostProofs!Next
<1>8. UNCHANGED Host!vars <=> UNCHANGED HostProofs!vars
  BY DEF Host!vars, HostProofs!vars
<1> QED
  BY <1>7, <1>8

-----------------------------------------------------------------------------
(* The inductive invariant.  The store assumes that agents report only     *)
(* about bundles handed out; that they do must survive everything between  *)
(* the answer of config/next and the report, in the hands of the agent or  *)
(* of the network.  ProvenPassed needs that a report of success, sent or   *)
(* late, is about a bundle that passed.                                    *)
Reporting == {"starting", "failing", "succeeding", "undoing"}

HandedToAgent ==
  agent.stage \in HostProofs!Applying => agent.bundle.version \in Store!HandedOut(agent.node)

LateCallsMeant ==
  \A c \in late :
    /\ c.what # "register" => c.node \in Nodes
    /\ c.what \in Store!ReportStatus => c.version \in Store!HandedOut(c.node)
    /\ c.what = "succeeded" => <<c.node, c.version>> \in passed

Inv ==
  /\ StoreProofs!Inv /\ HostProofs!Inv /\ HostProofs!AppliedPassed
  /\ TypeOK /\ HandedToAgent /\ LateCallsMeant /\ ProvenPassed

\* What an agent calls in each stage.
LEMMA WhatValues ==
  /\ DOMAIN What = Host!Calling
  /\ What["renewing"] = "renew" /\ What["registering"] = "register" /\ What["asking"] = "next"
  /\ What["starting"] = "in_progress" /\ What["failing"] = "failed"
  /\ What["succeeding"] = "succeeded" /\ What["undoing"] = "rolled_back"
BY DEF What, Host!Calling

\* The agent's fields, and what they are while it calls.
LEMMA AgentFields ==
  ASSUME Inv
  PROVE  /\ agent.node \in Nodes \cup {NoNode} /\ agent.current \in 0..MaxBundles
         /\ agent.bundle.version \in 0..MaxBundles
         /\ agent.stage \notin {"idle", "registering"} => agent.node \in Nodes
         /\ agent.stage \in Reporting => agent.bundle.version \in Store!HandedOut(agent.node)
         /\ agent.stage = "succeeding" => <<agent.node, agent.bundle.version>> \in passed
<1>1. /\ agent.node \in Nodes \cup {NoNode} /\ agent.current \in 0..MaxBundles
      /\ agent.bundle \in Host!Offered \cup {Host!NoBundle}
  BY DEF Inv, TypeOK, Host!TypeOK
<1>2. agent.bundle.version \in 0..MaxBundles
  BY <1>1 DEF Host!Offered, Host!NoBundle
<1> QED
  BY <1>1, <1>2 DEF Inv, HostProofs!Inv, HostProofs!InHand, HandedToAgent, Reporting,
                    HostProofs!Applying, HostProofs!AppliedPassed

\* The call of the agent is one that may be served at any time.
LEMMA CallMeant ==
  ASSUME Inv, agent.stage \in Host!Calling
  PROVE  /\ Call \in [what : {What[s] : s \in DOMAIN What}, node : Nodes \cup {NoNode},
                      version : 0..MaxBundles]
         /\ Call.what # "register" => Call.node \in Nodes
         /\ Call.what \in Store!ReportStatus => Call.version \in Store!HandedOut(Call.node)
         /\ Call.what = "succeeded" => <<Call.node, Call.version>> \in passed
<1> DEFINE w == What[agent.stage]
           v == IF agent.stage = "asking" THEN agent.current ELSE agent.bundle.version
<1>1. w \in {What[s] : s \in DOMAIN What}
  BY WhatValues
<1>2. agent.node \in Nodes \cup {NoNode} /\ v \in 0..MaxBundles
  BY AgentFields
<1>3. w # "register" => agent.node \in Nodes
  BY AgentFields, WhatValues DEF Host!Calling
<1>4. w \in Store!ReportStatus => agent.stage \in Reporting
  BY WhatValues DEF Host!Calling, Store!ReportStatus, Reporting
<1>5. agent.stage \in Reporting => v = agent.bundle.version
  BY DEF Reporting
<1>6. w \in Store!ReportStatus => v \in Store!HandedOut(agent.node)
  BY <1>4, <1>5, AgentFields
<1>7. w = "succeeded" => agent.stage = "succeeding"
  BY WhatValues DEF Host!Calling
<1>8. w = "succeeded" => <<agent.node, v>> \in passed
  BY <1>5, <1>7, AgentFields DEF Reporting
<1>9. Call = [what |-> w, node |-> agent.node, version |-> v]
  BY DEF Call
<1> HIDE DEF w, v
<1> QED
  BY <1>1, <1>2, <1>3, <1>6, <1>8, <1>9

\* A report the control plane serves is about a bundle it handed out.
LEMMA ReportServed ==
  ASSUME Inv, agent.stage \in Reporting
  PROVE  /\ Call.node \in Nodes /\ Call.what \in Store!ReportStatus
         /\ Call.version \in Store!HandedOut(Call.node)
         /\ Call.what = "succeeded" => <<Call.node, Call.version>> \in passed
<1>1. agent.stage \in Host!Calling
  BY DEF Reporting, Host!Calling
<1>2. Call.what \in Store!ReportStatus /\ Call.what # "register"
  BY WhatValues DEF Reporting, Call, Store!ReportStatus
<1> QED
  BY <1>1, <1>2, CallMeant

-----------------------------------------------------------------------------
(* Every step is one the store allows.                                     *)

\* A step of Fleet is a step of Rollouts or leaves the store alone.
LEMMA StoreStep == Inv /\ [Next]_vars => [Store!Next]_(Store!vars)
<1> SUFFICES ASSUME Inv, [Next]_vars PROVE Store!Next \/ UNCHANGED Store!vars
  OBVIOUS
<1>1. ASSUME UNCHANGED storeVars PROVE UNCHANGED Store!vars
  BY <1>1 DEF storeVars, Store!vars, Store!configVars
<1>2. ASSUME NEW n \in Nodes,
             \/ \E have \in 0..MaxBundles : Store!NextConfig(n, have)
             \/ \E v \in Store!HandedOut(n), s \in Store!ReportStatus : Store!ReportConfig(n, v, s)
             \/ Store!RenewNode(n)
      PROVE  Store!Next
  BY <1>2 DEF Store!Next, Store!AgentNext, Store!Bundles
<1>3. ASSUME NEW n \in Nodes, NEW have \in 0..MaxBundles, NEW b, HandleNext(n, have, b)
      PROVE  Store!Next \/ UNCHANGED Store!vars
  BY <1>1, <1>2, <1>3 DEF HandleNext
<1>4. CASE AdminNext
  <2>1. enrolled \subseteq Nodes
    BY DEF Inv, TypeOK
  <2> QED
    BY <1>4, <2>1 DEF AdminNext, Store!Next, Store!AdminNext, Store!Versions
<1>5. CASE WorkerNext
  BY <1>5 DEF WorkerNext, Store!Next
<1>6. CASE ServeNext
  <2>1. agent.node \in Nodes /\ agent.current \in 0..MaxBundles
    BY <1>6, AgentFields DEF ServeNext
  <2> QED
    BY <1>3, <1>6, <2>1 DEF ServeNext
<1>7. CASE ServeReport
  BY <1>2, <1>7, ReportServed DEF ServeReport, Reporting
<1>8. CASE ServeRenew
  <2>1. agent.node \in Nodes
    BY <1>8, AgentFields DEF ServeRenew
  <2> QED
    BY <1>2, <1>8, <2>1 DEF ServeRenew
<1>9. CASE ServeRegister \/ AgentNext \/ GiveUp \/ UNCHANGED vars
  <2>1. UNCHANGED storeVars
    BY <1>9 DEF ServeRegister, HandleRegister, AgentNext, GiveUp, vars
  <2> QED
    BY <1>1, <2>1
<1>10. ASSUME NEW c \in late, ServeLate(c) PROVE Store!Next \/ UNCHANGED Store!vars
  <2>1. /\ c.what # "register" => c.node \in Nodes
        /\ c.what \in Store!ReportStatus => c.version \in Store!HandedOut(c.node)
        /\ c.version \in 0..MaxBundles
    BY DEF Inv, LateCallsMeant, TypeOK
  <2>2. CASE c.what = "renew" /\ Store!RenewNode(c.node)
    BY <1>2, <2>1, <2>2
  <2>3. CASE c.what = "next" /\ \E b \in Offers : HandleNext(c.node, c.version, b)
    BY <1>3, <2>1, <2>3
  <2>4. CASE c.what \in Store!ReportStatus /\ Store!ReportConfig(c.node, c.version, c.what)
    <3>1. c.what # "register"
      BY <2>4 DEF Store!ReportStatus
    <3> QED
      BY <1>2, <2>1, <2>4, <3>1
  <2>5. CASE UNCHANGED storeVars
    BY <1>1, <2>5
  <2> QED
    BY <1>10, <2>2, <2>3, <2>4, <2>5 DEF ServeLate, HandleRegister
<1> QED
  BY <1>4, <1>5, <1>6, <1>7, <1>8, <1>9, <1>10 DEF Next, ServerNext

-----------------------------------------------------------------------------
(* Every step is one the agent allows, and what it fetches was handed out. *)

\* The answer with a bundle is about one newer than the agent's, which is thereby
\* handed out.
LEMMA NextAnswer ==
  ASSUME StoreProofs!Inv, NEW n \in Nodes, NEW have \in 0..MaxBundles,
         NEW b \in Offers, b # Host!NoBundle, HandleNext(n, have, b)
  PROVE  /\ b \in Host!Offered /\ b.version > have
         /\ b.version \in Store!HandedOut(n)'
<1>1. /\ Store!Offer(n, have) # 0 /\ Store!NextConfig(n, have)
      /\ b.version = desired[n]
  BY DEF HandleNext, Store!NullBundle
<1>2. desired[n] # 0 /\ have < desired[n] /\ Store!Offer(n, have) = desired[n]
  BY <1>1 DEF Store!Offer, Store!NullBundle
<1>3. /\ StoreProofs!TypeOK /\ desired[n] \in 0..MaxBundles /\ latest[n] \in 0..MaxBundles
      /\ desired[n] <= latest[n]
  BY DEF StoreProofs!Inv, StoreProofs!Bookkeeping, StoreProofs!TypeOK, StoreProofs!Bundles
<1> DEFINE v == desired[n]
<1>4. v \in 1..MaxBundles /\ v <= latest[n]
  BY <1>2, <1>3
<1>5. rollout[n][v].status # "none"
  <2>1. rollout[n][v].status = "none" <=> v > latest[n]
    BY <1>4 DEF StoreProofs!Inv, StoreProofs!Bookkeeping, StoreProofs!Versions
  <2> QED
    BY <1>3, <1>4, <2>1
<1>6. rollout'[n][v].status =
        IF rollout[n][v].status = "pending" THEN "awaiting_apply" ELSE rollout[n][v].status
  <2>1. /\ rollout \in [Nodes -> [1..MaxBundles -> StoreProofs!RolloutRow]]
        /\ rollout[n][v] \in StoreProofs!RolloutRow
    BY <1>3, <1>4 DEF StoreProofs!TypeOK, StoreProofs!Versions
  <2>2. rollout' = [rollout EXCEPT ![n][v].status =
                      IF @ = "pending" THEN "awaiting_apply" ELSE @]
    BY <1>1, <1>2 DEF Store!NextConfig
  <2>3. rollout'[n][v] = [rollout[n][v] EXCEPT !.status =
                            IF @ = "pending" THEN "awaiting_apply" ELSE @]
    BY <1>4, <2>1, <2>2
  <2> QED
    BY <2>1, <2>3 DEF StoreProofs!RolloutRow
<1>7. v \in Store!HandedOut(n)'
  BY <1>4, <1>5, <1>6 DEF Store!HandedOut, Store!Versions
<1>8. b \in Host!Offered
  BY DEF Offers
<1> QED
  BY <1>1, <1>2, <1>7, <1>8

\* A step of Fleet is a step of Agent or leaves the agent alone.
LEMMA HostStep ==
  ASSUME Inv, [Next]_vars
  PROVE  /\ Host!Next \/ UNCHANGED Host!vars
         /\ \A b \in Host!Offered : Host!Fetched(b) => b.version \in Store!HandedOut(agent.node)'
<1> DEFINE Handed == \A b \in Host!Offered :
                       Host!Fetched(b) => b.version \in Store!HandedOut(agent.node)'
<1>1. ASSUME UNCHANGED hostVars PROVE UNCHANGED Host!vars /\ Handed
  BY <1>1 DEF hostVars, Host!vars, Host!Fetched, Inv, TypeOK, Host!TypeOK
<1>2. ASSUME agent.stage # "asking" \/ agent'.stage # "starting" PROVE Handed
  BY <1>2 DEF Host!Fetched, Inv, TypeOK, Host!TypeOK
<1>3. CASE AdminNext \/ WorkerNext \/ (\E c \in late : ServeLate(c)) \/ UNCHANGED vars
  <2>1. UNCHANGED hostVars
    BY <1>3 DEF AdminNext, WorkerNext, ServeLate, vars
  <2> QED
    BY <1>1, <2>1
<1>4. CASE ServeNext
  <2>1. agent.node \in Nodes /\ agent.current \in 0..MaxBundles /\ agent.stage = "asking"
    BY <1>4, AgentFields DEF ServeNext
  <2>2. PICK b \in Offers : /\ HandleNext(agent.node, agent.current, b)
                            /\ IF b = Host!NoBundle THEN Host!NothingNew ELSE Host!Fetched(b)
    BY <1>4 DEF ServeNext
  <2>3. CASE b = Host!NoBundle
    <3>1. agent'.stage = "idle"
      BY <2>2, <2>3 DEF Host!NothingNew, Host!Goto, Inv, TypeOK, Host!TypeOK
    <3> QED
      BY <1>2, <2>2, <2>3, <3>1 DEF Host!Next, Host!Answered
  <2>4. CASE b # Host!NoBundle
    <3>1. /\ b \in Host!Offered /\ b.version > agent.current
          /\ b.version \in Store!HandedOut(agent.node)'
      <4>1. PICK n \in Nodes : n = agent.node
        BY <2>1
      <4>2. PICK have \in 0..MaxBundles : have = agent.current
        BY <2>1
      <4>3. HandleNext(n, have, b) /\ StoreProofs!Inv
        BY <2>2, <4>1, <4>2 DEF Inv
      <4>4. b \in Host!Offered /\ b.version > have /\ b.version \in Store!HandedOut(n)'
        BY <2>4, <4>3, NextAnswer
      <4>5. agent'.node = n
        BY <2>2, <2>4, <4>1 DEF Host!Fetched, Inv, TypeOK, Host!TypeOK
      <4> QED
        BY <4>2, <4>4, <4>5 DEF Store!HandedOut
    <3>2. agent'.bundle = b
      BY <2>2, <2>4 DEF Host!Fetched, Inv, TypeOK, Host!TypeOK
    <3>3. \A x \in Host!Offered : Host!Fetched(x) => x = b
      BY <3>2 DEF Host!Fetched, Inv, TypeOK, Host!TypeOK
    <3>4. Host!Answered
      BY <2>2, <2>4, <3>1 DEF Host!Answered
    <3> QED
      BY <3>1, <3>3, <3>4 DEF Host!Next
  <2> QED
    BY <2>3, <2>4
<1>5. CASE ServeReport
  BY <1>2, <1>5 DEF ServeReport, Host!Next, Host!Answered
<1>6. CASE ServeRenew \/ ServeRegister
  BY <1>2, <1>6 DEF ServeRenew, ServeRegister, Host!Next, Host!Answered
<1>7. CASE GiveUp
  <2>1. agent'.stage # "starting"
    BY <1>7 DEF GiveUp, Host!CallFailed, Host!RenewFailed, Host!EndCycle, Host!Goto, Inv, TypeOK,
                Host!TypeOK
  <2> QED
    BY <1>2, <1>7, <2>1 DEF GiveUp, Host!Next
<1>8. CASE AgentNext
  <2>1. Host!Next
    BY <1>8 DEF AgentNext, Host!Next
  <2>2. CASE Host!Crash
    <3>1. agent'.stage = "idle"
      BY <2>2 DEF Host!Crash
    <3> QED
      BY <1>2, <2>1, <3>1
  <2>3. CASE Host!BeginCycle \/ Host!LocalStep \/ Host!DiskError
    <3>1. agent.stage # "asking"
      BY <2>3 DEF Host!BeginCycle, Host!LocalStep, Host!DiskError, Host!Goto,
         Host!PersistEnrolled, Host!WriteBundle, Host!SnapshotPrevious, Host!CheckBundle,
         Host!PersistApplied, Host!RestorePrevious, Host!PersistRestored
    <3> QED
      BY <1>2, <2>1, <3>1
  <2> QED
    BY <1>8, <2>2, <2>3 DEF AgentNext
<1> QED
  BY <1>3, <1>4, <1>5, <1>6, <1>7, <1>8 DEF Next, ServerNext

-----------------------------------------------------------------------------
(* The inductive step.                                                     *)

\* Nothing is in hand or under way at first.
LEMMA InitInv == Init => Inv
<1> SUFFICES ASSUME Init PROVE Inv
  OBVIOUS
<1>1. Store!Init /\ Host!Init /\ enrolled = {} /\ late = {}
  BY DEF Init
<1>2. StoreProofs!Inv /\ StoreProofs!TypeOK
  BY <1>1, PartsAssume, SameStoreInit, StoreProofs!InitInv DEF StoreProofs!Inv
<1>3. HostProofs!Inv /\ HostProofs!TypeOK
  BY <1>1, PartsAssume, SameHostInit, HostProofs!InitInv DEF HostProofs!Inv
<1>4. TypeOK
  BY <1>1, <1>2, <1>3, SameStoreType, SameHostType DEF TypeOK
<1>5. HostProofs!AppliedPassed /\ HandedToAgent
  BY <1>1 DEF Host!Init, HostProofs!AppliedPassed, HandedToAgent, HostProofs!Applying
<1>6. LateCallsMeant /\ ProvenPassed
  BY <1>1 DEF LateCallsMeant, ProvenPassed, Store!Init
<1> QED
  BY <1>2, <1>3, <1>4, <1>5, <1>6 DEF Inv

\* Only a report of success proves a bundle.
LEMMA ProvenStep ==
  ASSUME Inv, [Next]_vars, NEW n \in Nodes, NEW v \in proven'[n]
  PROVE  <<n, v>> \in passed
<1>1. CASE UNCHANGED proven
  BY <1>1 DEF Inv, ProvenPassed
<1>2. ASSUME NEW m, NEW w, NEW s, Store!ReportConfig(m, w, s), s = "succeeded" => <<m, w>> \in passed
      PROVE  <<n, v>> \in passed
  <2>1. UNCHANGED proven \/ (s = "succeeded" /\ proven' = [proven EXCEPT ![m] = @ \cup {w}])
    BY <1>2 DEF Store!ReportConfig
  <2>2. v \in proven[n] \/ (s = "succeeded" /\ n = m /\ v = w)
    BY <2>1 DEF Inv, TypeOK, Store!TypeOK
  <2> QED
    BY <1>2, <2>2 DEF Inv, ProvenPassed
<1>3. CASE AdminNext
  <2>1. UNCHANGED proven
    BY <1>3 DEF AdminNext, Store!BeginCreate, Store!BeginRollback, Store!CreateRollout,
                Store!RollbackRollout, Store!EndRequest
  <2> QED
    BY <1>1, <2>1
<1>4. CASE WorkerNext
  <2>1. UNCHANGED proven
    BY <1>4 DEF WorkerNext, Store!WorkerNext, Store!FailStaleScan, Store!FailStaleRollout,
                Store!FailStaleError, Store!MarkOfflineNodes
  <2> QED
    BY <1>1, <2>1
<1>5. CASE ServeReport
  <2>1. Store!ReportConfig(Call.node, Call.version, Call.what)
    BY <1>5 DEF ServeReport
  <2>2. Call.what = "succeeded" => <<Call.node, Call.version>> \in passed
    BY <1>5, ReportServed DEF ServeReport, Reporting
  <2> QED
    BY <1>2, <2>1, <2>2
<1>6. CASE ServeNext \/ ServeRenew \/ ServeRegister \/ AgentNext \/ GiveUp \/ UNCHANGED vars
  <2>1. UNCHANGED proven
    BY <1>6 DEF ServeNext, ServeRenew, ServeRegister, HandleNext, HandleRegister, AgentNext, GiveUp,
                Store!NextConfig, Store!RenewNode, storeVars, vars
  <2> QED
    BY <1>1, <2>1
<1>7. ASSUME NEW c \in late, ServeLate(c) PROVE <<n, v>> \in passed
  <2>1. CASE Store!ReportConfig(c.node, c.version, c.what)
    BY <1>2, <2>1 DEF Inv, LateCallsMeant
  <2>2. CASE UNCHANGED proven
    BY <1>1, <2>2
  <2> QED
    BY <1>7, <2>1, <2>2 DEF ServeLate, HandleNext, HandleRegister, Store!NextConfig,
                            Store!RenewNode, storeVars
<1> QED
  BY <1>3, <1>4, <1>5, <1>6, <1>7 DEF Next, ServerNext

\* A call becomes late only when the agent that waits for its answer gives it up.
LEMMA LateGrows ==
  ASSUME Inv, [Next]_vars
  PROVE  \/ late' \subseteq late
         \/ agent.stage \in Host!Calling /\ late' \subseteq late \cup {Call}
<1>1. CASE GiveUp
  <2>1. agent.stage \in Host!Calling
    BY <1>1 DEF GiveUp, Host!CallFailed, Host!RenewFailed, Host!Goto, Host!Calling
  <2> QED
    BY <1>1, <2>1 DEF GiveUp
<1>2. CASE ~GiveUp
  BY <1>2 DEF Next, ServerNext, AdminNext, WorkerNext, ServeNext, ServeReport, ServeRenew,
              ServeRegister, AgentNext, ServeLate, vars
<1> QED
  BY <1>1, <1>2

\* Inv is inductive: the parts keep theirs, and what was handed out or passed stays so.
LEMMA NextInv == Inv /\ [Next]_vars => Inv'
<1> SUFFICES ASSUME Inv, [Next]_vars PROVE Inv'
  OBVIOUS
<1>1. StoreProofs!Inv' /\ \A m \in Nodes : Store!HandedOut(m) \subseteq Store!HandedOut(m)'
  <2>1. StoreProofs!Inv /\ [StoreProofs!Next]_(StoreProofs!vars)
    BY StoreStep, SameStoreNext DEF Inv
  <2>2. \A m \in Nodes : StoreProofs!HandedOut(m) \subseteq StoreProofs!HandedOut(m)'
    BY <2>1, PartsAssume, StoreProofs!NextKeepsHandedOut
  <2>3. StoreProofs!Inv'
    BY <2>1, PartsAssume, StoreProofs!NextInv
  <2> QED
    BY <2>2, <2>3 DEF Store!HandedOut, StoreProofs!HandedOut, Store!Versions, StoreProofs!Versions
<1>2. HostProofs!Inv /\ [HostProofs!Next]_(HostProofs!vars)
  BY HostStep, SameHostNext DEF Inv
<1>3. HostProofs!Inv'
  BY <1>2, PartsAssume, HostProofs!NextInv
<1>4. /\ passed \subseteq passed' /\ HostProofs!AppliedPassed'
      /\ agent'.stage \in HostProofs!Applying =>
           \/ /\ agent.stage \in HostProofs!Applying
              /\ agent'.node = agent.node /\ agent'.bundle = agent.bundle
           \/ \E b \in HostProofs!Offered : HostProofs!Fetched(b)
  BY <1>2, PartsAssume, HostProofs!NextKeepsHand DEF Inv
<1>5. late' \subseteq [what : {What[s] : s \in DOMAIN What}, node : Nodes \cup {NoNode},
                      version : 0..MaxBundles]
      /\ enrolled' \subseteq Nodes
  <2>1. enrolled' \subseteq Nodes
    BY DEF Inv, TypeOK, Next, ServerNext, AdminNext, WorkerNext, ServeNext, ServeReport, ServeRenew,
           ServeRegister, AgentNext, GiveUp, ServeLate, HandleRegister, vars
  <2> QED
    BY <2>1, LateGrows, CallMeant DEF Inv, TypeOK
<1>6. TypeOK'
  <2>1. StoreProofs!TypeOK' /\ HostProofs!TypeOK'
    BY <1>1, <1>3 DEF StoreProofs!Inv, HostProofs!Inv
  <2>2. Store!TypeOK' /\ Host!TypeOK'
    BY <2>1, SameStoreType, SameHostType, PTL
  <2> QED
    BY <1>5, <2>2 DEF TypeOK, What
<1>7. HandedToAgent'
  <2> SUFFICES ASSUME agent'.stage \in HostProofs!Applying
               PROVE  agent'.bundle.version \in Store!HandedOut(agent.node)'
    BY DEF HandedToAgent, HostProofs!Applying
  <2>1. CASE /\ agent.stage \in HostProofs!Applying
             /\ agent'.node = agent.node /\ agent'.bundle = agent.bundle
    <3>1. agent.node \in Nodes /\ agent.bundle.version \in Store!HandedOut(agent.node)
      BY <2>1, AgentFields DEF Inv, HandedToAgent, HostProofs!Applying
    <3>2. PICK n \in Nodes : n = agent.node
      BY <3>1
    <3>3. agent.bundle.version \in Store!HandedOut(n)'
      BY <1>1, <3>1, <3>2
    <3> QED
      BY <2>1, <3>2, <3>3 DEF Store!HandedOut
  <2>2. ASSUME NEW b \in HostProofs!Offered, HostProofs!Fetched(b)
        PROVE  agent'.bundle.version \in Store!HandedOut(agent.node)'
    <3>1. b \in Host!Offered /\ Host!Fetched(b)
      BY <2>2, SameHostFetched DEF Host!Offered, HostProofs!Offered
    <3>2. agent'.bundle = b
      BY <3>1 DEF Host!Fetched, Inv, TypeOK, Host!TypeOK
    <3> QED
      BY <3>1, <3>2, HostStep
  <2> QED
    BY <1>4, <2>1, <2>2
<1>8. LateCallsMeant'
  <2> SUFFICES ASSUME NEW c \in late'
               PROVE  /\ c.what # "register" => c.node \in Nodes
                      /\ c.what \in Store!ReportStatus => c.version \in Store!HandedOut(c.node)'
                      /\ c.what = "succeeded" => <<c.node, c.version>> \in passed'
    BY DEF LateCallsMeant, Store!ReportStatus
  <2>1. /\ c.what # "register" => c.node \in Nodes
        /\ c.what \in Store!ReportStatus => c.version \in Store!HandedOut(c.node)
        /\ c.what = "succeeded" => <<c.node, c.version>> \in passed
    BY LateGrows, CallMeant DEF Inv, LateCallsMeant
  <2>2. c.what \in Store!ReportStatus => c.what # "register"
    BY DEF Store!ReportStatus
  <2> QED
    BY <1>1, <1>4, <2>1, <2>2
<1>9. ProvenPassed'
  BY <1>4, ProvenStep DEF ProvenPassed
<1> QED
  BY <1>1, <1>3, <1>4, <1>6, <1>7, <1>8, <1>9 DEF Inv

-----------------------------------------------------------------------------
\* Every reachable state of agent and control plane satisfies the inductive
\* invariant: those of the two parts, and what each owes to the other.
THEOREM InvHolds == Spec => []Inv
BY InitInv, NextInv, PTL DEF Spec

\* Type correctness of the composition, for any constants.
THEOREM TypeCorrect == Spec => []TypeOK
<1>1. Inv => TypeOK
  BY DEF Inv
<1> QED
  BY <1>1, InvHolds, PTL

\* What the control plane records as proven passed every check on that very node,
\* however many calls are late and however often the agent fails.
THEOREM RecordsArePassed == Spec => []ProvenPassed
<1>1. Inv => ProvenPassed
  BY DEF Inv
<1> QED
  BY <1>1, InvHolds, PTL

\* The agents the control plane really has behave as Rollouts assumes of them.
THEOREM AgentsKeepToRollouts == Spec => ImplementsRollouts
<1>1. Init => Store!Init
  BY DEF Init
<1>2. Inv /\ [Next]_vars => [Store!Next]_(Store!vars)
  BY StoreStep
<1> QED
  BY <1>1, <1>2, InvHolds, PTL DEF Spec, ImplementsRollouts, Store!Spec

-----------------------------------------------------------------------------
(* Contents.  That a content that fails its checks goes no further needs   *)
(* both sides: what the agent checks is what the store has of the bundle,  *)
(* because it was handed out so and bundles never change, and what the     *)
(* store proves by a report is what the agent checked.                     *)
GoodInHand ==
  agent.stage \in HostProofs!Applying =>
    agent.bundle.content = rollout[agent.node][agent.bundle.version].content

PassedGood ==
  \A n \in Nodes, v \in 1..MaxBundles : <<n, v>> \in passed =>
    v <= latest[n] /\ rollout[n][v].content \notin Bad

\* What was published stays as it is.
LEMMA ContentsStay ==
  ASSUME Inv, [Next]_vars, NEW n \in Nodes, NEW v \in 1..latest[n]
  PROVE  rollout'[n][v].content = rollout[n][v].content /\ v <= latest'[n]
<1>1. StoreProofs!Inv /\ [StoreProofs!Next]_(StoreProofs!vars)
  BY StoreStep, SameStoreNext DEF Inv
<1>2. StoreProofs!KeepsBundles
  BY <1>1, PartsAssume, StoreProofs!NextKeepsBundles
<1>3. latest[n] \in 0..MaxBundles
  BY <1>1 DEF StoreProofs!Inv, StoreProofs!TypeOK, StoreProofs!Bundles
<1> QED
  BY <1>2, <1>3 DEF StoreProofs!KeepsBundles

\* What was handed out is published.
LEMMA HandedOutPublished ==
  ASSUME Inv, NEW n \in Nodes
  PROVE  /\ latest[n] \in 0..MaxBundles /\ Store!HandedOut(n) \subseteq 1..latest[n]
         /\ desired[n] \in 0..latest[n]
<1>1. /\ latest[n] \in 0..MaxBundles /\ desired[n] \in 0..MaxBundles /\ desired[n] <= latest[n]
      /\ \A v \in 1..MaxBundles : rollout[n][v].status = "none" <=> v > latest[n]
  BY DEF Inv, StoreProofs!Inv, StoreProofs!TypeOK, StoreProofs!Bundles, StoreProofs!Bookkeeping,
         StoreProofs!Versions
<1>2. \A v \in 1..MaxBundles : ~(v > latest[n]) => v \in 1..latest[n]
  BY <1>1
<1> QED
  BY <1>1, <1>2 DEF Store!HandedOut, Store!Versions

\* The agent fetches what the store has of the bundle.
LEMMA FetchedContent ==
  ASSUME Inv, [Next]_vars, NEW b \in Host!Offered, Host!Fetched(b)
  PROVE  /\ agent.node \in Nodes /\ b.version \in 1..latest[agent.node]
         /\ b.content = rollout[agent.node][b.version].content
         /\ agent'.node = agent.node /\ agent'.bundle = b
<1>1. /\ agent.stage = "asking" /\ agent'.stage = "starting"
      /\ agent'.node = agent.node /\ agent'.bundle = b
  BY DEF Host!Fetched, Inv, TypeOK, Host!TypeOK
<1>2. ServeNext
  <2>1. ~UNCHANGED hostVars
    BY <1>1 DEF hostVars
  <2>2. ~GiveUp
    BY <1>1 DEF GiveUp, Host!CallFailed, Host!RenewFailed, Host!EndCycle, Host!Goto, Inv, TypeOK,
                Host!TypeOK
  <2>3. ~AgentNext
    BY <1>1 DEF AgentNext, Host!Crash, Host!BeginCycle, Host!LocalStep, Host!DiskError, Host!Goto,
                Host!PersistEnrolled, Host!WriteBundle, Host!SnapshotPrevious, Host!CheckBundle,
                Host!PersistApplied, Host!RestorePrevious, Host!PersistRestored
  <2>4. ~(ServeReport \/ ServeRenew \/ ServeRegister)
    BY <1>1 DEF ServeReport, ServeRenew, ServeRegister, Host!Renewed, Host!Registered,
                Host!Refused, Host!Goto
  <2> QED
    BY <2>1, <2>2, <2>3, <2>4 DEF Next, ServerNext, AdminNext, WorkerNext, ServeLate, vars
<1>3. PICK n \in Nodes : n = agent.node
  BY <1>1, AgentFields
<1>4. PICK x \in Offers : /\ HandleNext(n, agent.current, x)
                          /\ IF x = Host!NoBundle THEN Host!NothingNew ELSE Host!Fetched(x)
  BY <1>2, <1>3 DEF ServeNext
<1>5. x # Host!NoBundle /\ x = b
  BY <1>1, <1>4 DEF Host!NothingNew, Host!Fetched, Host!Goto, Inv, TypeOK, Host!TypeOK
<1>6. /\ b = [version |-> desired[n], content |-> rollout[n][desired[n]].content]
      /\ Store!Offer(n, agent.current) # Store!NullBundle
  BY <1>4, <1>5 DEF HandleNext
<1>7. desired[n] # 0
  BY <1>6 DEF Store!Offer, Store!NullBundle
<1>8. desired[n] \in 1..latest[n]
  BY <1>7, HandedOutPublished
<1> QED
  BY <1>1, <1>3, <1>6, <1>8

\* Only a check that the agent makes, of the content it has in hand, lets a bundle pass.
LEMMA PassedGrows ==
  ASSUME Inv, [Next]_vars, NEW x \in passed'
  PROVE  \/ x \in passed
         \/ /\ agent.stage \in HostProofs!Applying /\ agent.bundle.content \notin Bad
            /\ x = <<agent.node, agent.bundle.version>>
<1>1. CASE UNCHANGED passed
  BY <1>1
<1>2. CASE Host!CheckBundle
  BY <1>2 DEF Host!CheckBundle, HostProofs!Applying
<1>3. Host!Next \/ UNCHANGED Host!vars
  BY HostStep
<1> QED
  BY <1>1, <1>2, <1>3 DEF Host!Next, Host!vars, Host!BeginCycle, Host!LocalStep,
     Host!PersistEnrolled, Host!WriteBundle, Host!SnapshotPrevious, Host!PersistApplied,
     Host!RestorePrevious, Host!PersistRestored, Host!Answered, Host!Registered, Host!Fetched,
     Host!Renewed, Host!Refused, Host!NothingNew, Host!ReportAccepted, Host!RenewFailed,
     Host!CallFailed, Host!DiskError, Host!Crash

\* The bundle in hand keeps the content it was published with.
LEMMA HandStaysGood ==
  ASSUME Inv, GoodInHand, [Next]_vars
  PROVE  GoodInHand'
<1> SUFFICES ASSUME agent'.stage \in HostProofs!Applying
             PROVE  agent'.bundle.content = rollout'[agent'.node][agent'.bundle.version].content
  BY DEF GoodInHand, HostProofs!Applying
<1>1. HostProofs!Inv /\ HostProofs!AppliedPassed /\ [HostProofs!Next]_(HostProofs!vars)
  BY HostStep, SameHostNext DEF Inv
<1>2. CASE /\ agent.stage \in HostProofs!Applying
           /\ agent'.node = agent.node /\ agent'.bundle = agent.bundle
  <2>1. agent.stage \notin {"idle", "registering"}
    BY <1>2 DEF HostProofs!Applying
  <2>2. PICK n \in Nodes : n = agent.node
    BY <2>1, AgentFields
  <2>3. agent.bundle.version \in 1..latest[n]
    BY <1>2, <2>2, HandedOutPublished DEF Inv, HandedToAgent
  <2>4. PICK v \in 1..latest[n] : v = agent.bundle.version
    BY <2>3
  <2>5. rollout'[n][v].content = rollout[n][v].content
    BY ContentsStay
  <2> QED
    BY <1>2, <2>2, <2>4, <2>5 DEF GoodInHand
<1>3. ASSUME NEW b \in HostProofs!Offered, HostProofs!Fetched(b)
      PROVE  agent'.bundle.content = rollout'[agent'.node][agent'.bundle.version].content
  <2>1. b \in Host!Offered /\ Host!Fetched(b)
    BY <1>3, SameHostFetched DEF Host!Offered, HostProofs!Offered
  <2>2. /\ agent.node \in Nodes /\ b.version \in 1..latest[agent.node]
        /\ b.content = rollout[agent.node][b.version].content
        /\ agent'.node = agent.node /\ agent'.bundle = b
    BY <2>1, FetchedContent
  <2>3. PICK n \in Nodes : n = agent.node
    BY <2>2
  <2>4. PICK v \in 1..latest[n] : v = b.version
    BY <2>2, <2>3
  <2>5. rollout'[n][v].content = rollout[n][v].content
    BY ContentsStay
  <2> QED
    BY <2>2, <2>3, <2>4, <2>5
<1> QED
  BY <1>1, <1>2, <1>3, PartsAssume, HostProofs!NextKeepsHand

\* What passed stays published, and good.
LEMMA PassedStaysGood ==
  ASSUME Inv, GoodInHand, PassedGood, [Next]_vars
  PROVE  PassedGood'
<1> SUFFICES ASSUME NEW n \in Nodes, NEW v \in 1..MaxBundles, <<n, v>> \in passed'
             PROVE  v <= latest'[n] /\ rollout'[n][v].content \notin Bad
  BY DEF PassedGood
<1>1. v <= latest[n] /\ rollout[n][v].content \notin Bad
  <2>1. CASE <<n, v>> \in passed
    BY <2>1 DEF PassedGood
  <2>2. CASE /\ agent.stage \in HostProofs!Applying /\ agent.bundle.content \notin Bad
             /\ <<n, v>> = <<agent.node, agent.bundle.version>>
    <3>1. v \in 1..latest[n]
      BY <2>2, HandedOutPublished DEF Inv, HandedToAgent
    <3> QED
      BY <2>2, <3>1, HandedOutPublished DEF GoodInHand
  <2> QED
    BY <2>1, <2>2, PassedGrows
<1>2. v \in 1..latest[n]
  BY <1>1, HandedOutPublished
<1> QED
  BY <1>1, <1>2, ContentsStay

\* What is recorded, fallen back on or copied is proven, so it passed, so it is good.
LEMMA GoodSpreads ==
  ASSUME Inv, PassedGood
  PROVE  OnlyGoodSpreads
<1>1. ASSUME NEW n \in Nodes, NEW v \in proven[n] PROVE rollout[n][v].content \notin Bad
  <2>1. v \in 1..MaxBundles
    BY DEF Inv, StoreProofs!Inv, StoreProofs!TypeOK, StoreProofs!Versions
  <2> QED
    BY <2>1 DEF Inv, ProvenPassed, PassedGood
<1>2. ASSUME NEW n \in Nodes
      PROVE  /\ current[n] \in {0} \cup proven[n]
             /\ \A v \in 1..latest[n] :
                  /\ rollout[n][v].previous \in {0} \cup proven[n]
                  /\ \/ rollout[n][v].content = v
                     \/ \E w \in proven[n] : rollout[n][w].content = rollout[n][v].content
  BY DEF Inv, StoreProofs!Inv, StoreProofs!TrustedRecords, StoreProofs!Trusted,
         StoreProofs!RollbackContentProven, StoreProofs!NullBundle
<1> QED
  BY <1>1, <1>2 DEF OnlyGoodSpreads

\* A config that fails its checks is never recorded as current, never fallen back on
\* and never copied by a rollback, for any number of identities, bundles,
\* administrators, faults and late calls, and whatever the checks refuse.
THEOREM BadConfigsStay == Spec => []OnlyGoodSpreads
<1>1. Init => GoodInHand /\ PassedGood
  BY DEF Init, Host!Init, GoodInHand, PassedGood, HostProofs!Applying
<1>2. Inv /\ GoodInHand /\ PassedGood /\ [Next]_vars => GoodInHand' /\ PassedGood'
  BY HandStaysGood, PassedStaysGood
<1>3. Inv /\ PassedGood => OnlyGoodSpreads
  BY GoodSpreads
<1> QED
  BY <1>1, <1>2, <1>3, InvHolds, PTL DEF Spec

\* What an agent, lost and late calls, administrators and the worker do together to the
\* configurations of the nodes is what NodeConfig promises.
THEOREM FleetImplementsNodeConfig == Spec => StoreProofs!ImplementsNodeConfig
<1>1. Init => StoreProofs!Init
  BY SameStoreInit DEF Init
<1>2. Inv /\ [Next]_vars => [StoreProofs!Next]_(StoreProofs!vars)
  BY StoreStep, SameStoreNext
<1>3. Spec => StoreProofs!Spec
  BY <1>1, <1>2, InvHolds, PTL DEF Spec, StoreProofs!Spec
<1> QED
  BY <1>3, PartsAssume, StoreProofs!StoreImplementsNodeConfig
=============================================================================
