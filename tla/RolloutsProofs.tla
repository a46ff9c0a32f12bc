--------------------------- MODULE RolloutsProofs ---------------------------
(***************************************************************************)
(* The safety of the rollout store for any number of nodes, concurrent     *)
(* requests and bundles.                                                   *)
(***************************************************************************)
EXTENDS Rollouts, TLAPS

USE RolloutsAssumption DEF Bundles, Versions, NullBundle

\* The initial state is well typed.
LEMMA InitTypeOK == Init => TypeOK
BY DEF Init, TypeOK, NoRollout, RolloutRow, NodeRow, Idle

\* A waiting request is one of the two kinds, and its kind tells which.
LEMMA RequestKinds ==
  ASSUME TypeOK, NEW q \in Requests
  PROVE  /\ request[q] # Idle => request[q] \in CreateRequest \cup RollbackRequest
         /\ request[q].kind = "create" => request[q] \in CreateRequest
         /\ request[q].kind = "rollback" => request[q] \in RollbackRequest
BY DEF TypeOK, Idle, CreateRequest, RollbackRequest

\* The numbers of a node.
LEMMA NodeNumbers ==
  ASSUME TypeOK, NEW n \in Nodes
  PROVE  /\ latest[n] \in Nat /\ current[n] \in Nat /\ desired[n] \in Nat
         /\ latest[n] <= MaxBundles /\ proven[n] \subseteq Versions
BY DEF TypeOK

\* What the worker selected are rollouts.
LEMMA StaleType ==
  ASSUME TypeOK, NEW i \in worker.stale
  PROVE  i \in Nodes \X Versions /\ i[1] \in Nodes /\ i[2] \in Versions
BY DEF TypeOK

\* The fields of a rollout.
LEMMA RowType ==
  ASSUME TypeOK, NEW n \in Nodes, NEW v \in Versions
  PROVE  /\ rollout[n][v] \in RolloutRow
         /\ rollout[n][v].previous \in Bundles
         /\ rollout[n][v].content \in Bundles
<1>1. rollout[n][v] \in RolloutRow
  BY DEF TypeOK
<1> QED
  BY <1>1 DEF RolloutRow

\* AddRollout writes a well typed row for the next version.
LEMMA AddRolloutType ==
  ASSUME TypeOK, NEW n \in Nodes, latest[n] < MaxBundles,
         NEW p \in Bundles, NEW c \in Bundles, AddRollout(n, p, c)
  PROVE  /\ latest' \in [Nodes -> Bundles]
         /\ rollout' \in [Nodes -> [Versions -> RolloutRow]]
         /\ desired' \in [Nodes -> Bundles]
<1>1. latest[n] + 1 \in Versions
  BY DEF TypeOK
<1>2. [status |-> "pending", previous |-> p, content |-> c] \in RolloutRow
  BY DEF RolloutRow
<1>3. \A m \in Nodes : rollout[m] \in [Versions -> RolloutRow]
  BY DEF TypeOK
<1> QED
  BY <1>1, <1>2, <1>3 DEF TypeOK, AddRollout

\* Changing the status of one rollout keeps the table well typed.
LEMMA StatusType ==
  ASSUME TypeOK, NEW n \in Nodes, NEW v \in Versions,
         NEW s \in {"none", "pending", "awaiting_apply"} \cup ReportStatus,
         rollout' = [rollout EXCEPT ![n][v].status = s]
  PROVE  rollout' \in [Nodes -> [Versions -> RolloutRow]]
<1>1. rollout[n][v] \in RolloutRow
  BY DEF TypeOK
<1>2. [rollout[n][v] EXCEPT !.status = s] \in RolloutRow
  BY <1>1 DEF RolloutRow
<1>3. \A m \in Nodes : rollout[m] \in [Versions -> RolloutRow]
  BY DEF TypeOK
<1> QED
  BY <1>2, <1>3 DEF TypeOK

\* Changing the health of one node keeps the table well typed.
LEMMA SetHealthType ==
  ASSUME TypeOK, NEW n \in Nodes, NEW h \in {"online", "degraded"}, SetHealth(n, h)
  PROVE  node' \in [Nodes -> NodeRow]
<1>1. node[n] \in NodeRow
  BY DEF TypeOK
<1>2. [node[n] EXCEPT !.health = h] \in NodeRow
  BY <1>1 DEF NodeRow
<1> QED
  BY <1>2 DEF TypeOK, SetHealth

\* Type correctness is preserved by the administrators' steps.
LEMMA AdminTypeOK == TypeOK /\ AdminNext => TypeOK'
<1> SUFFICES ASSUME TypeOK, NEW q \in Requests,
                    \/ \E n \in Nodes : BeginCreate(q, n) \/ \E v \in Versions : BeginRollback(q, n, v)
                    \/ CreateRollout(q) \/ RollbackRollout(q) \/ EndRequest(q)
             PROVE  TypeOK'
  BY DEF AdminNext
<1>1. ASSUME NEW n \in Nodes, BeginCreate(q, n) PROVE TypeOK'
  BY <1>1 DEF TypeOK, BeginCreate, CreateRequest, configVars
<1>2. ASSUME NEW n \in Nodes, NEW v \in Versions, BeginRollback(q, n, v) PROVE TypeOK'
  BY <1>2 DEF TypeOK, BeginRollback, RollbackRequest, configVars
<1>3. CASE CreateRollout(q)
  <2> DEFINE n == request[q].node
  <2>1. n \in Nodes /\ request[q].seen \in Bundles
    BY <1>3, RequestKinds DEF CreateRollout, CreateRequest
  <2>2. /\ latest[n] < MaxBundles /\ latest[n] + 1 \in Bundles
        /\ AddRollout(n, request[q].seen, latest[n] + 1)
    BY <1>3, <2>1 DEF TypeOK, CreateRollout
  <2>3. /\ latest' \in [Nodes -> Bundles]
        /\ rollout' \in [Nodes -> [Versions -> RolloutRow]]
        /\ desired' \in [Nodes -> Bundles]
    BY <2>1, <2>2, AddRolloutType
  <2> QED
    BY <1>3, <2>3 DEF TypeOK, CreateRollout
<1>4. CASE RollbackRollout(q)
  <2> DEFINE n == request[q].node
             v == request[q].target
             w == rollout[n][v].previous
  <2>1. n \in Nodes /\ v \in Versions
    BY <1>4, RequestKinds DEF RollbackRollout, RollbackRequest
  <2>2. w \in Bundles /\ w # NullBundle
    BY <1>4, <2>1, RowType DEF RollbackRollout, MayRollBack
  <2>3. rollout[n][w].content \in Bundles
    <3> HIDE DEF n, v, w
    <3>1. w \in Versions
      BY <2>2
    <3> QED
      BY <2>1, <3>1, RowType
  <2>4. latest[n] < MaxBundles /\ AddRollout(n, v, rollout[n][w].content)
    BY <1>4 DEF RollbackRollout
  <2>5. /\ latest' \in [Nodes -> Bundles]
        /\ rollout' \in [Nodes -> [Versions -> RolloutRow]]
        /\ desired' \in [Nodes -> Bundles]
    <3> HIDE DEF n, v, w
    <3> QED
      BY <2>1, <2>3, <2>4, AddRolloutType
  <2> QED
    BY <1>4, <2>5 DEF TypeOK, RollbackRollout
<1>5. CASE EndRequest(q)
  BY <1>5 DEF TypeOK, EndRequest, configVars
<1> QED
  BY <1>1, <1>2, <1>3, <1>4, <1>5

\* Type correctness is preserved by what the agents call.
LEMMA AgentTypeOK == TypeOK /\ AgentNext => TypeOK'
<1> SUFFICES ASSUME TypeOK, NEW n \in Nodes,
                    \/ \E have \in Bundles : NextConfig(n, have)
                    \/ \E v \in HandedOut(n), s \in ReportStatus : ReportConfig(n, v, s)
                    \/ BeginHeartbeat(n) \/ HeartbeatNode(n) \/ RenewNode(n) \/ Silence(n)
             PROVE  TypeOK'
  BY DEF AgentNext
<1>1. ASSUME NEW have \in Bundles, NextConfig(n, have) PROVE TypeOK'
  <2> DEFINE v == Offer(n, have)
             s == IF rollout[n][v].status = "pending" THEN "awaiting_apply"
                  ELSE rollout[n][v].status
  <2>1. v \in Versions
    BY <1>1 DEF TypeOK, NextConfig, Offer
  <2>2. s \in {"none", "pending", "awaiting_apply"} \cup ReportStatus
    BY <2>1, RowType DEF RolloutRow
  <2>3. rollout' = [rollout EXCEPT ![n][v].status = s]
    BY <1>1 DEF NextConfig
  <2>4. rollout' \in [Nodes -> [Versions -> RolloutRow]]
    <3> HIDE DEF v, s
    <3> QED
      BY <2>1, <2>2, <2>3, StatusType
  <2> QED
    BY <1>1, <2>4 DEF TypeOK, NextConfig, configVars
<1>2. ASSUME NEW v \in HandedOut(n), NEW s \in ReportStatus, ReportConfig(n, v, s) PROVE TypeOK'
  <2>1. v \in Versions
    BY DEF HandedOut
  <2>2. rollout' \in [Nodes -> [Versions -> RolloutRow]]
    BY <1>2, <2>1, StatusType DEF ReportConfig
  <2>3. rollout[n][v].previous \in Bundles
    BY <2>1, RowType
  <2>4. /\ proven' \in [Nodes -> SUBSET Versions]
        /\ current' \in [Nodes -> Bundles]
        /\ desired' \in [Nodes -> Bundles]
        /\ lastGood' \in [Nodes -> Bundles]
    <3>1. proven' \in [Nodes -> SUBSET Versions]
      <4>1. proven[n] \cup {v} \in SUBSET Versions
        BY <2>1 DEF TypeOK
      <4>2. UNCHANGED proven \/ proven' = [proven EXCEPT ![n] = @ \cup {v}]
        BY <1>2 DEF ReportConfig
      <4> QED
        BY <4>1, <4>2 DEF TypeOK
    <3>2. ASSUME NEW b \in Bundles, SetCurrent(n, b)
          PROVE  /\ current' \in [Nodes -> Bundles]
                 /\ desired' \in [Nodes -> Bundles]
                 /\ lastGood' \in [Nodes -> Bundles]
      BY <3>2 DEF TypeOK, SetCurrent
    <3>3. v \in Bundles
      BY <2>1
    <3>4. \/ UNCHANGED <<current, desired, lastGood>>
          \/ SetCurrent(n, v)
          \/ SetCurrent(n, rollout[n][v].previous)
      BY <1>2 DEF ReportConfig, configVars
    <3> QED
      BY <2>3, <3>1, <3>2, <3>3, <3>4 DEF TypeOK
  <2>5. node' \in [Nodes -> NodeRow]
    BY <1>2, SetHealthType DEF TypeOK, ReportConfig
  <2>6. lastApply' \in [Nodes -> {"none"} \cup Terminal]
    BY <1>2 DEF TypeOK, ReportConfig, ReportStatus, Terminal, configVars
  <2> QED
    BY <1>2, <2>2, <2>4, <2>5, <2>6 DEF TypeOK, ReportConfig
<1>3. CASE BeginHeartbeat(n)
  BY <1>3 DEF TypeOK, BeginHeartbeat, configVars
<1>4. CASE HeartbeatNode(n)
  BY <1>4 DEF TypeOK, HeartbeatNode, NodeRow, configVars
<1>5. CASE RenewNode(n)
  BY <1>5 DEF TypeOK, RenewNode, NodeRow, configVars
<1>6. CASE Silence(n)
  <2>1. node[n] \in NodeRow
    BY DEF TypeOK
  <2>2. [node[n] EXCEPT !.recent = FALSE] \in NodeRow
    BY <2>1 DEF NodeRow
  <2>3. node' \in [Nodes -> NodeRow]
    BY <1>6, <2>2 DEF TypeOK, Silence
  <2> QED
    BY <1>6, <2>3 DEF TypeOK, Silence, configVars
<1> QED
  BY <1>1, <1>2, <1>3, <1>4, <1>5, <1>6

\* Type correctness is preserved by the worker.
LEMMA WorkerTypeOK == TypeOK /\ WorkerNext => TypeOK'
<1> SUFFICES ASSUME TypeOK, WorkerNext PROVE TypeOK'
  OBVIOUS
<1>1. ASSUME NEW old \in [Nodes -> Bundles], FailStaleScan(old) PROVE TypeOK'
  BY <1>1 DEF TypeOK, FailStaleScan, configVars
<1>2. ASSUME NEW n \in Nodes, NEW v \in Versions, FailStaleRollout(n, v) PROVE TypeOK'
  <2>1. rollout' \in [Nodes -> [Versions -> RolloutRow]]
    BY <1>2, StatusType DEF FailStaleRollout, ReportStatus
  <2>2. node' \in [Nodes -> NodeRow]
    BY <1>2, SetHealthType DEF FailStaleRollout
  <2> QED
    BY <1>2, <2>1, <2>2 DEF TypeOK, FailStaleRollout, Terminal
<1>3. CASE FailStaleError
  BY <1>3 DEF TypeOK, FailStaleError, configVars
<1>4. CASE MarkOfflineNodes
  BY <1>4 DEF TypeOK, MarkOfflineNodes, NodeRow, configVars
<1> QED
  BY <1>1, <1>2, <1>3, <1>4 DEF WorkerNext

\* Every step keeps the types: one case for each action.
LEMMA NextTypeOK == TypeOK /\ [Next]_vars => TypeOK'
<1>1. TypeOK /\ UNCHANGED vars => TypeOK'
  BY DEF TypeOK, vars, configVars
<1> QED
  BY <1>1, AdminTypeOK, AgentTypeOK, WorkerTypeOK DEF Next

\* Every reachable state of the store is well typed, for any constants.
THEOREM TypeCorrect == Spec => []TypeOK
BY InitTypeOK, NextTypeOK, PTL DEF Spec

-----------------------------------------------------------------------------
(* The inductive invariant.  TrustedRecords alone is not inductive: the    *)
(* bundle a new rollout falls back to comes from the snapshot of a waiting *)
(* request, and a rollback's from a rollout that stands as succeeded.      *)
Inv == TypeOK /\ Bookkeeping /\ TrustedRecords /\ OffersOnlyNewest /\ RollbackContentProven

\* Point by point, what AddRollout changes.
LEMMA AddRolloutEffect ==
  ASSUME TypeOK, NEW n \in Nodes, latest[n] < MaxBundles,
         NEW p \in Bundles, NEW c \in Bundles, AddRollout(n, p, c)
  PROVE  /\ latest[n] + 1 \in Versions
         /\ latest'[n] = latest[n] + 1 /\ desired'[n] = latest[n] + 1
         /\ \A m \in Nodes \ {n} : latest'[m] = latest[m] /\ desired'[m] = desired[m]
         /\ rollout'[n][latest[n] + 1] = [status |-> "pending", previous |-> p, content |-> c]
         /\ \A m \in Nodes, v \in Versions :
              m # n \/ v # latest[n] + 1 => rollout'[m][v] = rollout[m][v]
<1>1. latest[n] + 1 \in Versions
  BY DEF TypeOK
<1>2. \A m \in Nodes : rollout[m] \in [Versions -> RolloutRow]
  BY DEF TypeOK
<1> QED
  BY <1>1, <1>2 DEF TypeOK, AddRollout

SetStatus(n, v, s) == rollout' = [rollout EXCEPT ![n][v].status = s]

\* Point by point, what an update of one status changes.
LEMMA StatusEffect ==
  ASSUME TypeOK, NEW n \in Nodes, NEW v \in Versions,
         NEW s \in {"pending", "awaiting_apply"} \cup ReportStatus,
         SetStatus(n, v, s)
  PROVE  /\ rollout'[n][v].status = s
         /\ \A m \in Nodes, w \in Versions :
              /\ rollout'[m][w].previous = rollout[m][w].previous
              /\ rollout'[m][w].content = rollout[m][w].content
              /\ m # n \/ w # v => rollout'[m][w] = rollout[m][w]
<1>1. \A m \in Nodes : rollout[m] \in [Versions -> RolloutRow]
  BY DEF TypeOK
<1>2. rollout[n][v] \in RolloutRow
  BY DEF TypeOK
<1>3. /\ [rollout[n][v] EXCEPT !.status = s].status = s
      /\ [rollout[n][v] EXCEPT !.status = s].previous = rollout[n][v].previous
      /\ [rollout[n][v] EXCEPT !.status = s].content = rollout[n][v].content
  BY <1>2 DEF RolloutRow
<1>4. rollout'[n][v] = [rollout[n][v] EXCEPT !.status = s]
  BY <1>1 DEF TypeOK, SetStatus
<1>5. \A m \in Nodes, w \in Versions : m # n \/ w # v => rollout'[m][w] = rollout[m][w]
  BY <1>1 DEF TypeOK, SetStatus
<1> QED
  BY <1>3, <1>4, <1>5

\* A step that leaves the rollouts, the records and the proofs alone, and keeps
\* what is in flight harmless, preserves the invariant.
LEMMA FrameInv ==
  ASSUME Inv, TypeOK',
         UNCHANGED <<latest, rollout, proven, current, desired, lastGood>>,
         \A q \in Requests : request'[q] # Idle =>
           \/ request'[q] = request[q]
           \/ /\ request'[q].seen = current[request'[q].node]
              /\ request'[q].node \in Nodes
              /\ request'[q].target <= latest[request'[q].node],
         \A i \in worker'.stale : i[2] <= latest[i[1]]
  PROVE  Inv'
<1>1. Bookkeeping'
  BY DEF Inv, Bookkeeping, TrustedRecords, Trusted
<1>2. TrustedRecords' /\ OffersOnlyNewest' /\ RollbackContentProven'
  BY DEF Inv, TrustedRecords, Trusted, OffersOnlyNewest, RollbackContentProven
<1> QED
  BY <1>1, <1>2 DEF Inv

\* A new rollout with a trusted fallback and a proven or new content preserves
\* the invariant.
LEMMA AddRolloutInv ==
  ASSUME Inv, TypeOK', NEW n \in Nodes, latest[n] < MaxBundles,
         NEW p \in Trusted(n), NEW c \in Bundles, AddRollout(n, p, c),
         \/ c = latest[n] + 1
         \/ \E w \in proven[n] : rollout[n][w].content = c,
         NEW q \in Requests, request' = [request EXCEPT ![q] = Idle],
         UNCHANGED <<proven, current, lastGood, lastApply, node, beat, worker>>
  PROVE  Inv'
<1>1. TypeOK /\ p \in Bundles
  BY DEF Inv, TypeOK, Trusted
<1>2. /\ latest[n] + 1 \in Versions
      /\ latest'[n] = latest[n] + 1 /\ desired'[n] = latest[n] + 1
      /\ \A m \in Nodes \ {n} : latest'[m] = latest[m] /\ desired'[m] = desired[m]
      /\ rollout'[n][latest[n] + 1] = [status |-> "pending", previous |-> p, content |-> c]
      /\ \A m \in Nodes, v \in Versions :
           m # n \/ v # latest[n] + 1 => rollout'[m][v] = rollout[m][v]
  BY <1>1, AddRolloutEffect
<1>3. ASSUME NEW m \in Nodes
      PROVE  latest[m] \in Nat /\ latest'[m] \in Nat /\ latest'[m] >= latest[m]
  BY <1>1, <1>2, NodeNumbers
<1>4. Bookkeeping'
  <2>1. ASSUME NEW m \in Nodes
        PROVE  /\ current'[m] <= latest'[m] /\ desired'[m] <= latest'[m]
               /\ proven'[m] \subseteq 1..latest'[m]
    <3>1. current[m] <= latest[m] /\ desired[m] <= latest[m] /\ proven[m] \subseteq 1..latest[m]
      BY DEF Inv, Bookkeeping
    <3>2. current[m] \in Nat /\ desired[m] \in Nat
      BY <1>1, NodeNumbers
    <3>3. current'[m] <= latest'[m] /\ proven'[m] \subseteq 1..latest'[m]
      BY <1>3, <3>1, <3>2
    <3>4. desired'[m] <= latest'[m]
      BY <1>2, <1>3, <3>1, <3>2
    <3> QED
      BY <3>3, <3>4
  <2>2. ASSUME NEW m \in Nodes, NEW v \in Versions
        PROVE  /\ rollout'[m][v].status = "none" <=> v > latest'[m]
               /\ rollout'[m][v].status = "succeeded" => v \in proven'[m]
    <3>1. CASE m = n /\ v = latest[n] + 1
      BY <3>1, <1>2, <1>3
    <3>2. CASE m # n \/ v # latest[n] + 1
      <4>1. rollout'[m][v] = rollout[m][v] /\ proven'[m] = proven[m]
        BY <3>2, <1>2
      <4>2. /\ rollout[m][v].status = "none" <=> v > latest[m]
            /\ rollout[m][v].status = "succeeded" => v \in proven[m]
        BY DEF Inv, Bookkeeping
      <4>3. v > latest[m] <=> v > latest'[m]
        <5>1. CASE m # n
          BY <5>1, <1>2
        <5>2. CASE m = n
          BY <5>2, <3>2, <1>2, <1>3
        <5> QED
          BY <5>1, <5>2
      <4> QED
        BY <4>1, <4>2, <4>3
    <3> QED
      BY <3>1, <3>2
  <2>3. ASSUME NEW r \in Requests, request'[r] # Idle
        PROVE  /\ request'[r].seen \in {NullBundle} \cup proven'[request'[r].node]
               /\ request'[r].target <= latest'[request'[r].node]
    <3>1. request'[r] = request[r] /\ request[r] # Idle
      BY <2>3 DEF Inv, TypeOK
    <3>2. request[r].node \in Nodes /\ request[r].target \in Nat
      BY <1>1, <3>1, RequestKinds DEF CreateRequest, RollbackRequest
    <3> QED
      <4>1. /\ request[r].seen \in {NullBundle} \cup proven[request[r].node]
            /\ request[r].target <= latest[request[r].node]
        BY <3>1 DEF Inv, Bookkeeping, Trusted
      <4> QED
        BY <3>1, <3>2, <4>1, <1>3
  <2>4. ASSUME NEW i \in worker'.stale PROVE i[2] <= latest'[i[1]]
    <3>1. i \in worker.stale /\ i[1] \in Nodes /\ i[2] \in Nat
      BY <1>1, StaleType
    <3> QED
      BY <3>1, <1>3 DEF Inv, Bookkeeping
  <2> QED
    BY <2>1, <2>2, <2>3, <2>4 DEF Bookkeeping, Trusted
<1>5. TrustedRecords'
  <2>1. ASSUME NEW m \in Nodes
        PROVE  /\ current'[m] \in {NullBundle} \cup proven'[m]
               /\ lastGood'[m] \in {NullBundle} \cup proven'[m]
    BY DEF Inv, TrustedRecords, Trusted
  <2>2. ASSUME NEW m \in Nodes, NEW v \in 1..latest'[m]
        PROVE  rollout'[m][v].previous \in {NullBundle} \cup proven'[m]
    <3>1. CASE m = n /\ v = latest[n] + 1
      BY <3>1, <1>2 DEF Trusted
    <3>2. CASE m # n \/ v # latest[n] + 1
      <4>1. v \in 1..latest[m]
        BY <3>2, <1>2, <1>3
      <4>2. v \in Versions
        BY <4>1, <1>1, NodeNumbers
      <4> QED
        BY <3>2, <4>1, <4>2, <1>2 DEF Inv, TrustedRecords, Trusted
    <3> QED
      BY <3>1, <3>2
  <2> QED
    BY <2>1, <2>2 DEF TrustedRecords, Trusted
<1>6. OffersOnlyNewest'
  BY <1>2 DEF Inv, OffersOnlyNewest
<1>7. RollbackContentProven'
  <2> SUFFICES ASSUME NEW m \in Nodes, NEW v \in 1..latest'[m]
               PROVE  \/ rollout'[m][v].content = v
                      \/ \E w \in proven'[m] : /\ w < v
                                               /\ rollout'[m][w].content = rollout'[m][v].content
    BY DEF RollbackContentProven
  <2>1. ASSUME NEW w \in proven[m]
        PROVE  w \in Versions /\ w <= latest[m] /\ rollout'[m][w] = rollout[m][w]
    BY <1>1, <1>2, <1>3, NodeNumbers DEF Inv, Bookkeeping
  <2>2. CASE m = n /\ v = latest[n] + 1
    <3>1. rollout'[m][v].content = c
      BY <2>2, <1>2
    <3>2. CASE c = latest[n] + 1
      BY <2>2, <3>1, <3>2
    <3>3. CASE \E w \in proven[n] : rollout[n][w].content = c
      <4> PICK w \in proven[n] : rollout[n][w].content = c
        BY <3>3
      <4>1. w < v
        BY <2>1, <2>2, <1>3
      <4> QED
        BY <2>1, <2>2, <3>1, <4>1
    <3> QED
      BY <3>2, <3>3
  <2>3. CASE m # n \/ v # latest[n] + 1
    <3>1. v \in 1..latest[m] /\ v \in Versions
      BY <2>3, <1>1, <1>2, <1>3, NodeNumbers
    <3>2. rollout'[m][v] = rollout[m][v]
      BY <2>3, <3>1, <1>2
    <3> QED
      BY <2>1, <3>1, <3>2 DEF Inv, RollbackContentProven
  <2> QED
    BY <2>2, <2>3
<1> QED
  BY <1>4, <1>5, <1>6, <1>7 DEF Inv

\* Before the first rollout there is nothing to trust wrongly.
LEMMA InitInv == Init => Inv
<1> SUFFICES ASSUME Init PROVE Inv
  OBVIOUS
<1>1. \A n \in Nodes : latest[n] = 0 /\ \A v \in 1..latest[n] : FALSE
  BY DEF Init
<1>2. Bookkeeping
  BY DEF Init, Bookkeeping, NoRollout
<1>3. TrustedRecords /\ RollbackContentProven
  BY <1>1 DEF Init, TrustedRecords, Trusted, RollbackContentProven
<1>4. OffersOnlyNewest
  BY DEF Init, OffersOnlyNewest
<1> QED
  BY <1>2, <1>3, <1>4, InitTypeOK DEF Inv

\* What a waiting request saw as current is trusted when it commits, whatever
\* was committed meanwhile: proofs are never taken back.
LEMMA CreateInv ==
  ASSUME Inv, TypeOK', NEW q \in Requests, CreateRollout(q)
  PROVE  Inv'
<1> DEFINE n == request[q].node
           p == request[q].seen
<1>1. TypeOK
  BY DEF Inv
<1>2. n \in Nodes /\ request[q] # Idle
  BY <1>1, RequestKinds DEF CreateRollout, CreateRequest, Idle
<1>3. p \in Trusted(n)
  BY <1>2 DEF Inv, Bookkeeping
<1>4. latest[n] < MaxBundles /\ latest[n] + 1 \in Bundles
  BY <1>1, <1>2, NodeNumbers DEF CreateRollout
<1>5. /\ AddRollout(n, p, latest[n] + 1)
      /\ request' = [request EXCEPT ![q] = Idle]
      /\ UNCHANGED <<proven, current, lastGood, lastApply, node, beat, worker>>
  BY DEF CreateRollout
<1> HIDE DEF n, p
<1> QED
  BY <1>2, <1>3, <1>4, <1>5, AddRolloutInv

\* A rollback is of a rollout that stands as succeeded, so its fallback is
\* proven, and the content it copies is that of a trusted bundle.
LEMMA RollbackInv ==
  ASSUME Inv, TypeOK', NEW q \in Requests, RollbackRollout(q)
  PROVE  Inv'
<1> DEFINE n == request[q].node
           v == request[q].target
           w == rollout[n][v].previous
           c == rollout[n][w].content
<1>1. TypeOK
  BY DEF Inv
<1>2. n \in Nodes /\ v \in Versions
  BY <1>1, RequestKinds DEF RollbackRollout, RollbackRequest
<1>3. v \in proven[n]
  BY <1>2 DEF Inv, Bookkeeping, RollbackRollout, MayRollBack
<1>4. w \in proven[n]
  <2>1. v \in 1..latest[n]
    BY <1>2, <1>3 DEF Inv, Bookkeeping
  <2>2. w # NullBundle
    BY DEF RollbackRollout, MayRollBack
  <2> QED
    BY <1>2, <2>1, <2>2 DEF Inv, TrustedRecords, Trusted
<1>5. c \in Bundles
  BY <1>1, <1>2, <1>4, NodeNumbers, RowType
<1>6. v \in Trusted(n) /\ \E u \in proven[n] : rollout[n][u].content = c
  BY <1>3, <1>4 DEF Trusted
<1>7. /\ latest[n] < MaxBundles
      /\ AddRollout(n, v, c)
      /\ request' = [request EXCEPT ![q] = Idle]
      /\ UNCHANGED <<proven, current, lastGood, lastApply, node, beat, worker>>
  BY DEF RollbackRollout
<1> HIDE DEF n, v, w, c
<1> QED
  BY <1>2, <1>5, <1>6, <1>7, AddRolloutInv

\* The administrators' steps preserve the invariant.
LEMMA AdminInv == Inv /\ TypeOK' /\ AdminNext => Inv'
<1> SUFFICES ASSUME Inv, TypeOK', NEW q \in Requests,
                    \/ \E n \in Nodes : BeginCreate(q, n) \/ \E v \in Versions : BeginRollback(q, n, v)
                    \/ CreateRollout(q) \/ RollbackRollout(q) \/ EndRequest(q)
             PROVE  Inv'
  BY DEF AdminNext
<1>1. ASSUME NEW n \in Nodes, BeginCreate(q, n) PROVE Inv'
  <2>1. latest[n] \in Nat
    BY NodeNumbers DEF Inv
  <2>2. \A r \in Requests : request'[r] # Idle =>
          \/ request'[r] = request[r]
          \/ /\ request'[r].seen = current[request'[r].node]
             /\ request'[r].node \in Nodes
             /\ request'[r].target <= latest[request'[r].node]
    BY <1>1, <2>1 DEF BeginCreate, Inv, TypeOK
  <2> QED
    BY <1>1, <2>2, FrameInv DEF BeginCreate, configVars, Inv, Bookkeeping
<1>2. ASSUME NEW n \in Nodes, NEW v \in Versions, BeginRollback(q, n, v) PROVE Inv'
  <2>1. \A r \in Requests : request'[r] # Idle =>
          \/ request'[r] = request[r]
          \/ /\ request'[r].seen = current[request'[r].node]
             /\ request'[r].node \in Nodes
             /\ request'[r].target <= latest[request'[r].node]
    BY <1>2 DEF BeginRollback, Inv, TypeOK
  <2> QED
    BY <1>2, <2>1, FrameInv DEF BeginRollback, configVars, Inv, Bookkeeping
<1>3. CASE CreateRollout(q)
  BY <1>3, CreateInv
<1>4. CASE RollbackRollout(q)
  BY <1>4, RollbackInv
<1>5. CASE EndRequest(q)
  <2>1. \A r \in Requests : request'[r] # Idle => request'[r] = request[r]
    BY <1>5 DEF EndRequest, Inv, TypeOK
  <2> QED
    BY <1>5, <2>1, FrameInv DEF EndRequest, configVars, Inv, Bookkeeping
<1> QED
  BY <1>1, <1>2, <1>3, <1>4, <1>5

\* A step that changes the status of an existing rollout, and points the node
\* at trusted bundles or leaves it where it was, preserves the invariant.
LEMMA StatusInv ==
  ASSUME Inv, TypeOK', NEW n \in Nodes, NEW v \in Versions, v <= latest[n],
         NEW s \in {"pending", "awaiting_apply"} \cup ReportStatus,
         s = "succeeded" => v \in proven'[n],
         SetStatus(n, v, s),
         UNCHANGED <<latest, request>>, worker'.stale \subseteq worker.stale,
         \A m \in Nodes :
           /\ proven[m] \subseteq proven'[m] /\ proven'[m] \subseteq 1..latest[m]
           /\ current'[m] \in {NullBundle} \cup proven'[m]
           /\ lastGood'[m] \in {NullBundle} \cup proven'[m]
           /\ desired'[m] <= latest[m]
           /\ desired'[m] # current'[m] => desired'[m] = latest[m]
  PROVE  Inv'
<1>0. TypeOK
  BY DEF Inv
<1>1. TypeOK /\ \A m \in Nodes : latest[m] \in Nat /\ latest[m] <= MaxBundles
  BY NodeNumbers DEF Inv
<1>2. /\ rollout'[n][v].status = s
      /\ \A m \in Nodes, w \in Versions :
           /\ rollout'[m][w].previous = rollout[m][w].previous
           /\ rollout'[m][w].content = rollout[m][w].content
           /\ m # n \/ w # v => rollout'[m][w] = rollout[m][w]
  BY <1>0, StatusEffect
<1>3. Bookkeeping'
  <2>1. ASSUME NEW m \in Nodes
        PROVE  /\ current'[m] <= latest'[m] /\ desired'[m] <= latest'[m]
               /\ proven'[m] \subseteq 1..latest'[m]
    <3>1. current'[m] = 0 \/ current'[m] \in 1..latest[m]
      OBVIOUS
    <3> QED
      BY <3>1, <1>1
  <2>2. ASSUME NEW m \in Nodes, NEW w \in Versions
        PROVE  /\ rollout'[m][w].status = "none" <=> w > latest'[m]
               /\ rollout'[m][w].status = "succeeded" => w \in proven'[m]
    <3>1. CASE m = n /\ w = v
      BY <3>1, <1>1, <1>2 DEF ReportStatus
    <3>2. CASE m # n \/ w # v
      <4>1. rollout'[m][w] = rollout[m][w]
        BY <3>2, <1>2
      <4> QED
        BY <4>1 DEF Inv, Bookkeeping
    <3> QED
      BY <3>1, <3>2
  <2>3. ASSUME NEW r \in Requests, request'[r] # Idle
        PROVE  /\ request'[r].seen \in {NullBundle} \cup proven'[request'[r].node]
               /\ request'[r].target <= latest'[request'[r].node]
    <3>1. request[r].node \in Nodes /\ request'[r] = request[r] /\ request[r] # Idle
      BY <1>1, <2>3, RequestKinds DEF CreateRequest, RollbackRequest
    <3> QED
      BY <3>1 DEF Inv, Bookkeeping, Trusted
  <2>4. ASSUME NEW i \in worker'.stale PROVE i[2] <= latest'[i[1]]
    BY DEF Inv, Bookkeeping
  <2> QED
    BY <2>1, <2>2, <2>3, <2>4 DEF Bookkeeping, Trusted
<1>4. TrustedRecords'
  <2>1. ASSUME NEW m \in Nodes, NEW w \in 1..latest'[m]
        PROVE  rollout'[m][w].previous \in {NullBundle} \cup proven'[m]
    <3>1. w \in Versions /\ w \in 1..latest[m]
      BY <1>1
    <3>2. rollout[m][w].previous \in {NullBundle} \cup proven[m]
      BY <3>1 DEF Inv, TrustedRecords, Trusted
    <3>3. proven[m] \subseteq proven'[m]
      OBVIOUS
    <3> QED
      BY <1>2, <3>1, <3>2, <3>3
  <2> QED
    BY <2>1 DEF TrustedRecords, Trusted
<1>5. OffersOnlyNewest'
  BY DEF OffersOnlyNewest
<1>6. RollbackContentProven'
  <2> SUFFICES ASSUME NEW m \in Nodes, NEW w \in 1..latest'[m], rollout'[m][w].content # w
               PROVE  \E u \in proven'[m] : /\ u < w
                                            /\ rollout'[m][u].content = rollout'[m][w].content
    BY DEF RollbackContentProven
  <2>1. w \in Versions /\ w \in 1..latest[m] /\ rollout[m][w].content # w
    BY <1>1, <1>2
  <2>2. PICK u \in proven[m] : u < w /\ rollout[m][u].content = rollout[m][w].content
    BY <2>1 DEF Inv, RollbackContentProven
  <2>3. u \in Versions /\ u \in proven'[m]
    BY <1>1, <2>2, NodeNumbers
  <2> QED
    BY <1>2, <2>1, <2>2, <2>3
<1> QED
  BY <1>3, <1>4, <1>5, <1>6 DEF Inv

\* Handing out a bundle preserves the invariant.
LEMMA NextConfigInv ==
  ASSUME Inv, TypeOK', NEW n \in Nodes, NEW have \in Bundles, NextConfig(n, have)
  PROVE  Inv'
<1> DEFINE v == Offer(n, have)
           s == IF rollout[n][v].status = "pending" THEN "awaiting_apply"
                ELSE rollout[n][v].status
<1>1. TypeOK /\ v = desired[n] /\ v # NullBundle
  BY DEF Inv, NextConfig, Offer
<1>2. v \in Versions /\ v <= latest[n]
  BY <1>1 DEF TypeOK, Inv, Bookkeeping
<1>3. SetStatus(n, v, s)
  BY DEF NextConfig, SetStatus
<1>4. UNCHANGED <<latest, request, proven, current, desired, lastGood, worker>>
  BY DEF NextConfig, configVars
<1>5. /\ s \in {"pending", "awaiting_apply"} \cup ReportStatus
      /\ s = "succeeded" => v \in proven'[n]
  <2>1. latest[n] \in Nat
    BY <1>1, NodeNumbers
  <2>2. rollout[n][v].status # "none" /\ rollout[n][v] \in RolloutRow
    BY <1>1, <1>2, <2>1, RowType DEF Inv, Bookkeeping
  <2> QED
    BY <1>2, <1>4, <2>2 DEF Inv, Bookkeeping, RolloutRow
<1>6. \A m \in Nodes :
        /\ proven[m] \subseteq proven'[m] /\ proven'[m] \subseteq 1..latest[m]
        /\ current'[m] \in {NullBundle} \cup proven'[m]
        /\ lastGood'[m] \in {NullBundle} \cup proven'[m]
        /\ desired'[m] <= latest[m]
        /\ desired'[m] # current'[m] => desired'[m] = latest[m]
  BY <1>4 DEF Inv, Bookkeeping, TrustedRecords, Trusted, OffersOnlyNewest
<1> HIDE DEF v, s
<1> QED
  BY <1>2, <1>3, <1>4, <1>5, <1>6, StatusInv

\* A timeout preserves the invariant: it gives up the newest bundle for the
\* current one.
LEMMA FailStaleInv ==
  ASSUME Inv, TypeOK', NEW n \in Nodes, NEW v \in Versions, FailStaleRollout(n, v)
  PROVE  Inv'
<1> DEFINE s == "failed"
<1>1. TypeOK
  BY DEF Inv
<1>2. v <= latest[n] /\ s \in ReportStatus /\ s # "succeeded"
  BY DEF Inv, Bookkeeping, FailStaleRollout, ReportStatus
<1>3. /\ SetStatus(n, v, s)
      /\ UNCHANGED <<latest, request, proven, current, lastGood>>
      /\ desired' = [desired EXCEPT ![n] = current[n]]
  BY DEF FailStaleRollout, SetStatus
<1>4. worker'.stale \subseteq worker.stale
  BY <1>1 DEF FailStaleRollout, TypeOK
<1>5. \A m \in Nodes :
        /\ proven[m] \subseteq proven'[m] /\ proven'[m] \subseteq 1..latest[m]
        /\ current'[m] \in {NullBundle} \cup proven'[m]
        /\ lastGood'[m] \in {NullBundle} \cup proven'[m]
        /\ desired'[m] <= latest[m]
        /\ desired'[m] # current'[m] => desired'[m] = latest[m]
  BY <1>1, <1>3 DEF TypeOK, Inv, Bookkeeping, TrustedRecords, Trusted, OffersOnlyNewest
<1> HIDE DEF s
<1> QED
  BY <1>2, <1>3, <1>4, <1>5, StatusInv

\* A report preserves the invariant, whenever it comes: a success proves its
\* bundle, a rollback goes to the trusted fallback of its rollout.
LEMMA ReportInv ==
  ASSUME Inv, TypeOK', NEW n \in Nodes, NEW v \in HandedOut(n), NEW s \in ReportStatus,
         ReportConfig(n, v, s)
  PROVE  Inv'
<1> DEFINE p == rollout[n][v].previous
<1>1. TypeOK /\ v \in Versions /\ \A m \in Nodes : latest[m] \in Nat
  BY NodeNumbers DEF Inv, HandedOut
<1>2. v <= latest[n]
  BY <1>1 DEF Inv, Bookkeeping, HandedOut
<1>3. /\ SetStatus(n, v, s)
      /\ UNCHANGED <<latest, request>> /\ worker'.stale \subseteq worker.stale
  BY DEF ReportConfig, SetStatus
<1>4. p \in Trusted(n)
  BY <1>1, <1>2 DEF Inv, TrustedRecords
<1>5. proven' = IF s = "succeeded" THEN [proven EXCEPT ![n] = @ \cup {v}] ELSE proven
  BY DEF ReportConfig
<1>6. \/ UNCHANGED <<current, desired, lastGood>>
      \/ s = "succeeded" /\ SetCurrent(n, v)
      \/ SetCurrent(n, p)
  BY DEF ReportConfig, configVars
<1> HIDE DEF p
<1>7. s = "succeeded" => v \in proven'[n]
  BY <1>1, <1>5 DEF TypeOK
<1>8. ASSUME NEW m \in Nodes
      PROVE  /\ proven[m] \subseteq proven'[m] /\ proven'[m] \subseteq 1..latest[m]
             /\ current'[m] \in {NullBundle} \cup proven'[m]
             /\ lastGood'[m] \in {NullBundle} \cup proven'[m]
             /\ desired'[m] <= latest[m]
             /\ desired'[m] # current'[m] => desired'[m] = latest[m]
  <2>1. proven[m] \subseteq proven'[m] /\ proven'[m] \subseteq 1..latest[m]
    <3>1. proven[m] \subseteq 1..latest[m] /\ (m = n => v \in 1..latest[m])
      BY <1>1, <1>2 DEF Inv, Bookkeeping
    <3>2. proven'[m] = proven[m] \/ (m = n /\ proven'[m] = proven[m] \cup {v})
      BY <1>1, <1>5 DEF TypeOK
    <3> QED
      BY <3>1, <3>2
  <2>2. ASSUME UNCHANGED <<current, desired, lastGood>> \/ m # n,
               current'[m] = current[m], desired'[m] = desired[m], lastGood'[m] = lastGood[m]
        PROVE  /\ current'[m] \in {NullBundle} \cup proven'[m]
               /\ lastGood'[m] \in {NullBundle} \cup proven'[m]
               /\ desired'[m] <= latest[m]
               /\ desired'[m] # current'[m] => desired'[m] = latest[m]
    BY <2>1, <2>2 DEF Inv, Bookkeeping, TrustedRecords, Trusted, OffersOnlyNewest
  <2>3. ASSUME NEW b \in Bundles, b \in {NullBundle} \cup proven'[n], SetCurrent(n, b)
        PROVE  /\ current'[m] \in {NullBundle} \cup proven'[m]
               /\ lastGood'[m] \in {NullBundle} \cup proven'[m]
               /\ desired'[m] <= latest[m]
               /\ desired'[m] # current'[m] => desired'[m] = latest[m]
    <3>1. CASE m # n
      BY <3>1, <2>2, <2>3, <1>1 DEF SetCurrent, TypeOK
    <3>2. CASE m = n
      BY <3>2, <2>1, <2>3, <1>1 DEF SetCurrent, TypeOK
    <3> QED
      BY <3>1, <3>2
  <2>4. CASE UNCHANGED <<current, desired, lastGood>>
    BY <2>1, <2>2, <2>4
  <2>5. CASE s = "succeeded" /\ SetCurrent(n, v)
    BY <2>1, <2>3, <2>5, <1>1, <1>7
  <2>6. CASE SetCurrent(n, p)
    <3>1. p \in Bundles /\ p \in {NullBundle} \cup proven'[n]
      <4>1. proven[n] \subseteq proven'[n] /\ proven[n] \subseteq Versions
        BY <1>1, <1>5, NodeNumbers DEF TypeOK
      <4> QED
        BY <4>1, <1>4 DEF Trusted
    <3> QED
      BY <2>1, <2>3, <2>6, <3>1
  <2> QED
    BY <1>6, <2>1, <2>4, <2>5, <2>6
<1> QED
  BY <1>1, <1>2, <1>3, <1>7, <1>8, StatusInv

\* The agents' steps preserve the invariant.
LEMMA AgentInv == Inv /\ TypeOK' /\ AgentNext => Inv'
<1> SUFFICES ASSUME Inv, TypeOK', NEW n \in Nodes,
                    \/ \E have \in Bundles : NextConfig(n, have)
                    \/ \E v \in HandedOut(n), s \in ReportStatus : ReportConfig(n, v, s)
                    \/ BeginHeartbeat(n) \/ HeartbeatNode(n) \/ RenewNode(n) \/ Silence(n)
             PROVE  Inv'
  BY DEF AgentNext
<1>1. ASSUME NEW have \in Bundles, NextConfig(n, have) PROVE Inv'
  BY <1>1, NextConfigInv
<1>2. ASSUME NEW v \in HandedOut(n), NEW s \in ReportStatus, ReportConfig(n, v, s) PROVE Inv'
  BY <1>2, ReportInv
<1>3. CASE BeginHeartbeat(n) \/ HeartbeatNode(n) \/ RenewNode(n) \/ Silence(n)
  <2>1. UNCHANGED <<latest, rollout, proven, current, desired, lastGood, request, worker>>
    BY <1>3 DEF BeginHeartbeat, HeartbeatNode, RenewNode, Silence, configVars
  <2> QED
    BY <2>1, FrameInv DEF Inv, Bookkeeping
<1> QED
  BY <1>1, <1>2, <1>3

\* The worker's steps preserve the invariant: what a scan selects exists.
LEMMA WorkerInv == Inv /\ TypeOK' /\ WorkerNext => Inv'
<1> SUFFICES ASSUME Inv, TypeOK', WorkerNext PROVE Inv'
  OBVIOUS
<1>1. ASSUME NEW old \in [Nodes -> Bundles], FailStaleScan(old) PROVE Inv'
  <2>1. ASSUME NEW i \in worker'.stale PROVE i[2] <= latest[i[1]]
    <3>1. i \in Nodes \X Versions /\ rollout[i[1]][i[2]].status \in Awaited
      BY <1>1 DEF FailStaleScan, Inv, TypeOK
    <3>2. i[1] \in Nodes /\ i[2] \in Versions /\ latest[i[1]] \in Nat
      BY <3>1, NodeNumbers DEF Inv
    <3> QED
      BY <3>1, <3>2 DEF Inv, Bookkeeping, Awaited
  <2> QED
    BY <1>1, <2>1, FrameInv DEF FailStaleScan, configVars
<1>2. ASSUME NEW n \in Nodes, NEW v \in Versions, FailStaleRollout(n, v) PROVE Inv'
  BY <1>2, FailStaleInv
<1>3. CASE FailStaleError
  BY <1>3, FrameInv DEF FailStaleError, configVars
<1>4. CASE MarkOfflineNodes
  BY <1>4, FrameInv DEF MarkOfflineNodes, configVars, Inv, TypeOK
<1> QED
  BY <1>1, <1>2, <1>3, <1>4 DEF WorkerNext

\* Inv is inductive.
LEMMA NextInv == Inv /\ [Next]_vars => Inv'
<1> SUFFICES ASSUME Inv, [Next]_vars PROVE Inv'
  OBVIOUS
<1>1. TypeOK'
  BY NextTypeOK DEF Inv
<1>2. CASE UNCHANGED vars
  BY <1>1, <1>2, FrameInv DEF vars, configVars, Inv, Bookkeeping
<1> QED
  BY <1>1, <1>2, AdminInv, AgentInv, WorkerInv DEF Next

\* The inductive invariant holds in every reachable state.
THEOREM InvHolds == Spec => []Inv
BY InitInv, NextInv, PTL DEF Spec

\* No unproven bundle is ever recorded as current, as last known good or as
\* a fallback, for any number of nodes, administrators and bundles.
THEOREM OnlyTrustedRecorded == Spec => []TrustedRecords
<1>1. Inv => TrustedRecords
  BY DEF Inv
<1> QED
  BY <1>1, InvHolds, PTL

\* References stay within what exists, and successes are not forgotten.
THEOREM BookkeepingHolds == Spec => []Bookkeeping
<1>1. Inv => Bookkeeping
  BY DEF Inv
<1> QED
  BY <1>1, InvHolds, PTL

\* An unconverged node is only ever offered its newest bundle.
THEOREM NewestOffered == Spec => []OffersOnlyNewest
<1>1. Inv => OffersOnlyNewest
  BY DEF Inv
<1> QED
  BY <1>1, InvHolds, PTL

\* A rollback only distributes contents proven on the node.
THEOREM RollbacksProven == Spec => []RollbackContentProven
<1>1. Inv => RollbackContentProven
  BY DEF Inv
<1> QED
  BY <1>1, InvHolds, PTL

-----------------------------------------------------------------------------
\* Inserting a rollout keeps the others.
LEMMA AddRolloutKeeps ==
  ASSUME TypeOK, NEW n \in Nodes, latest[n] < MaxBundles,
         NEW p \in Bundles, NEW c \in Bundles, AddRollout(n, p, c)
  PROVE  KeepsBundles
<1>1. /\ latest'[n] = latest[n] + 1
      /\ \A m \in Nodes \ {n} : latest'[m] = latest[m] /\ desired'[m] = desired[m]
      /\ \A m \in Nodes, v \in Versions :
           m # n \/ v # latest[n] + 1 => rollout'[m][v] = rollout[m][v]
  BY AddRolloutEffect
<1>2. ASSUME NEW m \in Nodes, NEW v \in 1..latest[m]
      PROVE  v \in Versions /\ (m # n \/ v # latest[n] + 1)
  BY NodeNumbers
<1> QED
  BY <1>1, <1>2 DEF KeepsBundles

\* Changing a status changes neither contents nor fallbacks.
LEMMA StatusKeeps ==
  ASSUME TypeOK, NEW n \in Nodes, NEW v \in Versions,
         NEW s \in {"pending", "awaiting_apply"} \cup ReportStatus,
         SetStatus(n, v, s), UNCHANGED latest
  PROVE  KeepsBundles
<1>1. \A m \in Nodes, w \in Versions :
        /\ rollout'[m][w].previous = rollout[m][w].previous
        /\ rollout'[m][w].content = rollout[m][w].content
  BY StatusEffect
<1>2. \A m \in Nodes : 1..latest[m] \subseteq Versions
  BY NodeNumbers
<1> QED
  BY <1>1, <1>2 DEF KeepsBundles

\* No step of the administrators, the agents or the worker changes a bundle.
LEMMA NextKeepsBundles == Inv /\ [Next]_vars => KeepsBundles
<1> SUFFICES ASSUME Inv, [Next]_vars PROVE KeepsBundles
  OBVIOUS
<1>0. TypeOK
  BY DEF Inv
<1>1. ASSUME UNCHANGED <<latest, rollout>> PROVE KeepsBundles
  BY <1>1 DEF KeepsBundles
<1>2. ASSUME NEW q \in Requests, CreateRollout(q) PROVE KeepsBundles
  <2> DEFINE n == request[q].node
             p == request[q].seen
  <2>1. n \in Nodes /\ p \in Bundles
    BY <1>0, <1>2, RequestKinds DEF CreateRollout, CreateRequest
  <2>2. /\ latest[n] < MaxBundles /\ latest[n] + 1 \in Bundles
        /\ AddRollout(n, p, latest[n] + 1)
    BY <1>0, <1>2, <2>1, NodeNumbers DEF CreateRollout
  <2> HIDE DEF n, p
  <2> QED
    BY <1>0, <2>1, <2>2, AddRolloutKeeps
<1>3. ASSUME NEW q \in Requests, RollbackRollout(q) PROVE KeepsBundles
  <2> DEFINE n == request[q].node
             v == request[q].target
             w == rollout[n][v].previous
             c == rollout[n][w].content
  <2>1. n \in Nodes /\ v \in Versions
    BY <1>0, <1>3, RequestKinds DEF RollbackRollout, RollbackRequest
  <2>2. w \in Bundles /\ w # NullBundle
    BY <1>0, <1>3, <2>1, RowType DEF RollbackRollout, MayRollBack
  <2>3. c \in Bundles /\ v \in Bundles
    <3> HIDE DEF n, v, w
    <3>1. w \in Versions /\ v \in Bundles
      BY <2>1, <2>2
    <3> QED
      BY <1>0, <2>1, <3>1, RowType
  <2>4. latest[n] < MaxBundles /\ AddRollout(n, v, c)
    BY <1>3 DEF RollbackRollout
  <2> HIDE DEF n, v, w, c
  <2> QED
    BY <1>0, <2>1, <2>3, <2>4, AddRolloutKeeps
<1>4. ASSUME NEW n \in Nodes, NEW have \in Bundles, NextConfig(n, have) PROVE KeepsBundles
  <2> DEFINE v == Offer(n, have)
  <2>1. v \in Versions /\ v <= latest[n] /\ latest[n] \in Nat
    BY <1>0, <1>4, NodeNumbers DEF Inv, Bookkeeping, NextConfig, Offer
  <2>2. rollout[n][v].status # "none" /\ rollout[n][v] \in RolloutRow
    BY <1>0, <2>1, RowType DEF Inv, Bookkeeping
  <2> DEFINE s == IF rollout[n][v].status = "pending" THEN "awaiting_apply"
                  ELSE rollout[n][v].status
  <2>3. s \in {"pending", "awaiting_apply"} \cup ReportStatus
    BY <2>2 DEF RolloutRow
  <2>4. SetStatus(n, v, s) /\ UNCHANGED latest
    BY <1>4 DEF NextConfig, SetStatus
  <2> HIDE DEF v, s
  <2> QED
    BY <1>0, <2>1, <2>3, <2>4, StatusKeeps
<1>5. ASSUME NEW n \in Nodes, NEW v \in HandedOut(n), NEW s \in ReportStatus,
             ReportConfig(n, v, s)
      PROVE  KeepsBundles
  <2>1. v \in Versions /\ SetStatus(n, v, s) /\ UNCHANGED latest
    BY <1>5 DEF HandedOut, ReportConfig, SetStatus
  <2> QED
    BY <1>0, <2>1, StatusKeeps
<1>6. ASSUME NEW n \in Nodes, NEW v \in Versions, FailStaleRollout(n, v) PROVE KeepsBundles
  <2> DEFINE s == "failed"
  <2>1. SetStatus(n, v, s) /\ UNCHANGED latest /\ s \in ReportStatus
    BY <1>6 DEF FailStaleRollout, SetStatus, ReportStatus
  <2> HIDE DEF s
  <2> QED
    BY <1>0, <2>1, StatusKeeps
<1>7. CASE AdminNext
  BY <1>1, <1>2, <1>3, <1>7 DEF AdminNext, BeginCreate, BeginRollback, EndRequest
<1>8. CASE AgentNext
  BY <1>1, <1>4, <1>5, <1>8
     DEF AgentNext, BeginHeartbeat, HeartbeatNode, RenewNode, Silence
<1>9. CASE WorkerNext
  BY <1>1, <1>6, <1>9 DEF WorkerNext, FailStaleScan, FailStaleError, MarkOfflineNodes
<1> QED
  BY <1>1, <1>7, <1>8, <1>9 DEF Next, vars

\* Changing the status of a rollout that was handed out, or to one of those that
\* were, takes no bundle back.
LEMMA StatusKeepsHandedOut ==
  ASSUME TypeOK, NEW n \in Nodes, NEW v \in Versions,
         NEW s \in {"pending", "awaiting_apply"} \cup ReportStatus,
         SetStatus(n, v, s), s = "pending" => rollout[n][v].status = "pending"
  PROVE  \A m \in Nodes : HandedOut(m) \subseteq HandedOut(m)'
<1>1. /\ rollout'[n][v].status = s
      /\ \A m \in Nodes, w \in Versions : m # n \/ w # v => rollout'[m][w] = rollout[m][w]
  BY StatusEffect
<1> QED
  BY <1>1 DEF HandedOut, ReportStatus

\* What an agent was given stays given: no step makes a rollout pending again, and a
\* new rollout takes a row of its own.
LEMMA NextKeepsHandedOut ==
  Inv /\ [Next]_vars => \A m \in Nodes : HandedOut(m) \subseteq HandedOut(m)'
<1> SUFFICES ASSUME Inv, [Next]_vars PROVE \A m \in Nodes : HandedOut(m) \subseteq HandedOut(m)'
  OBVIOUS
<1> DEFINE Goal == \A m \in Nodes : HandedOut(m) \subseteq HandedOut(m)'
<1>0. TypeOK
  BY DEF Inv
<1>1. ASSUME UNCHANGED rollout PROVE Goal
  BY <1>1 DEF HandedOut
<1>2. ASSUME NEW n \in Nodes, NEW p \in Bundles, NEW c \in Bundles, latest[n] < MaxBundles,
             AddRollout(n, p, c)
      PROVE  Goal
  <2>1. /\ latest[n] + 1 \in Versions
        /\ \A m \in Nodes, v \in Versions :
             m # n \/ v # latest[n] + 1 => rollout'[m][v] = rollout[m][v]
    BY <1>0, <1>2, AddRolloutEffect
  <2>2. rollout[n][latest[n] + 1].status = "none"
    BY <1>0, <2>1, NodeNumbers DEF Inv, Bookkeeping
  <2> QED
    BY <2>1, <2>2 DEF HandedOut
<1>3. ASSUME NEW q \in Requests, CreateRollout(q) PROVE Goal
  <2> DEFINE n == request[q].node
             p == request[q].seen
  <2>1. n \in Nodes /\ p \in Bundles
    BY <1>0, <1>3, RequestKinds DEF CreateRollout, CreateRequest
  <2>2. /\ latest[n] < MaxBundles /\ latest[n] + 1 \in Bundles
        /\ AddRollout(n, p, latest[n] + 1)
    BY <1>0, <1>3, <2>1, NodeNumbers DEF CreateRollout
  <2> HIDE DEF n, p
  <2> QED
    BY <1>2, <2>1, <2>2
<1>4. ASSUME NEW q \in Requests, RollbackRollout(q) PROVE Goal
  <2> DEFINE n == request[q].node
             v == request[q].target
             w == rollout[n][v].previous
             c == rollout[n][w].content
  <2>1. n \in Nodes /\ v \in Versions
    BY <1>0, <1>4, RequestKinds DEF RollbackRollout, RollbackRequest
  <2>2. w \in Bundles /\ w # NullBundle
    BY <1>0, <1>4, <2>1, RowType DEF RollbackRollout, MayRollBack
  <2>3. c \in Bundles /\ v \in Bundles
    <3> HIDE DEF n, v, w
    <3>1. w \in Versions /\ v \in Bundles
      BY <2>1, <2>2
    <3> QED
      BY <1>0, <2>1, <3>1, RowType
  <2>4. latest[n] < MaxBundles /\ AddRollout(n, v, c)
    BY <1>4 DEF RollbackRollout
  <2> HIDE DEF n, v, w, c
  <2> QED
    BY <1>2, <2>1, <2>3, <2>4
<1>5. ASSUME NEW n \in Nodes, NEW have \in Bundles, NextConfig(n, have) PROVE Goal
  <2> DEFINE v == Offer(n, have)
             s == IF rollout[n][v].status = "pending" THEN "awaiting_apply"
                  ELSE rollout[n][v].status
  <2>1. v \in Versions /\ v <= latest[n] /\ latest[n] \in Nat
    BY <1>0, <1>5, NodeNumbers DEF Inv, Bookkeeping, NextConfig, Offer
  <2>2. rollout[n][v].status # "none" /\ rollout[n][v] \in RolloutRow
    BY <1>0, <2>1, RowType DEF Inv, Bookkeeping
  <2>3. s \in {"pending", "awaiting_apply"} \cup ReportStatus /\ s # "pending"
    BY <2>2 DEF RolloutRow, ReportStatus
  <2>4. SetStatus(n, v, s)
    BY <1>5 DEF NextConfig, SetStatus
  <2> HIDE DEF v, s
  <2> QED
    BY <1>0, <2>1, <2>3, <2>4, StatusKeepsHandedOut
<1>6. ASSUME NEW n \in Nodes, NEW v \in HandedOut(n), NEW s \in ReportStatus,
             ReportConfig(n, v, s)
      PROVE  Goal
  <2>1. v \in Versions /\ SetStatus(n, v, s) /\ s # "pending"
    BY <1>6 DEF HandedOut, ReportConfig, SetStatus, ReportStatus
  <2> QED
    BY <1>0, <2>1, StatusKeepsHandedOut
<1>7. ASSUME NEW n \in Nodes, NEW v \in Versions, FailStaleRollout(n, v) PROVE Goal
  <2> DEFINE s == "failed"
  <2>1. SetStatus(n, v, s) /\ s \in ReportStatus /\ s # "pending"
    BY <1>7 DEF FailStaleRollout, SetStatus, ReportStatus
  <2> HIDE DEF s
  <2> QED
    BY <1>0, <2>1, StatusKeepsHandedOut
<1>8. CASE AdminNext
  BY <1>1, <1>3, <1>4, <1>8 DEF AdminNext, BeginCreate, BeginRollback, EndRequest
<1>9. CASE AgentNext
  BY <1>1, <1>5, <1>6, <1>9
     DEF AgentNext, BeginHeartbeat, HeartbeatNode, RenewNode, Silence
<1>10. CASE WorkerNext
  BY <1>1, <1>7, <1>10 DEF WorkerNext, FailStaleScan, FailStaleError, MarkOfflineNodes
<1> QED
  BY <1>1, <1>8, <1>9, <1>10 DEF Next, vars

\* Bundles are never changed nor their versions reused, for any constants.
THEOREM BundlesNeverChange == Spec => BundlesImmutable
<1>1. Inv /\ [Next]_vars => [KeepsBundles]_vars
  BY NextKeepsBundles
<1> QED
  BY <1>1, InvHolds, PTL DEF Spec, BundlesImmutable
=============================================================================
