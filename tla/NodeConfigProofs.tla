-------------------------- MODULE NodeConfigProofs --------------------------
(***************************************************************************)
(* The rollout store implements NodeConfig, for any number of nodes,       *)
(* concurrent requests and bundles: each of its steps publishes, activates,*)
(* reverts or abandons one bundle of one node, or changes nothing that     *)
(* NodeConfig speaks of.  The step argument needs the inductive invariant  *)
(* of RolloutsProofs: without it a rollback could copy, and a report could *)
(* fall back on, a bundle that was never proven.                           *)
(***************************************************************************)
EXTENDS RolloutsProofs, SequenceTheorems

USE RolloutsAssumption DEF Bundles, Versions, NullBundle

BundleRow == [content : Bundles, fallback : Bundles]

\* The published bundles of all nodes.
Publications == [n \in Nodes |-> Published(n)]

\* A function on 1..k is a sequence of length k.
LEMMA RowsAreSequence ==
  ASSUME NEW S, NEW k \in Nat, NEW s \in [1..k -> S]
  PROVE  s \in Seq(S) /\ Len(s) = k
<1>1. s \in Seq(S)
  BY SeqDef
<1>2. Len(s) \in Nat /\ 1..Len(s) = 1..k
  BY <1>1, LenProperties
<1>3. Len(s) = k
  <2>1. \A i \in Nat : i \in 1..Len(s) <=> i \in 1..k
    BY <1>2
  <2>2. Len(s) > k => Len(s) \in 1..k
    BY <1>2, <2>1
  <2>3. k > Len(s) => k \in 1..Len(s)
    BY <1>2, <2>1
  <2> QED
    BY <1>2, <2>2, <2>3
<1> QED
  BY <1>1, <1>3

\* What is published of a node, one row per version.
LEMMA PublishedRows ==
  ASSUME TypeOK, NEW n \in Nodes
  PROVE  /\ Published(n) \in [1..latest[n] -> BundleRow]
         /\ Published(n) \in Seq(BundleRow) /\ Len(Published(n)) = latest[n]
         /\ \A v \in 1..latest[n] :
              Published(n)[v] = [content |-> rollout[n][v].content,
                                 fallback |-> rollout[n][v].previous]
<1>1. latest[n] \in Nat /\ 1..latest[n] \subseteq Versions
  BY NodeNumbers
<1>2. \A v \in 1..latest[n] : rollout[n][v].content \in Bundles /\ rollout[n][v].previous \in Bundles
  BY <1>1, RowType
<1>3. Published(n) \in [1..latest[n] -> BundleRow]
  BY <1>2 DEF Published, BundleRow
<1> QED
  BY <1>1, <1>3, RowsAreSequence DEF Published

\* A step that keeps the bundles of a node keeps what is published of it.
LEMMA PublishedKept ==
  ASSUME NEW n \in Nodes, latest'[n] = latest[n],
         \A v \in 1..latest[n] : /\ rollout'[n][v].content = rollout[n][v].content
                                 /\ rollout'[n][v].previous = rollout[n][v].previous
  PROVE  Published(n)' = Published(n)
BY DEF Published

\* A step that keeps all bundles keeps all that is published.
LEMMA PublicationsKept ==
  ASSUME UNCHANGED latest, KeepsBundles
  PROVE  UNCHANGED Publications
<1>1. \A n \in Nodes : Published(n)' = Published(n)
  BY PublishedKept DEF KeepsBundles
<1> QED
  BY <1>1 DEF Publications

\* AddRollout appends one row to what is published of its node.
LEMMA PublishedAppended ==
  ASSUME TypeOK, TypeOK', NEW n \in Nodes, latest[n] < MaxBundles,
         NEW p \in Bundles, NEW c \in Bundles, AddRollout(n, p, c)
  PROVE  Publications' = [Publications EXCEPT ![n] = Append(@, [content |-> c, fallback |-> p])]
<1> DEFINE row == [content |-> c, fallback |-> p]
           k == latest[n]
<1>1. /\ latest'[n] = k + 1
      /\ \A m \in Nodes \ {n} : latest'[m] = latest[m]
      /\ rollout'[n][k + 1] = [status |-> "pending", previous |-> p, content |-> c]
      /\ \A m \in Nodes, v \in Versions : m # n \/ v # k + 1 => rollout'[m][v] = rollout[m][v]
  BY AddRolloutEffect
<1>2. k \in Nat /\ k + 1 \in Nat /\ \A m \in Nodes : 1..latest[m] \subseteq Versions
  BY NodeNumbers
<1>3. row \in BundleRow
  BY DEF BundleRow
<1>4. ASSUME NEW m \in Nodes, m # n PROVE Published(m)' = Published(m)
  BY <1>1, <1>2, <1>4, PublishedKept
<1>5. Published(n)' = Append(Published(n), row)
  <2>1. /\ Published(n) \in Seq(BundleRow) /\ Len(Published(n)) = k
        /\ \A v \in 1..k : Published(n)[v] = [content |-> rollout[n][v].content,
                                              fallback |-> rollout[n][v].previous]
    BY PublishedRows
  <2> DEFINE old == Published(n)
             new == Published(n)'
  <2>2. \A v \in 1..k : v \in Versions /\ v # k + 1 /\ v \in 1..(k + 1)
    BY <1>2
  <2>3. new = [v \in 1..(k + 1) |-> [content |-> rollout'[n][v].content,
                                    fallback |-> rollout'[n][v].previous]]
    BY <1>1 DEF Published
  <2>4. new[k + 1] = row /\ \A v \in 1..k : new[v] = old[v]
    <3>1. k + 1 \in 1..(k + 1)
      BY <1>2
    <3>2. \A v \in 1..(k + 1) : new[v] = [content |-> rollout'[n][v].content,
                                         fallback |-> rollout'[n][v].previous]
      BY <2>3
    <3> HIDE DEF new, old, k
    <3>3. new[k + 1] = row
      BY <1>1, <3>1, <3>2
    <3>4. ASSUME NEW v \in 1..k PROVE new[v] = old[v]
      <4>1. rollout'[n][v] = rollout[n][v]
        BY <1>1, <2>2
      <4> QED
        BY <2>1, <2>2, <3>2, <4>1 DEF old
    <3> QED
      BY <3>3, <3>4
  <2>5. \A v \in 1..k : old[v] \in BundleRow
    BY <2>1, ElementOfSeq
  <2>6. new \in [1..(k + 1) -> BundleRow]
    <3>1. \A v \in 1..(k + 1) : v \in 1..k \/ v = k + 1
      BY <1>2
    <3>2. \A v \in 1..(k + 1) : new[v] \in BundleRow
      BY <1>3, <2>4, <2>5, <3>1
    <3> QED
      BY <2>3, <3>2
  <2>7. new \in Seq(BundleRow) /\ Len(new) = k + 1
    <3> HIDE DEF new
    <3> QED
      BY <1>2, <2>6, RowsAreSequence
  <2> HIDE DEF old, new, row
  <2>8. /\ Append(old, row) \in Seq(BundleRow) /\ Len(Append(old, row)) = k + 1
        /\ \A v \in 1..k : Append(old, row)[v] = old[v]
        /\ Append(old, row)[k + 1] = row
    BY <1>3, <2>1, AppendProperties DEF old
  <2>9. \A v \in 1..Len(new) : new[v] = Append(old, row)[v]
    BY <1>2, <2>4, <2>7, <2>8
  <2>10. new = Append(old, row)
    BY <2>7, <2>8, <2>9, SeqEqual
  <2> QED
    BY <2>10 DEF old, new
<1> HIDE DEF row
<1>6. \A m \in Nodes : Published(m)' = IF m = n THEN Append(Published(n), row) ELSE Published(m)
  BY <1>4, <1>5
<1>7. Publications' = [Publications EXCEPT ![n] = Append(@, row)]
  BY <1>6 DEF Publications
<1> QED
  BY <1>7 DEF row

\* A new rollout whose fallback is trusted, and whose content is new or that of a
\* proven bundle, publishes.
LEMMA AddRolloutPublishes ==
  ASSUME TypeOK, TypeOK', NEW n \in Nodes, latest[n] < MaxBundles,
         NEW p \in Trusted(n), NEW c \in Bundles, AddRollout(n, p, c),
         \/ c = latest[n] + 1
         \/ \E w \in proven[n] : w <= latest[n] /\ rollout[n][w].content = c,
         UNCHANGED <<proven, current>>
  PROVE  Abstract!Publish(n)
<1>1. p \in Bundles /\ p \in {0} \cup proven[n]
  BY NodeNumbers DEF Trusted
<1>2. Publications' = [Publications EXCEPT ![n] = Append(@, [content |-> c, fallback |-> p])]
  BY <1>1, PublishedAppended
<1>3. Publications[n] = Published(n) /\ Len(Published(n)) = latest[n]
  BY PublishedRows DEF Publications
<1>4. desired' = [desired EXCEPT ![n] = latest[n] + 1]
  BY DEF AddRollout
<1>5. c \in {latest[n] + 1} \cup {Published(n)[w].content : w \in proven[n]}
  <2>1. ASSUME NEW w \in proven[n], w <= latest[n]
        PROVE  Published(n)[w].content = rollout[n][w].content
    <3>1. w \in 1..latest[n]
      BY <2>1, NodeNumbers
    <3>2. Published(n)[w] = [content |-> rollout[n][w].content,
                             fallback |-> rollout[n][w].previous]
      BY <3>1, PublishedRows
    <3> QED
      BY <3>2
  <2> QED
    BY <2>1
<1> QED
  BY <1>1, <1>2, <1>3, <1>4, <1>5 DEF Abstract!Publish, Publications

\* A creation publishes.
LEMMA CreatePublishes ==
  ASSUME Inv, TypeOK', NEW q \in Requests, CreateRollout(q)
  PROVE  \E n \in Nodes : Abstract!Publish(n)
<1> DEFINE n == request[q].node
           p == request[q].seen
<1>1. TypeOK
  BY DEF Inv
<1>2. n \in Nodes /\ request[q] # Idle
  BY <1>1, RequestKinds DEF CreateRollout, CreateRequest, Idle
<1>3. p \in Trusted(n)
  BY <1>2 DEF Inv, Bookkeeping
<1>4. latest[n] < MaxBundles /\ latest[n] + 1 \in Bundles
  BY <1>1, <1>2, NodeNumbers DEF CreateRollout
<1>5. AddRollout(n, p, latest[n] + 1) /\ UNCHANGED <<proven, current>>
  BY DEF CreateRollout
<1> HIDE DEF n, p
<1>6. Abstract!Publish(n)
  BY <1>1, <1>2, <1>3, <1>4, <1>5, AddRolloutPublishes
<1> QED
  BY <1>2, <1>6

\* A rollback publishes the content of a proven bundle, with a proven fallback.
LEMMA RollbackPublishes ==
  ASSUME Inv, TypeOK', NEW q \in Requests, RollbackRollout(q)
  PROVE  \E n \in Nodes : Abstract!Publish(n)
<1> DEFINE n == request[q].node
           v == request[q].target
           w == rollout[n][v].previous
           c == rollout[n][w].content
<1>1. TypeOK
  BY DEF Inv
<1>2. n \in Nodes /\ v \in Versions
  BY <1>1, RequestKinds DEF RollbackRollout, RollbackRequest
<1>3. v \in proven[n] /\ v \in Trusted(n)
  BY <1>2 DEF Inv, Bookkeeping, RollbackRollout, MayRollBack, Trusted
<1>4. w \in proven[n]
  <2>1. v \in 1..latest[n]
    BY <1>2, <1>3 DEF Inv, Bookkeeping
  <2>2. w # NullBundle
    BY DEF RollbackRollout, MayRollBack
  <2> QED
    BY <1>2, <2>1, <2>2 DEF Inv, TrustedRecords, Trusted
<1>5. c \in Bundles /\ w <= latest[n]
  <2>1. w \in Versions /\ w \in 1..latest[n]
    BY <1>1, <1>2, <1>4, NodeNumbers DEF Inv, Bookkeeping
  <2> HIDE DEF n, v, w
  <2> QED
    BY <1>1, <1>2, <2>1, NodeNumbers, RowType
<1>6. /\ latest[n] < MaxBundles
      /\ AddRollout(n, v, c)
      /\ UNCHANGED <<proven, current>>
  BY DEF RollbackRollout
<1>7. \E u \in proven[n] : u <= latest[n] /\ rollout[n][u].content = c
  BY <1>4, <1>5
<1> HIDE DEF n, v, w, c
<1>8. Abstract!Publish(n)
  BY <1>1, <1>2, <1>3, <1>5, <1>6, <1>7, AddRolloutPublishes
<1> QED
  BY <1>2, <1>8

\* A report activates its bundle, reverts to its fallback, or changes no more
\* than a status.
LEMMA ReportActivates ==
  ASSUME Inv, NEW n \in Nodes, NEW v \in HandedOut(n), NEW s \in ReportStatus,
         ReportConfig(n, v, s), UNCHANGED Publications
  PROVE  \/ Abstract!Activate(n) \/ Abstract!Revert(n)
         \/ UNCHANGED <<Publications, proven, current, desired>>
<1>1. TypeOK /\ v \in Versions /\ latest[n] \in Nat
  BY NodeNumbers DEF Inv, HandedOut
<1>2. v \in 1..latest[n]
  BY <1>1 DEF Inv, Bookkeeping, HandedOut
<1>3. /\ Publications[n] = Published(n) /\ Len(Published(n)) = latest[n]
      /\ Published(n)[v].fallback = rollout[n][v].previous
  <2>1. Published(n)[v] = [content |-> rollout[n][v].content,
                           fallback |-> rollout[n][v].previous]
    BY <1>1, <1>2, PublishedRows
  <2>2. Publications[n] = Published(n) /\ Len(Published(n)) = latest[n]
    BY <1>1, PublishedRows DEF Publications
  <2> QED
    BY <2>1, <2>2
<1>4. CASE s = "succeeded"
  <2>1. /\ proven' = [proven EXCEPT ![n] = @ \cup {v}]
        /\ current' = [current EXCEPT ![n] = v]
        /\ desired' = [desired EXCEPT ![n] = v]
    BY <1>4 DEF ReportConfig, SetCurrent
  <2>2. Abstract!Activate(n)
    BY <1>2, <1>3, <2>1 DEF Abstract!Activate, Abstract!Run, Publications
  <2> QED
    BY <2>2
<1>5. CASE s = "rolled_back"
  <2>1. /\ UNCHANGED proven
        /\ current' = [current EXCEPT ![n] = rollout[n][v].previous]
        /\ desired' = [desired EXCEPT ![n] = rollout[n][v].previous]
    BY <1>5 DEF ReportConfig, SetCurrent
  <2>2. Abstract!Revert(n)
    BY <1>2, <1>3, <2>1 DEF Abstract!Revert, Abstract!Run, Publications
  <2> QED
    BY <2>2
<1>6. CASE s \in {"in_progress", "failed"}
  BY <1>6 DEF ReportConfig, configVars
<1> QED
  BY <1>4, <1>5, <1>6 DEF ReportStatus

\* A timeout abandons the target of its node.
LEMMA TimeoutAbandons ==
  ASSUME NEW n \in Nodes, NEW v \in Versions, FailStaleRollout(n, v), UNCHANGED Publications
  PROVE  Abstract!Abandon(n)
BY DEF FailStaleRollout, Abstract!Abandon, Publications

\* Every step of the store is a step of NodeConfig or changes nothing of it.
LEMMA NextImplements == Inv /\ TypeOK' /\ [Next]_vars => [Abstract!Next]_(Abstract!vars)
<1> SUFFICES ASSUME Inv, TypeOK', [Next]_vars
             PROVE  Abstract!Next \/ UNCHANGED <<Publications, proven, current, desired>>
  BY DEF Abstract!vars, Publications
<1>1. ASSUME UNCHANGED latest PROVE UNCHANGED Publications
  BY <1>1, NextKeepsBundles, PublicationsKept
<1>2. ASSUME NEW n \in Nodes,
             \/ Abstract!Publish(n) \/ Abstract!Activate(n)
             \/ Abstract!Revert(n) \/ Abstract!Abandon(n)
      PROVE  Abstract!Next
  BY <1>2 DEF Abstract!Next
<1>3. CASE AdminNext
  <2>1. ASSUME NEW q \in Requests, CreateRollout(q) \/ RollbackRollout(q)
        PROVE  Abstract!Next
    BY <1>2, <2>1, CreatePublishes, RollbackPublishes
  <2>2. ASSUME NEW q \in Requests,
               \/ \E n \in Nodes : BeginCreate(q, n) \/ \E v \in Versions : BeginRollback(q, n, v)
               \/ EndRequest(q)
        PROVE  UNCHANGED <<Publications, proven, current, desired>>
    BY <1>1, <2>2 DEF BeginCreate, BeginRollback, EndRequest, configVars
  <2> QED
    BY <1>3, <2>1, <2>2 DEF AdminNext
<1>4. CASE AgentNext
  <2>1. UNCHANGED Publications
    BY <1>1, <1>4 DEF AgentNext, NextConfig, ReportConfig, BeginHeartbeat, HeartbeatNode,
                      RenewNode, Silence
  <2>2. ASSUME NEW n \in Nodes, NEW v \in HandedOut(n), NEW s \in ReportStatus,
               ReportConfig(n, v, s)
        PROVE  Abstract!Next \/ UNCHANGED <<Publications, proven, current, desired>>
    BY <1>2, <2>1, <2>2, ReportActivates
  <2>3. ASSUME NEW n \in Nodes,
               \/ \E have \in Bundles : NextConfig(n, have)
               \/ BeginHeartbeat(n) \/ HeartbeatNode(n) \/ RenewNode(n) \/ Silence(n)
        PROVE  UNCHANGED <<Publications, proven, current, desired>>
    BY <2>1, <2>3 DEF NextConfig, BeginHeartbeat, HeartbeatNode, RenewNode, Silence, configVars
  <2> QED
    BY <1>4, <2>2, <2>3 DEF AgentNext
<1>5. CASE WorkerNext
  <2>1. UNCHANGED Publications
    BY <1>1, <1>5 DEF WorkerNext, FailStaleScan, FailStaleRollout, FailStaleError, MarkOfflineNodes
  <2>2. ASSUME NEW n \in Nodes, NEW v \in Versions, FailStaleRollout(n, v)
        PROVE  Abstract!Next
    BY <1>2, <2>1, <2>2, TimeoutAbandons
  <2>3. ASSUME \/ \E old \in [Nodes -> Bundles] : FailStaleScan(old)
               \/ FailStaleError \/ MarkOfflineNodes
        PROVE  UNCHANGED <<Publications, proven, current, desired>>
    BY <2>1, <2>3 DEF FailStaleScan, FailStaleError, MarkOfflineNodes, configVars
  <2> QED
    BY <1>5, <2>2, <2>3 DEF WorkerNext
<1>6. CASE UNCHANGED vars
  BY <1>1, <1>6 DEF vars, configVars
<1> QED
  BY <1>3, <1>4, <1>5, <1>6 DEF Next

\* The initial states map to the initial state of NodeConfig.
LEMMA InitImplements == Init => Abstract!Init
<1> SUFFICES ASSUME Init PROVE Abstract!Init
  OBVIOUS
<1>1. ASSUME NEW n \in Nodes PROVE Published(n) = <<>>
  <2>1. TypeOK /\ latest[n] = 0
    BY InitTypeOK DEF Init
  <2>2. Published(n) \in Seq(BundleRow) /\ Len(Published(n)) = 0
    BY <2>1, PublishedRows
  <2> QED
    BY <2>2, EmptySeq
<1> QED
  BY <1>1 DEF Init, Abstract!Init

\* Rollouts implements NodeConfig, for any constants.
THEOREM StoreImplementsNodeConfig == Spec => ImplementsNodeConfig
<1>1. Inv /\ Inv' /\ [Next]_vars => [Abstract!Next]_(Abstract!vars)
  BY NextImplements DEF Inv
<1> QED
  BY <1>1, InitImplements, InvHolds, PTL DEF Spec, ImplementsNodeConfig, Abstract!Spec
=============================================================================
