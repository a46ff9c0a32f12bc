----------------------------- MODULE LocksProofs -----------------------------
(***************************************************************************)
(* The row locks for any number of connections and nodes: mutual exclusion,*)
(* and who can be in a cycle of waits.  The argument about cycles is one of*)
(* closed sets: what a connection reaches is the least set closed under    *)
(* waits, so a closed set without it shows that it is in no cycle.         *)
(***************************************************************************)
EXTENDS Locks, FiniteSetTheorems, TLAPS

\* A sweep is a sequence of different nodes, and so are the rows it locks.
LEMMA SweepLocks ==
  ASSUME NEW sweep \in Sweeps
  PROVE  LET locks == MarkOfflineNodes(sweep) IN
         /\ Len(locks) \in Nat
         /\ \A i \in 1..Len(locks) : sweep[i] \in Nodes /\ locks[i] = Lock(Node(sweep[i]), "nokey")
         /\ \A i, j \in 1..Len(locks) : sweep[i] = sweep[j] => i = j
<1>1. Cardinality(Nodes) \in Nat BY LocksAssumption, FS_CardinalityType
<1>2. PICK k \in 1..Cardinality(Nodes) : sweep \in [1..k -> Nodes] BY DEF Sweeps
<1>3. k \in Nat /\ DOMAIN sweep = 1..k BY <1>1, <1>2
<1> DEFINE locks == [i \in 1..k |-> Lock(Node(sweep[i]), "nokey")]
<1>4. locks = MarkOfflineNodes(sweep) BY <1>3 DEF MarkOfflineNodes
<1>5. Len(locks) = k BY <1>3
<1>6. \A i \in 1..k : locks[i] = Lock(Node(sweep[i]), "nokey") OBVIOUS
<1>7. \A i, j \in 1..k : sweep[i] = sweep[j] => i = j BY <1>3 DEF Sweeps
<1> HIDE DEF locks
<1> QED BY <1>2, <1>3, <1>4, <1>5, <1>6, <1>7

\* Every transaction takes its locks in a sequence.
LEMMA TransactionLocks ==
  ASSUME NEW t \in Transactions \cup {NoTransaction}
  PROVE  Len(t.locks) \in Nat
<1> USE DEF Lock
<1>1. ASSUME NEW n \in Nodes
      PROVE  Len(CreateRollout(n)) \in Nat /\ Len(UpdateNode(n)) \in Nat
             /\ Len(SaveNodeCapabilities(n)) \in Nat
  BY DEF CreateRollout, UpdateNode, SaveNodeCapabilities
<1>2. ASSUME NEW n \in Nodes, NEW g \in Generations
      PROVE  /\ Len(RollbackRollout(n, g)) \in Nat /\ Len(NextConfig(n, g)) \in Nat
             /\ Len(FailStaleRollout(n, g)) \in Nat
  BY DEF RollbackRollout, NextConfig, FailStaleRollout
<1>3. ASSUME NEW n \in Nodes, NEW g \in Generations, NEW s
      PROVE  Len(ReportConfig(n, g, s)) \in Nat
  BY DEF ReportConfig
<1>4. ASSUME NEW sweep \in Sweeps
      PROVE  Len(MarkOfflineNodes(sweep)) \in Nat
  BY SweepLocks
<1>5. /\ Len(RotateRefreshToken) \in Nat /\ Len(SaveRefreshToken) \in Nat
      /\ Len(RevokeSession) \in Nat /\ Len(CreateSession) \in Nat
      /\ Len(CreateAccount) \in Nat /\ Len(FeedDelivery) \in Nat
  BY DEF RotateRefreshToken, SaveRefreshToken, RevokeSession, CreateSession, CreateAccount,
         FeedDelivery
<1>6. CASE t \in RolloutTransactions
  BY <1>1, <1>2, <1>3, <1>6 DEF RolloutTransactions, Admin, Agent, Worker, Generations
<1>7. CASE t \in OtherTransactions
  BY <1>1, <1>4, <1>5, <1>7 DEF OtherTransactions, Other, Sweep
<1>8. CASE t = NoTransaction
  BY <1>8 DEF NoTransaction, Other
<1> QED
  BY <1>6, <1>7, <1>8 DEF Transactions

\* The two parts of TypeOK: connections hold locks of their own transaction, and no
\* two of them locks that conflict.
Placed ==
  /\ tx \in [Procs -> Transactions \cup {NoTransaction}]
  /\ \A p \in Procs : held[p] \in 0..Len(tx[p].locks)

Exclusive == \A p, q \in Procs : p # q => \A a \in HeldBy(p), b \in HeldBy(q) : ~Conflict(a, b)

\* held is a function; what TypeOK says of its values is not enough for EXCEPT.
Inv == TypeOK /\ held \in [Procs -> Nat]

\* The two parts of TypeOK.
LEMMA TypeOKParts == TypeOK <=> Placed /\ Exclusive
BY DEF TypeOK, Placed, Exclusive

\* A connection without a transaction has no locks.
LEMMA NothingHeld ==
  /\ Len(NoTransaction.locks) = 0
  /\ \A p \in Procs : tx[p] = NoTransaction /\ held[p] \in 0..Len(tx[p].locks) => held[p] = 0
  /\ \A p \in Procs : held[p] = 0 => HeldBy(p) = {}
BY DEF NoTransaction, Other, HeldBy

\* A conflict is one of both sides.
LEMMA ConflictSymmetric == \A a, b : Conflict(a, b) <=> Conflict(b, a)
BY DEF Conflict

\* At first nobody holds anything.
LEMMA InitInv == Init => Inv
BY NothingHeld DEF Init, Inv, TypeOK

\* A step that leaves each connection what it holds, or takes everything from it,
\* keeps the locks exclusive.
LEMMA FewerHeld ==
  ASSUME Exclusive, \A p \in Procs : HeldBy(p)' \subseteq HeldBy(p)
  PROVE  Exclusive'
BY DEF Exclusive

\* A new transaction has no locks yet.
LEMMA BeginInv ==
  ASSUME Inv, NEW p \in Procs, Begin(p)
  PROVE  Inv'
<1>1. PICK t \in Transactions : tx' = [tx EXCEPT ![p] = t]
  BY DEF Begin
<1>2. tx[p] = NoTransaction /\ held' = held
  BY DEF Begin, Idle
<1>3. held[p] = 0
  BY <1>2, NothingHeld DEF Inv, TypeOK
<1>4. Placed /\ Exclusive /\ Len(t.locks) \in Nat
  BY TypeOKParts, TransactionLocks DEF Inv
<1>5. Placed'
  BY <1>1, <1>2, <1>3, <1>4 DEF Placed
<1>6. ASSUME NEW q \in Procs PROVE HeldBy(q)' \subseteq HeldBy(q)
  <2>1. CASE q = p
    BY <1>2, <1>3, <2>1 DEF HeldBy
  <2>2. CASE q # p
    BY <1>1, <1>2, <2>2, <1>4 DEF HeldBy, Placed
  <2> QED
    BY <2>1, <2>2
<1>7. Exclusive'
  BY <1>4, <1>6, FewerHeld
<1>8. Placed' /\ Exclusive' => TypeOK'
  BY DEF TypeOK, Placed, Exclusive
<1> QED
  BY <1>2, <1>5, <1>7, <1>8 DEF Inv

\* A lock is granted only if no other connection holds one it conflicts with.
LEMMA AcquireInv ==
  ASSUME Inv, NEW p \in Procs, Acquire(p)
  PROVE  Inv'
<1>1. Placed /\ Exclusive /\ held \in [Procs -> Nat]
  BY TypeOKParts DEF Inv
<1>2. /\ held[p] < Len(tx[p].locks) /\ tx' = tx
      /\ held' = [held EXCEPT ![p] = @ + 1]
      /\ \A q \in Procs : ~WaitsFor(p, q)
  BY DEF Acquire
<1>3. Len(tx[p].locks) \in Nat
  BY <1>1, TransactionLocks DEF Placed
<1>4. held'[p] = held[p] + 1 /\ \A q \in Procs \ {p} : held'[q] = held[q]
  BY <1>1, <1>2
<1>5. Placed'
  BY <1>1, <1>2, <1>3, <1>4 DEF Placed
<1>6. \A q \in Procs \ {p} : HeldBy(q)' = HeldBy(q)
  BY <1>2, <1>4 DEF HeldBy
<1>7. HeldBy(p)' \subseteq HeldBy(p) \cup {Wanted(p)}
  <2>1. \A i \in 1..(held[p] + 1) : i \in 1..held[p] \/ i = held[p] + 1
    BY <1>1
  <2> QED
    BY <1>2, <1>4, <2>1 DEF HeldBy, Wanted
<1>8. \A q \in Procs \ {p} : \A b \in HeldBy(q) : ~Conflict(Wanted(p), b)
  BY <1>2 DEF WaitsFor
<1>9. Exclusive'
  <2> SUFFICES ASSUME NEW q \in Procs, NEW r \in Procs, q # r,
                      NEW a \in HeldBy(q)', NEW b \in HeldBy(r)'
               PROVE  ~Conflict(a, b)
    BY DEF Exclusive, Conflict
  <2>1. CASE q = p
    <3>1. b \in HeldBy(r) /\ (a \in HeldBy(p) \/ a = Wanted(p))
      BY <1>6, <1>7, <2>1
    <3> QED
      BY <1>1, <1>8, <2>1, <3>1 DEF Exclusive
  <2>2. CASE r = p
    <3>1. a \in HeldBy(q) /\ (b \in HeldBy(p) \/ b = Wanted(p))
      BY <1>6, <1>7, <2>2
    <3> QED
      BY <1>1, <1>8, <2>2, <3>1, ConflictSymmetric DEF Exclusive
  <2>3. CASE q # p /\ r # p
    BY <1>1, <1>6, <2>3 DEF Exclusive
  <2> QED
    BY <2>1, <2>2, <2>3
<1>10. held' \in [Procs -> Nat]
  BY <1>1, <1>2
<1>11. Placed' /\ Exclusive' => TypeOK'
  BY DEF TypeOK, Placed, Exclusive
<1> QED
  BY <1>5, <1>9, <1>10, <1>11 DEF Inv

\* The end of a transaction releases all its locks.
LEMMA ReleaseInv ==
  ASSUME Inv, NEW p \in Procs, Release(p)
  PROVE  Inv'
<1>1. Placed /\ Exclusive /\ held \in [Procs -> Nat]
  BY TypeOKParts DEF Inv
<1>2. tx' = [tx EXCEPT ![p] = NoTransaction] /\ held' = [held EXCEPT ![p] = 0]
  BY DEF Release
<1>3. held' \in [Procs -> Nat] /\ held'[p] = 0 /\ tx'[p] = NoTransaction
  BY <1>1, <1>2 DEF Placed
<1>4. \A q \in Procs \ {p} : held'[q] = held[q] /\ tx'[q] = tx[q]
  BY <1>1, <1>2 DEF Placed
<1>5. Placed'
  BY <1>1, <1>2, <1>3, <1>4, NothingHeld DEF Placed
<1>6. ASSUME NEW q \in Procs PROVE HeldBy(q)' \subseteq HeldBy(q)
  BY <1>3, <1>4 DEF HeldBy
<1>7. Exclusive'
  BY <1>1, <1>6, FewerHeld
<1>8. Placed' /\ Exclusive' => TypeOK'
  BY DEF TypeOK, Placed, Exclusive
<1> QED
  BY <1>3, <1>5, <1>7, <1>8 DEF Inv

\* The inductive step.
LEMMA NextInv == Inv /\ [Next]_vars => Inv'
<1> SUFFICES ASSUME Inv, [Next]_vars PROVE Inv'
  OBVIOUS
<1>1. ASSUME NEW p \in Procs, Begin(p) \/ Acquire(p) \/ Commit(p) \/ Abort(p)
      PROVE  Inv'
  BY <1>1, BeginInv, AcquireInv, ReleaseInv DEF Commit, Abort
<1>2. CASE UNCHANGED vars
  BY <1>2 DEF vars, Inv, TypeOK, HeldBy
<1> QED
  BY <1>1, <1>2 DEF Next

\* Whatever transactions run at a time on any number of connections and nodes, no
\* two of them hold locks on one row that conflict.
THEOREM LocksExclude == Spec => []TypeOK
<1>1. Inv => TypeOK
  BY DEF Inv
<1> QED
  BY <1>1, InitInv, NextInv, PTL DEF Spec

-----------------------------------------------------------------------------
(* Cycles of waits.                                                        *)

\* What is reached from p contains whom p waits for and is closed under waits.
LEMMA ReachedIsClosed ==
  ASSUME NEW w \in [Procs -> SUBSET Procs], NEW p \in Procs
  PROVE  /\ w[p] \subseteq Reached(w, p)
         /\ \A r \in Reached(w, p) : w[r] \subseteq Reached(w, p)
BY DEF Reached

\* It is the least such set.
LEMMA ReachedIsLeast ==
  ASSUME NEW w \in [Procs -> SUBSET Procs], NEW p \in Procs, NEW S \in SUBSET Procs,
         w[p] \subseteq S, \A r \in S : w[r] \subseteq S
  PROVE  Reached(w, p) \subseteq S
BY DEF Reached

\* Who waits for himself in the end waits for somebody who does, too.
LEMMA NextOnCycle ==
  ASSUME NEW w \in [Procs -> SUBSET Procs], NEW p \in Procs, p \notin w[p], p \in Reached(w, p)
  PROVE  \E q \in w[p] : p \in Reached(w, q) /\ q \in Reached(w, q)
<1> DEFINE S == w[p] \cup UNION {Reached(w, q) : q \in w[p]}
<1>1. \A q \in w[p] : /\ q \in Procs /\ w[q] \subseteq Reached(w, q)
                      /\ \A r \in Reached(w, q) : w[r] \subseteq Reached(w, q)
  BY ReachedIsClosed
<1>2. S \in SUBSET Procs BY DEF Reached
<1>3. \A r \in S : w[r] \subseteq S BY <1>1
<1>4. p \in S
  <2>1. w[p] \subseteq S OBVIOUS
  <2> HIDE DEF S
  <2> QED BY <1>2, <1>3, <2>1, ReachedIsLeast
<1>5. PICK q \in w[p] : p \in Reached(w, q) BY <1>4
<1>6. q \in Reached(w, q) BY <1>1, <1>5
<1> QED BY <1>5, <1>6

-----------------------------------------------------------------------------
(* Who can be waited for while waiting.                                    *)

\* The rows that only the rollouts of node n lock, but for sweeps and heartbeats.
RowsOf(n) ==
  {Node(n), State(n)} \cup {Bundle(n, g) : g \in Generations} \cup {Rollout(n, g) : g \in Generations}

\* A transaction about a rollout of node n locks rows of n, and shares the user.
AboutNode(t, n) ==
  /\ t.node = {n}
  /\ \A i \in 1..Len(t.locks) : t.locks[i][1] \in RowsOf(n) \/ t.locks[i] = Lock(User, "share")

\* A report locks rows of its own node only, whichever of its branches it takes.
LEMMA ReportLocks ==
  ASSUME NEW n \in Nodes, NEW g \in Generations,
         NEW s \in {"in_progress", "succeeded", "failed", "rolled_back"}
  PROVE  LET locks == ReportConfig(n, g, s) IN
         \A i \in 1..Len(locks) : locks[i][1] \in RowsOf(n)
<1> DEFINE head == <<Lock(Rollout(n, g), "update"), Lock(Bundle(n, g), "update"), Lock(Node(n), "share")>>
           state == IF s = "in_progress" THEN <<>> ELSE <<Lock(State(n), "nokey")>>
           back == IF s = "rolled_back" THEN <<Lock(Bundle(n, 1), "share")>> ELSE <<>>
           tail == <<Lock(Node(n), "nokey")>>
           L == {l \in RowsOf(n) \X {"update", "share", "nokey"} : TRUE}
<1>1. head \in Seq(L) /\ state \in Seq(L) /\ back \in Seq(L) /\ tail \in Seq(L)
  BY DEF Lock, RowsOf, Generations
<1>2. ReportConfig(n, g, s) = head \o state \o back \o tail
  BY DEF ReportConfig
<1> HIDE DEF head, state, back, tail, L
<1>3. head \o state \o back \o tail \in Seq(L) BY <1>1
<1>4. \A l \in L : l[1] \in RowsOf(n) BY DEF L
<1> QED BY <1>2, <1>3, <1>4

\* What the transactions about rollouts are.
LEMMA RolloutCases ==
  ASSUME NEW t \in RolloutTransactions
  PROVE  \/ \E n \in Nodes : t = Admin(n, CreateRollout(n))
         \/ \E n \in Nodes, g \in Generations :
              \/ t = Admin(n, RollbackRollout(n, g)) \/ t = Agent(n, NextConfig(n, g))
              \/ t = Worker(n, FailStaleRollout(n, g))
         \/ \E n \in Nodes, g \in Generations,
               s \in {"in_progress", "succeeded", "failed", "rolled_back"} :
              t = Agent(n, ReportConfig(n, g, s))
<1> DEFINE Of(n) == {Admin(n, CreateRollout(n)), Agent(n, ReportConfig(n, 2, "rolled_back"))}
           By(n, g) == {Admin(n, RollbackRollout(n, g)), Agent(n, NextConfig(n, g)),
                        Worker(n, FailStaleRollout(n, g))}
           On(n, g, status) == Agent(n, ReportConfig(n, g, status))
<1>1. \/ t \in UNION {Of(n) : n \in Nodes}
      \/ t \in UNION {By(n, g) : n \in Nodes, g \in Generations}
      \/ t \in {On(n, g, status) : n \in Nodes, g \in Generations,
                                   status \in {"in_progress", "succeeded", "failed"}}
  BY DEF RolloutTransactions
<1> HIDE DEF Of, By, On
<1>2. \/ \E n \in Nodes : t \in Of(n)
      \/ \E n \in Nodes, g \in Generations : t \in By(n, g)
      \/ \E n \in Nodes, g \in Generations, status \in {"in_progress", "succeeded", "failed"} :
           t = On(n, g, status)
  BY <1>1
<1>3. 2 \in Generations BY DEF Generations
<1> QED BY <1>2, <1>3 DEF Of, By, On

\* A call about a rollout locks rows of one node and, of others, the user's row.
LEMMA RolloutLocks ==
  ASSUME NEW t \in RolloutTransactions
  PROVE  \E n \in Nodes : AboutNode(t, n)
<1>1. ASSUME NEW n \in Nodes
      PROVE  \A i \in 1..Len(CreateRollout(n)) :
               CreateRollout(n)[i][1] \in RowsOf(n) \/ CreateRollout(n)[i] = Lock(User, "share")
  BY DEF CreateRollout, Lock, RowsOf, Generations
<1>2. ASSUME NEW n \in Nodes, NEW g \in Generations
      PROVE  /\ \A i \in 1..Len(RollbackRollout(n, g)) :
                  \/ RollbackRollout(n, g)[i][1] \in RowsOf(n)
                  \/ RollbackRollout(n, g)[i] = Lock(User, "share")
             /\ \A i \in 1..Len(NextConfig(n, g)) : NextConfig(n, g)[i][1] \in RowsOf(n)
             /\ \A i \in 1..Len(FailStaleRollout(n, g)) : FailStaleRollout(n, g)[i][1] \in RowsOf(n)
  BY DEF RollbackRollout, NextConfig, FailStaleRollout, Lock, RowsOf, Generations
<1>3. \/ \E n \in Nodes : t = Admin(n, CreateRollout(n))
      \/ \E n \in Nodes, g \in Generations :
           \/ t = Admin(n, RollbackRollout(n, g)) \/ t = Agent(n, NextConfig(n, g))
           \/ t = Worker(n, FailStaleRollout(n, g))
      \/ \E n \in Nodes, g \in Generations,
            s \in {"in_progress", "succeeded", "failed", "rolled_back"} :
           t = Agent(n, ReportConfig(n, g, s))
  BY RolloutCases
<1>4. CASE \E n \in Nodes : t = Admin(n, CreateRollout(n))
  BY <1>1, <1>4 DEF AboutNode, Admin
<1>5. CASE \E n \in Nodes, g \in Generations :
             \/ t = Admin(n, RollbackRollout(n, g)) \/ t = Agent(n, NextConfig(n, g))
             \/ t = Worker(n, FailStaleRollout(n, g))
  BY <1>2, <1>5 DEF AboutNode, Admin, Agent, Worker
<1>6. CASE \E n \in Nodes, g \in Generations,
              s \in {"in_progress", "succeeded", "failed", "rolled_back"} :
             t = Agent(n, ReportConfig(n, g, s))
  BY ReportLocks, <1>6 DEF AboutNode, Agent
<1> QED BY <1>3, <1>4, <1>5, <1>6

\* The other transactions take one lock, are a sweep, or one of three.
LEMMA Kinds ==
  ASSUME NEW t \in Transactions \cup {NoTransaction}
  PROVE  \/ \E n \in Nodes : AboutNode(t, n)
         \/ t.node = {} /\ (Len(t.locks) = 0 \/ Len(t.locks) = 1)
         \/ \E sweep \in Sweeps : t = Sweep(MarkOfflineNodes(sweep))
         \/ t \in {Other(RotateRefreshToken), Other(CreateAccount), Other(FeedDelivery)}
<1>1. CASE t \in RolloutTransactions BY <1>1, RolloutLocks
<1>2. CASE t \in OtherTransactions
  BY <1>2 DEF OtherTransactions, Other, UpdateNode, SaveNodeCapabilities, SaveRefreshToken,
    RevokeSession, CreateSession
<1>3. CASE t = NoTransaction BY <1>3 DEF NoTransaction, Other
<1> QED BY <1>1, <1>2, <1>3 DEF Transactions

\* Rows of different nodes or tables are different.
LEMMA RowsDiffer ==
  /\ \A m, n \in Nodes : m # n => RowsOf(m) \cap RowsOf(n) = {}
  /\ \A m, n \in Nodes : m # n => Node(m) # Node(n)
  /\ \A n \in Nodes : Node(n) \in RowsOf(n)
  /\ \A n \in Nodes : {User, Session, RefreshToken, Feed, Catalog} \cap RowsOf(n) = {}
  /\ User \notin {Session, RefreshToken, Feed, Catalog}
  /\ Session \notin {RefreshToken, Feed, Catalog}
  /\ RefreshToken \notin {Feed, Catalog} /\ Feed # Catalog
BY DEF RowsOf, Node, State, Bundle, Rollout, User, Session, RefreshToken, Feed, Catalog, Generations

\* The locks of the transactions that are about no rollout.
LEMMA LocksOfOthers ==
  /\ \A locks : LET t == Sweep(locks) IN t.by = "worker" /\ t.node = {} /\ t.locks = locks
  /\ LET t == Other(RotateRefreshToken) IN
       /\ t.node = {} /\ Len(t.locks) = 3 /\ t.locks[1] = Lock(RefreshToken, "update")
       /\ t.locks[2] = Lock(Session, "update") /\ t.locks[3] = Lock(User, "update")
  /\ LET t == Other(CreateAccount) IN
       /\ t.node = {} /\ Len(t.locks) = 2
       /\ t.locks[1] = Lock(User, "share") /\ t.locks[2] = Lock(Catalog, "share")
  /\ LET t == Other(FeedDelivery) IN
       /\ t.node = {} /\ Len(t.locks) = 2
       /\ t.locks[1] = Lock(Feed, "update") /\ t.locks[2] = Lock(Catalog, "update")
BY DEF Sweep, Other, RotateRefreshToken, CreateAccount, FeedDelivery

\* A sweep that has marked the nodes of done and wants to mark node n next.
Sweeping(q, done, n) ==
  \E sweep \in Sweeps :
    /\ tx[q] = Sweep(MarkOfflineNodes(sweep))
    /\ done = {sweep[i] : i \in 1..held[q]} /\ n = sweep[held[q] + 1]

\* A connection that lacks a lock.
Stuck(q) == held[q] < Len(tx[q].locks)

\* The locks of a connection that somebody waits for while it is stuck.
LEMMA HoldersKinds ==
  ASSUME Placed, NEW q \in Procs, Stuck(q), NEW b \in HeldBy(q)
  PROVE  \/ \E n \in Nodes : AboutNode(tx[q], n) /\ (b[1] \in RowsOf(n) \/ b = Lock(User, "share"))
         \/ \E done \in SUBSET Nodes : \E n \in Nodes \ done, m \in done :
              Sweeping(q, done, n) /\ b = Lock(Node(m), "nokey")
         \/ /\ tx[q] = Other(RotateRefreshToken) /\ held[q] \in {1, 2}
            /\ b \in {Lock(RefreshToken, "update"), Lock(Session, "update")}
            /\ Lock(RefreshToken, "update") \in HeldBy(q)
         \/ tx[q] = Other(CreateAccount) /\ held[q] = 1 /\ b = Lock(User, "share")
         \/ tx[q] = Other(FeedDelivery) /\ held[q] = 1 /\ b = Lock(Feed, "update")
<1>1. tx[q] \in Transactions \cup {NoTransaction} BY DEF Placed
<1>2. PICK i \in 1..held[q] : b = tx[q].locks[i] BY DEF HeldBy
<1>3. /\ Len(tx[q].locks) \in Nat /\ held[q] \in Nat
      /\ i \in 1..Len(tx[q].locks) /\ held[q] >= 1 /\ held[q] < Len(tx[q].locks)
  BY <1>1, <1>2, TransactionLocks DEF Placed, Stuck
<1>4. CASE \E n \in Nodes : AboutNode(tx[q], n)
  BY <1>2, <1>3, <1>4 DEF AboutNode
<1>5. CASE Len(tx[q].locks) = 0 \/ Len(tx[q].locks) = 1
  <2>1. PICK k \in Nat : k = Len(tx[q].locks) BY <1>3
  <2>2. k # 0 /\ k # 1
    <3>1. held[q] \in Nat /\ held[q] >= 1 /\ held[q] < k BY <1>3, <2>1
    <3> HIDE <1>5
    <3> QED BY <3>1
  <2> QED BY <1>5, <2>1, <2>2
<1>6. CASE \E sweep \in Sweeps : tx[q] = Sweep(MarkOfflineNodes(sweep))
  <2>1. PICK sweep \in Sweeps : tx[q] = Sweep(MarkOfflineNodes(sweep)) BY <1>6
  <2>2. tx[q].locks = MarkOfflineNodes(sweep) BY <2>1, LocksOfOthers
  <2>3. /\ \A j \in 1..Len(tx[q].locks) :
             sweep[j] \in Nodes /\ tx[q].locks[j] = Lock(Node(sweep[j]), "nokey")
        /\ \A j, k \in 1..Len(tx[q].locks) : sweep[j] = sweep[k] => j = k
    BY <2>2, SweepLocks
  <2> DEFINE done == {sweep[j] : j \in 1..held[q]}
             n == sweep[held[q] + 1]
  <2>4. /\ held[q] + 1 \in 1..Len(tx[q].locks) /\ held[q] + 1 \notin 1..held[q]
        /\ 1..held[q] \subseteq 1..Len(tx[q].locks)
    BY <1>3
  <2>5. done \in SUBSET Nodes /\ n \in Nodes /\ n \notin done BY <2>3, <2>4
  <2>6. Sweeping(q, done, n) BY <2>1 DEF Sweeping
  <2>7. sweep[i] \in done /\ b = Lock(Node(sweep[i]), "nokey") BY <1>2, <1>3, <2>3
  <2> HIDE DEF done, n
  <2> QED BY <2>5, <2>6, <2>7
<1>7. CASE tx[q] = Other(RotateRefreshToken)
  <2>1. held[q] \in {1, 2} /\ i \in {1, 2} BY <1>2, <1>3, <1>7, LocksOfOthers
  <2>2. Lock(RefreshToken, "update") \in HeldBy(q)
    BY <1>3, <1>7, LocksOfOthers DEF HeldBy
  <2> QED BY <1>2, <1>7, <2>1, <2>2, LocksOfOthers
<1>8. CASE tx[q] = Other(CreateAccount)
  <2>1. held[q] = 1 /\ i = 1 BY <1>2, <1>3, <1>8, LocksOfOthers
  <2> QED BY <1>2, <1>8, <2>1, LocksOfOthers
<1>9. CASE tx[q] = Other(FeedDelivery)
  <2>1. held[q] = 1 /\ i = 1 BY <1>2, <1>3, <1>9, LocksOfOthers
  <2> QED BY <1>2, <1>9, <2>1, LocksOfOthers
<1> QED BY <1>1, <1>4, <1>5, <1>6, <1>7, <1>8, <1>9, Kinds

\* Who waits, waits for a lock that somebody holds in a mode that conflicts.
LEMMA WaitedLock ==
  ASSUME Placed, NEW p \in Procs, NEW q \in Procs, WaitsFor(p, q)
  PROVE  \E b \in HeldBy(q) :
           /\ Conflict(Wanted(p), b) /\ Wanted(p)[1] = b[1]
           /\ ~(Wanted(p) = Lock(User, "share") /\ b = Lock(User, "share"))
           /\ p # q /\ held[p] + 1 \in 1..Len(tx[p].locks)
<1>1. Len(tx[p].locks) \in Nat /\ held[p] \in Nat BY TransactionLocks DEF Placed
<1>2. PICK b \in HeldBy(q) : Conflict(Wanted(p), b) BY DEF WaitsFor
<1> QED BY <1>1, <1>2 DEF WaitsFor, Conflict, Lock

\* A rollout waits in the end for rollouts of its node, or for a sweep that has marked it.
LEMMA RolloutWaits ==
  ASSUME Placed, NEW p \in Procs, NEW q \in Procs, NEW n \in Nodes, AboutNode(tx[p], n),
         WaitsFor(p, q), Stuck(q)
  PROVE  \/ AboutNode(tx[q], n)
         \/ \E done \in SUBSET Nodes : \E k \in Nodes \ done : Sweeping(q, done, k) /\ n \in done
<1>1. PICK b \in HeldBy(q) :
        /\ Wanted(p)[1] = b[1] /\ ~(Wanted(p) = Lock(User, "share") /\ b = Lock(User, "share"))
        /\ held[p] + 1 \in 1..Len(tx[p].locks)
  BY WaitedLock
<1>2. Wanted(p)[1] \in RowsOf(n) \/ Wanted(p) = Lock(User, "share")
  BY <1>1 DEF Wanted, AboutNode
<1>3. Lock(User, "share")[1] = User
  BY DEF Lock
<1>4. b[1] \in RowsOf(n) \/ b[1] = User
  BY <1>1, <1>2, <1>3
<1>5. CASE \E k \in Nodes : AboutNode(tx[q], k) /\ (b[1] \in RowsOf(k) \/ b = Lock(User, "share"))
  <2>1. PICK k \in Nodes : AboutNode(tx[q], k) /\ (b[1] \in RowsOf(k) \/ b = Lock(User, "share"))
    BY <1>5
  <2>2. b[1] # User
    BY <1>1, <1>2, <1>3, <2>1, RowsDiffer
  <2>3. b[1] \in RowsOf(n) /\ b[1] \in RowsOf(k)
    BY <1>3, <1>4, <2>1, <2>2
  <2>4. k = n
    BY <2>3, RowsDiffer
  <2> QED BY <2>1, <2>4
<1>6. CASE \E done \in SUBSET Nodes : \E k \in Nodes \ done, m \in done :
             Sweeping(q, done, k) /\ b = Lock(Node(m), "nokey")
  <2>0. PICK done \in SUBSET Nodes :
          \E k \in Nodes \ done, m \in done : Sweeping(q, done, k) /\ b = Lock(Node(m), "nokey")
    BY <1>6
  <2>1. PICK k \in Nodes \ done, m \in done : Sweeping(q, done, k) /\ b = Lock(Node(m), "nokey")
    BY <2>0
  <2>2. b[1] = Node(m) /\ Node(m) \in RowsOf(m)
    BY <2>1, RowsDiffer DEF Lock
  <2>3. m = n
    BY <1>4, <2>2, RowsDiffer
  <2> QED BY <2>1, <2>3
<1>7. CASE b \in {Lock(RefreshToken, "update"), Lock(Session, "update"), Lock(Feed, "update")}
  <2>1. b[1] \in {RefreshToken, Session, Feed}
    BY <1>7 DEF Lock
  <2> QED BY <1>4, <2>1, RowsDiffer
<1>8. CASE b = Lock(User, "share")
  BY <1>1, <1>2, <1>3, <1>8, RowsDiffer
<1> QED BY <1>5, <1>6, <1>7, <1>8, HoldersKinds

\* There is one worker, and it does one thing at a time.
OneWorker == \A p, q \in Procs : tx[p].by = "worker" /\ tx[q].by = "worker" => p = q

\* A sweep waits for the rollouts of the next node it marks.
LEMMA SweepWaits ==
  ASSUME Placed, OneWorker, NEW p \in Procs, NEW q \in Procs,
         NEW done \in SUBSET Nodes, NEW k \in Nodes, Sweeping(p, done, k),
         WaitsFor(p, q), Stuck(q)
  PROVE  AboutNode(tx[q], k)
<1>1. PICK b \in HeldBy(q) : Wanted(p)[1] = b[1] /\ p # q /\ held[p] + 1 \in 1..Len(tx[p].locks)
  BY WaitedLock
<1>2. Wanted(p) = Lock(Node(k), "nokey") /\ Lock(Node(k), "nokey")[1] = Node(k)
  <2>1. PICK sweep \in Sweeps : tx[p] = Sweep(MarkOfflineNodes(sweep)) /\ k = sweep[held[p] + 1]
    BY DEF Sweeping
  <2>2. tx[p].locks = MarkOfflineNodes(sweep) BY <2>1, LocksOfOthers
  <2> QED BY <1>1, <2>1, <2>2, SweepLocks DEF Wanted, Lock
<1>3. b[1] = Node(k) /\ Node(k) \in RowsOf(k)
  BY <1>1, <1>2, RowsDiffer
<1>4. CASE \E n \in Nodes : AboutNode(tx[q], n) /\ (b[1] \in RowsOf(n) \/ b = Lock(User, "share"))
  <2>1. PICK n \in Nodes : AboutNode(tx[q], n) /\ (b[1] \in RowsOf(n) \/ b = Lock(User, "share"))
    BY <1>4
  <2>2. Lock(User, "share")[1] = User
    BY DEF Lock
  <2>3. b[1] \in RowsOf(n) \cap RowsOf(k)
    BY <1>3, <2>1, <2>2, RowsDiffer
  <2>4. k = n
    BY <2>3, RowsDiffer
  <2> QED BY <2>1, <2>4
<1>5. CASE \E x, y : Sweeping(q, x, y)
  <2>1. tx[q].by = "worker" /\ tx[p].by = "worker"
    BY <1>5, LocksOfOthers DEF Sweeping
  <2> QED BY <1>1, <2>1 DEF OneWorker
<1>6. CASE b \in {Lock(RefreshToken, "update"), Lock(Session, "update"), Lock(Feed, "update"),
                  Lock(User, "share")}
  <2>1. b[1] \in {RefreshToken, Session, Feed, User}
    BY <1>6 DEF Lock
  <2> QED BY <1>3, <2>1, RowsDiffer
<1> QED BY <1>4, <1>5, <1>6, HoldersKinds

\* The rotation of a refresh token waits for nobody who waits until it wants the user.
LEMMA RotateWaits ==
  ASSUME Placed, Exclusive, NEW p \in Procs, NEW q \in Procs,
         tx[p] = Other(RotateRefreshToken), held[p] \in {1, 2}, WaitsFor(p, q), Stuck(q)
  PROVE  \/ \E n \in Nodes : AboutNode(tx[q], n)
         \/ tx[q] = Other(CreateAccount) /\ held[q] = 1
<1>1. PICK b \in HeldBy(q) : Wanted(p)[1] = b[1] /\ p # q
  BY WaitedLock
<1>2. Wanted(p) \in {Lock(Session, "update"), Lock(User, "update")}
  BY LocksOfOthers DEF Wanted
<1>3. b[1] \in {Session, User}
  BY <1>1, <1>2 DEF Lock
<1>4. Lock(RefreshToken, "update") \in HeldBy(p)
  BY LocksOfOthers DEF HeldBy
<1>5. Lock(RefreshToken, "update") \notin HeldBy(q)
  BY <1>1, <1>4 DEF Exclusive, Conflict, Lock
<1>6. CASE \E x \in Nodes : b = Lock(Node(x), "nokey")
  <2>1. \E x \in Nodes : b[1] = Node(x) /\ Node(x) \in RowsOf(x)
    BY <1>6, RowsDiffer DEF Lock
  <2> QED BY <1>3, <2>1, RowsDiffer
<1>7. CASE b = Lock(Feed, "update")
  <2>1. b[1] = Feed BY <1>7 DEF Lock
  <2> QED BY <1>3, <2>1, RowsDiffer
<1> QED BY <1>5, <1>6, <1>7, HoldersKinds

\* New accounts and deliveries of a feed wait for nobody who waits.
LEMMA AccountWaits ==
  ASSUME Placed, NEW p \in Procs, NEW q \in Procs,
         tx[p] \in {Other(CreateAccount), Other(FeedDelivery)}, held[p] = 1, WaitsFor(p, q)
  PROVE  ~Stuck(q)
<1> SUFFICES ASSUME Stuck(q) PROVE FALSE
  OBVIOUS
<1>1. PICK b \in HeldBy(q) : Wanted(p)[1] = b[1]
  BY WaitedLock
<1>2. Wanted(p)[1] = Catalog
  BY LocksOfOthers DEF Wanted, Lock
<1>3. b[1] = Catalog /\ \A n \in Nodes : b[1] \notin RowsOf(n)
  BY <1>1, <1>2, RowsDiffer
<1>4. b \notin {Lock(User, "share"), Lock(RefreshToken, "update"), Lock(Session, "update"),
                Lock(Feed, "update")}
  <2>1. CASE b \in {Lock(User, "share"), Lock(RefreshToken, "update"), Lock(Session, "update"),
                    Lock(Feed, "update")}
    <3>1. b[1] \in {User, RefreshToken, Session, Feed} BY <2>1 DEF Lock
    <3> QED BY <1>3, <3>1, RowsDiffer
  <2> QED BY <2>1
<1>5. ASSUME NEW m \in Nodes PROVE b # Lock(Node(m), "nokey")
  <2>1. CASE b = Lock(Node(m), "nokey")
    <3>1. b[1] = Node(m) BY <2>1 DEF Lock
    <3> QED BY <1>3, <3>1, RowsDiffer
  <2> QED BY <2>1
<1> QED BY <1>3, <1>4, <1>5, HoldersKinds

-----------------------------------------------------------------------------
(* Who is in a cycle of waits.                                             *)

\* The waits as a function, and what Deadlocked says in its terms.
LEMMA WaitsParts ==
  /\ Waits \in [Procs -> SUBSET Procs]
  /\ \A p, q \in Procs : q \in Waits[p] <=> WaitsFor(p, q)
  /\ \A p \in Procs : p \notin Waits[p] /\ (~Stuck(p) => Waits[p] = {})
  /\ \A p : p \in Deadlocked <=> p \in Procs /\ Waits[p] # {} /\ p \in Reached(Waits, p)
BY DEF Waits, WaitsFor, Stuck, Deadlocked

\* To show who is in no cycle: a set that holds whom p waits for, is closed under
\* waits and does not hold p.
LEMMA NotInCycle ==
  ASSUME NEW p \in Procs, NEW S \in SUBSET Procs,
         \A q \in Procs : WaitsFor(p, q) => q \in S,
         \A r \in S : \A q \in Procs : WaitsFor(r, q) => q \in S,
         p \notin S
  PROVE  p \notin Deadlocked
<1>1. Waits[p] \subseteq S /\ \A r \in S : Waits[r] \subseteq S
  BY WaitsParts
<1>2. Reached(Waits, p) \subseteq S
  BY <1>1, WaitsParts, ReachedIsLeast
<1> QED BY <1>2, WaitsParts

\* Who is in a cycle of waits waits for somebody who is in one.
LEMMA NextDeadlocked ==
  ASSUME NEW p \in Deadlocked
  PROVE  \E q \in Deadlocked \ {p} : WaitsFor(p, q)
<1>1. p \in Procs /\ p \notin Waits[p] /\ p \in Reached(Waits, p)
  BY WaitsParts
<1>2. PICK q \in Waits[p] : p \in Reached(Waits, q) /\ q \in Reached(Waits, q)
  BY <1>1, WaitsParts, NextOnCycle
<1>3. q \in Procs /\ WaitsFor(p, q) /\ q # p
  BY <1>1, <1>2, WaitsParts
<1>4. Waits[q] # {}
  <2>1. CASE Waits[q] = {}
    <3>1. Reached(Waits, q) \subseteq {}
      BY <1>3, <2>1, WaitsParts, ReachedIsLeast
    <3> QED BY <1>2, <3>1
  <2> QED BY <2>1
<1> QED BY <1>2, <1>3, <1>4, WaitsParts

\* Who is in a cycle of waits holds a lock and lacks one.
LEMMA DeadlockedHolds ==
  ASSUME Placed, NEW p \in Deadlocked
  PROVE  p \in Procs /\ Stuck(p) /\ held[p] \in Nat /\ held[p] >= 1
<1>1. p \in Procs /\ Stuck(p)
  BY WaitsParts
<1>2. Len(tx[p].locks) \in Nat /\ held[p] \in Nat
  BY <1>1, TransactionLocks DEF Placed
<1> DEFINE S == {q \in Procs : HeldBy(q) # {}}
<1>3. p \in S
  <2>1. \A r \in Procs : \A q \in Procs : WaitsFor(r, q) => q \in S
    BY DEF WaitsFor
  <2> HIDE DEF S
  <2>2. S \in SUBSET Procs
    BY DEF S
  <2> QED BY <1>1, <2>1, <2>2, NotInCycle
<1>4. held[p] # 0
  BY <1>3, NothingHeld
<1> QED BY <1>1, <1>2, <1>4

\* Connections that wait for nobody.
Moving == {q \in Procs : ~Stuck(q)}

\* Calls about rollouts, and sweeps that have marked their first node.
RolloutsAndSweeps ==
  {q \in Procs : \/ \E n \in Nodes : AboutNode(tx[q], n)
                 \/ \E done \in SUBSET Nodes : \E k \in Nodes \ done : Sweeping(q, done, k)}

\* Who moves waits for nobody.
LEMMA MovingWaits ==
  ASSUME NEW r \in Moving, NEW q
  PROVE  ~WaitsFor(r, q)
BY DEF Moving, WaitsFor, Stuck

\* What a sweep has marked is determined by the rows it locks.
LEMMA SameSweep ==
  ASSUME Placed, NEW p \in Procs, Stuck(p), NEW done, NEW k, NEW marked, NEW x,
         Sweeping(p, done, k), Sweeping(p, marked, x)
  PROVE  marked = done
<1>1. PICK a \in Sweeps : tx[p] = Sweep(MarkOfflineNodes(a)) /\ done = {a[i] : i \in 1..held[p]}
  BY DEF Sweeping
<1>2. PICK b \in Sweeps : tx[p] = Sweep(MarkOfflineNodes(b)) /\ marked = {b[i] : i \in 1..held[p]}
  BY DEF Sweeping
<1>3. MarkOfflineNodes(a) = MarkOfflineNodes(b)
  <2>1. \A locks : Sweep(locks).locks = locks BY LocksOfOthers
  <2>2. tx[p].locks = MarkOfflineNodes(a) BY <1>1, <2>1
  <2>3. tx[p].locks = MarkOfflineNodes(b) BY <1>2, <2>1
  <2> QED BY <2>2, <2>3
<1>4. 1..held[p] \subseteq 1..Len(MarkOfflineNodes(a))
  <2>1. tx[p].locks = MarkOfflineNodes(a) BY <1>1, LocksOfOthers
  <2>2. held[p] \in Nat /\ Len(tx[p].locks) \in Nat /\ held[p] < Len(tx[p].locks)
    BY TransactionLocks DEF Placed, Stuck
  <2> QED BY <2>1, <2>2
<1>5. \A i \in 1..held[p] : Node(a[i]) = Node(b[i]) /\ a[i] \in Nodes /\ b[i] \in Nodes
  BY <1>3, <1>4, SweepLocks DEF Lock
<1>6. \A i \in 1..held[p] : a[i] = b[i] BY <1>5, RowsDiffer
<1> QED BY <1>1, <1>2, <1>6

\* A sweep is in no cycle of waits.
LEMMA SweepInNoCycle ==
  ASSUME Placed, OneWorker, NEW p \in Procs, NEW done \in SUBSET Nodes, NEW k \in Nodes \ done,
         Sweeping(p, done, k)
  PROVE  p \notin Deadlocked
<1> SUFFICES ASSUME p \in Deadlocked PROVE FALSE
  OBVIOUS
<1> DEFINE S == Moving \cup {q \in Procs : AboutNode(tx[q], k)}
<1>1. S \in SUBSET Procs
  BY DEF Moving
<1>2. \A q \in Procs : WaitsFor(p, q) => q \in S
  BY SweepWaits DEF Moving
<1>3. \A r \in S : \A q \in Procs : WaitsFor(r, q) => q \in S
  <2> SUFFICES ASSUME NEW r \in S, NEW q \in Procs, WaitsFor(r, q), Stuck(q)
               PROVE  q \in S
    BY DEF Moving
  <2>1. r \in Procs /\ AboutNode(tx[r], k)
    BY MovingWaits
  <2>2. ASSUME NEW marked \in SUBSET Nodes, NEW x \in Nodes \ marked,
               Sweeping(q, marked, x), k \in marked
        PROVE  FALSE
    <3>1. tx[q].by = "worker" /\ tx[p].by = "worker"
      BY <2>2, LocksOfOthers DEF Sweeping
    <3>2. q = p
      BY <3>1 DEF OneWorker
    <3>3. marked = done
      BY <2>2, <3>2, SameSweep
    <3> QED BY <2>2, <3>3
  <2> QED BY <2>1, <2>2, RolloutWaits
<1>4. p \notin S
  <2>1. p \notin Moving
    BY DeadlockedHolds DEF Moving
  <2>2. ~AboutNode(tx[p], k)
    BY LocksOfOthers DEF AboutNode, Sweeping
  <2> QED BY <2>1, <2>2
<1> HIDE DEF S
<1> QED BY <1>1, <1>2, <1>3, <1>4, NotInCycle

\* Neither is the rotation of a refresh token, a new account or a delivery.
LEMMA OtherInNoCycle ==
  ASSUME Placed, Exclusive, OneWorker, NEW p \in Procs,
         tx[p] \in {Other(RotateRefreshToken), Other(CreateAccount), Other(FeedDelivery)}
  PROVE  p \notin Deadlocked
<1> SUFFICES ASSUME p \in Deadlocked PROVE FALSE
  OBVIOUS
<1>1. Stuck(p) /\ held[p] \in Nat /\ held[p] >= 1
  BY DeadlockedHolds
<1> DEFINE Accounts == {q \in Procs : tx[q] = Other(CreateAccount) /\ held[q] = 1}
           S == Moving \cup RolloutsAndSweeps
                \cup {q \in Accounts : tx[p] = Other(RotateRefreshToken)}
<1>2. S \in SUBSET Procs
  BY DEF Moving, RolloutsAndSweeps
<1>3. \A q \in Procs : WaitsFor(p, q) => q \in S
  <2> SUFFICES ASSUME NEW q \in Procs, WaitsFor(p, q), Stuck(q) PROVE q \in S
    BY DEF Moving
  <2>1. CASE tx[p] = Other(RotateRefreshToken)
    <3>1. held[p] \in {1, 2}
      BY <1>1, <2>1, LocksOfOthers DEF Stuck
    <3> QED BY <2>1, <3>1, RotateWaits DEF RolloutsAndSweeps
  <2>2. CASE tx[p] \in {Other(CreateAccount), Other(FeedDelivery)}
    <3>1. Len(tx[p].locks) = 2
      BY <2>2, LocksOfOthers
    <3>2. held[p] = 1
      BY <1>1, <3>1 DEF Stuck
    <3> QED BY <2>2, <3>2, AccountWaits
  <2> QED BY <2>1, <2>2
<1>4. \A r \in S : \A q \in Procs : WaitsFor(r, q) => q \in S
  <2> SUFFICES ASSUME NEW r \in S, NEW q \in Procs, WaitsFor(r, q), Stuck(q)
               PROVE  q \in S
    BY DEF Moving
  <2>0. r \in Procs
    BY <1>2
  <2>1. CASE \E n \in Nodes : AboutNode(tx[r], n)
    BY <2>0, <2>1, RolloutWaits DEF RolloutsAndSweeps
  <2>2. CASE \E done \in SUBSET Nodes : \E k \in Nodes \ done : Sweeping(r, done, k)
    BY <2>0, <2>2, SweepWaits DEF RolloutsAndSweeps
  <2>3. CASE tx[r] = Other(CreateAccount) /\ held[r] = 1
    BY <2>0, <2>3, AccountWaits
  <2> QED BY <2>1, <2>2, <2>3, MovingWaits DEF RolloutsAndSweeps
<1>5. p \notin S
  <2>1. p \notin Moving
    BY <1>1 DEF Moving
  <2>2. p \notin RolloutsAndSweeps
    <3>1. tx[p].node = {}
      BY LocksOfOthers
    <3>2. \A locks : tx[p] # Sweep(locks)
      BY DEF Other, Sweep
    <3> QED BY <3>1, <3>2 DEF RolloutsAndSweeps, AboutNode, Sweeping
  <2>3. tx[p] = Other(RotateRefreshToken) => p \notin Accounts
    <3>1. Other(RotateRefreshToken) # Other(CreateAccount)
      BY LocksOfOthers
    <3> QED BY <3>1
  <2> QED BY <2>1, <2>2, <2>3
<1> HIDE DEF S
<1> QED BY <1>2, <1>3, <1>4, <1>5, NotInCycle

\* Only calls about the rollouts of some node are in a cycle of waits.
LEMMA DeadlockedAboutNode ==
  ASSUME Placed, Exclusive, OneWorker, NEW p \in Deadlocked
  PROVE  \E n \in Nodes : AboutNode(tx[p], n)
<1>1. p \in Procs /\ Stuck(p) /\ held[p] \in Nat /\ held[p] >= 1
  BY DeadlockedHolds
<1>2. tx[p] \in Transactions \cup {NoTransaction}
  BY <1>1 DEF Placed
<1>3. ~(Len(tx[p].locks) = 0 \/ Len(tx[p].locks) = 1)
  <2>1. PICK k \in Nat : k = Len(tx[p].locks)
    BY <1>2, TransactionLocks
  <2>2. held[p] \in Nat /\ held[p] >= 1 /\ held[p] < k
    BY <1>1, <2>1 DEF Stuck
  <2>3. k # 0 /\ k # 1
    BY <2>2
  <2> QED BY <2>1, <2>3
<1>4. ASSUME NEW sweep \in Sweeps, tx[p] = Sweep(MarkOfflineNodes(sweep))
      PROVE  FALSE
  <2>1. tx[p].locks[1] \in HeldBy(p)
    BY <1>1 DEF HeldBy
  <2>2. tx[p].by = "worker" /\ tx[p].node = {}
    BY <1>4, LocksOfOthers
  <2>3. \A n \in Nodes : ~AboutNode(tx[p], n)
    BY <2>2 DEF AboutNode
  <2>4. tx[p] \notin {Other(RotateRefreshToken), Other(CreateAccount), Other(FeedDelivery)}
    BY <2>2 DEF Other
  <2>5. \E done \in SUBSET Nodes : \E n \in Nodes \ done : Sweeping(p, done, n)
    BY <1>1, <2>1, <2>3, <2>4, HoldersKinds
  <2> QED BY <1>1, <2>5, SweepInNoCycle
<1>5. tx[p] \notin {Other(RotateRefreshToken), Other(CreateAccount), Other(FeedDelivery)}
  BY <1>1, OtherInNoCycle
<1> QED BY <1>2, <1>3, <1>4, <1>5, Kinds

\* A cycle of waits is one of calls about the rollouts of one node.
LEMMA OneNode ==
  ASSUME Placed, Exclusive, OneWorker
  PROVE  DeadlocksStayOnOneNode
<1> SUFFICES ASSUME NEW p \in Deadlocked
             PROVE  tx[p].node # {} /\ \E q \in Deadlocked \ {p} : tx[q].node = tx[p].node
  BY DEF DeadlocksStayOnOneNode
<1>1. PICK n \in Nodes : AboutNode(tx[p], n)
  BY DeadlockedAboutNode
<1>2. PICK q \in Deadlocked \ {p} : WaitsFor(p, q)
  BY NextDeadlocked
<1>3. p \in Procs /\ q \in Procs /\ Stuck(q)
  BY DeadlockedHolds
<1>4. tx[q].node # {}
  <2>1. PICK m \in Nodes : AboutNode(tx[q], m)
    BY DeadlockedAboutNode
  <2> QED BY <2>1 DEF AboutNode
<1>5. \A done, k : ~Sweeping(q, done, k)
  BY <1>4, LocksOfOthers DEF Sweeping
<1>6. AboutNode(tx[q], n)
  BY <1>1, <1>2, <1>3, <1>5, RolloutWaits
<1> QED BY <1>1, <1>2, <1>6 DEF AboutNode

\* Nobody works for the worker at first, and a second worker's call is never begun.
LEMMA InitOneWorker == Init => OneWorker
BY DEF Init, OneWorker, NoTransaction, Other

\* No step makes a second connection the worker.
LEMMA NextOneWorker == Inv /\ OneWorker /\ [Next]_vars => OneWorker'
<1> SUFFICES ASSUME Inv, OneWorker, [Next]_vars PROVE OneWorker'
  OBVIOUS
<1>1. tx \in [Procs -> Transactions \cup {NoTransaction}]
  BY DEF Inv, TypeOK
<1>2. ASSUME NEW p \in Procs, Begin(p) PROVE OneWorker'
  <2>1. PICK t \in Transactions :
          /\ t.by = "worker" => \A q \in Procs : tx[q].by # "worker"
          /\ tx' = [tx EXCEPT ![p] = t]
    BY <1>2 DEF Begin
  <2>2. tx'[p] = t /\ \A q \in Procs \ {p} : tx'[q] = tx[q]
    BY <1>1, <2>1
  <2> QED BY <2>1, <2>2 DEF OneWorker
<1>3. ASSUME NEW p \in Procs, Release(p) PROVE OneWorker'
  <2>1. tx'[p] = NoTransaction /\ \A q \in Procs \ {p} : tx'[q] = tx[q]
    BY <1>1, <1>3 DEF Release
  <2>2. NoTransaction.by # "worker"
    BY DEF NoTransaction, Other
  <2> QED BY <2>1, <2>2 DEF OneWorker
<1>4. CASE UNCHANGED tx
  BY <1>4 DEF OneWorker
<1> QED BY <1>2, <1>3, <1>4 DEF Next, Acquire, Commit, Abort, vars

\* Whatever runs at a time on any number of connections, a cycle of waits consists of
\* calls about the rollouts of one node: nothing else is ever aborted by PostgreSQL.
THEOREM DeadlocksWithinNode == Spec => []DeadlocksStayOnOneNode
<1>1. Inv /\ OneWorker => DeadlocksStayOnOneNode
  BY OneNode, TypeOKParts DEF Inv
<1> QED
  BY <1>1, InitInv, NextInv, InitOneWorker, NextOneWorker, PTL DEF Spec

-----------------------------------------------------------------------------
(* Administrators.                                                         *)

\* The order in which administrators lock rows of the tables.  New rollouts start
\* with the second of them.
AdminTables == <<"rollouts", "nodes", "users", "config_bundles", "node_config_states">>

\* An administrator's transaction takes one row of each of these tables, in this order.
LEMMA AdminLocks ==
  ASSUME NEW t \in Transactions \cup {NoTransaction}, t.by = "admin"
  PROVE  /\ Len(t.locks) \in 4..5
         /\ \A i \in 1..Len(t.locks) : t.locks[i][1][1] = AdminTables[i + 5 - Len(t.locks)]
<1>1. t \in RolloutTransactions
  BY DEF Transactions, NoTransaction, OtherTransactions, Other, Sweep
<1>2. CASE \E n \in Nodes : t = Admin(n, CreateRollout(n))
  <2>1. PICK n \in Nodes : t.locks = CreateRollout(n)
    BY <1>2 DEF Admin
  <2>2. Len(CreateRollout(n)) = 4
    BY DEF CreateRollout
  <2>3. \A i \in 1..4 : CreateRollout(n)[i][1][1] = AdminTables[i + 1]
    BY DEF CreateRollout, Lock, Node, User, Bundle, State, AdminTables
  <2> QED BY <2>1, <2>2, <2>3
<1>3. CASE \E n \in Nodes, g \in Generations : t = Admin(n, RollbackRollout(n, g))
  <2>1. PICK n \in Nodes, g \in Generations : t.locks = RollbackRollout(n, g)
    BY <1>3 DEF Admin
  <2>2. Len(RollbackRollout(n, g)) = 5
    BY DEF RollbackRollout
  <2>3. \A i \in 1..5 : RollbackRollout(n, g)[i][1][1] = AdminTables[i]
    BY DEF RollbackRollout, Lock, Rollout, Node, User, Bundle, State, AdminTables
  <2> QED BY <2>1, <2>2, <2>3
<1>4. \A n, locks : Agent(n, locks).by # "admin" /\ Worker(n, locks).by # "admin"
  BY DEF Agent, Worker
<1>5. \/ \E n \in Nodes : t = Admin(n, CreateRollout(n))
      \/ \E n \in Nodes, g \in Generations : t = Admin(n, RollbackRollout(n, g))
  BY <1>1, <1>4, RolloutCases
<1> QED BY <1>2, <1>3, <1>5

\* The place in that order of the lock an administrator's call wants.
Rank(p) == held[p] + 6 - Len(tx[p].locks)

\* An administrator's call waits only for those that are further.
LEMMA RankGrows ==
  ASSUME Placed, NEW p \in Procs, NEW q \in Procs, WaitsFor(p, q), Stuck(q),
         tx[p].by = "admin", tx[q].by = "admin"
  PROVE  Rank(p) \in 1..5 /\ Rank(q) \in 1..5 /\ Rank(p) < Rank(q)
<1>0. tx[p] \in Transactions \cup {NoTransaction} /\ tx[q] \in Transactions \cup {NoTransaction}
  BY DEF Placed
<1>1. PICK l \in 4..5, k \in 4..5 : l = Len(tx[p].locks) /\ k = Len(tx[q].locks)
  BY <1>0, AdminLocks
<1>2. PICK h \in 0..(l - 1), j \in 0..(k - 1) : h = held[p] /\ j = held[q]
  <2>1. held[p] \in 0..l /\ held[q] \in 0..k /\ held[p] < l /\ held[q] < k
    BY <1>1 DEF Placed, WaitsFor, Stuck
  <2> QED BY <2>1
<1>3. PICK x \in 1..5, y \in 1..5 : x = h + 6 - l /\ y = j + 6 - k /\ x = Rank(p) /\ y = Rank(q)
  <2>1. h + 6 - l \in 1..5 /\ j + 6 - k \in 1..5
    OBVIOUS
  <2> QED BY <1>1, <1>2, <2>1 DEF Rank
<1>4. PICK i \in 1..j : Wanted(p)[1] = tx[q].locks[i][1]
  BY <1>2, WaitedLock DEF HeldBy
<1>5. Wanted(p)[1][1] = AdminTables[x]
  <2>1. h + 1 \in 1..l /\ h + 1 + 5 - l = x
    BY <1>3
  <2>2. tx[p].locks[h + 1][1][1] = AdminTables[h + 1 + 5 - l]
    BY <1>0, <1>1, <2>1, AdminLocks
  <2> QED BY <1>2, <2>1, <2>2 DEF Wanted
<1>6. PICK r \in 1..5 : r < y /\ tx[q].locks[i][1][1] = AdminTables[r]
  <2>1. i \in 1..k /\ i + 5 - k \in 1..5 /\ i + 5 - k < y
    BY <1>3
  <2>2. tx[q].locks[i][1][1] = AdminTables[i + 5 - k]
    BY <1>0, <1>1, <2>1, AdminLocks
  <2> QED BY <2>1, <2>2
<1>7. x = r
  <2>1. AdminTables[x] = AdminTables[r]
    BY <1>4, <1>5, <1>6
  <2>2. \A a, b \in 1..5 : AdminTables[a] = AdminTables[b] => a = b
    BY DEF AdminTables
  <2> QED BY <2>1, <2>2
<1> QED BY <1>3, <1>6, <1>7

\* Numbers up to five do not grow for ever.
LEMMA NoneGrows ==
  ASSUME NEW D, NEW rank \in [D -> 1..5], \A x \in D : \E y \in D : rank[x] < rank[y]
  PROVE  D = {}
<1>1. \A x \in D : rank[x] \in 1..5 /\ rank[x] # 5
  OBVIOUS
<1>2. \A x \in D : rank[x] # 4
  BY <1>1
<1>3. \A x \in D : rank[x] # 3
  BY <1>1, <1>2
<1>4. \A x \in D : rank[x] # 2
  BY <1>1, <1>2, <1>3
<1>5. \A x \in D : rank[x] # 1
  BY <1>1, <1>2, <1>3, <1>4
<1> QED BY <1>1, <1>2, <1>3, <1>4, <1>5

\* Administrators' calls alone are no cycle of waits.
LEMMA SomebodyElse ==
  ASSUME Placed
  PROVE  NotAmongAdministrators
<1> SUFFICES ASSUME \A q \in Deadlocked : tx[q].by = "admin"
             PROVE  Deadlocked = {}
  BY DEF NotAmongAdministrators
<1>1. ASSUME NEW p \in Deadlocked
      PROVE  \E q \in Deadlocked : Rank(p) \in 1..5 /\ Rank(q) \in 1..5 /\ Rank(p) < Rank(q)
  <2>1. PICK q \in Deadlocked : WaitsFor(p, q)
    BY NextDeadlocked
  <2>2. p \in Procs /\ q \in Procs /\ Stuck(q)
    BY DeadlockedHolds
  <2> QED BY <2>1, <2>2, RankGrows
<1> DEFINE rank == [p \in Deadlocked |-> Rank(p)]
<1>2. rank \in [Deadlocked -> 1..5] /\ \A x \in Deadlocked : \E y \in Deadlocked : rank[x] < rank[y]
  BY <1>1
<1> HIDE DEF rank
<1> QED BY <1>2, NoneGrows

\* However many administrators create rollouts and roll them back, and of however
\* many nodes: there is an agent's call or the worker in every cycle of waits.
THEOREM AdministratorsNeverAlone == Spec => []NotAmongAdministrators
<1>1. Inv => NotAmongAdministrators
  BY SomebodyElse, TypeOKParts DEF Inv
<1> QED
  BY <1>1, InitInv, NextInv, PTL DEF Spec

-----------------------------------------------------------------------------
(* The numbers of bundles.                                                 *)

\* An administrator's transaction that has inserted its bundle has its node locked.
LEMMA NumberedLocks ==
  ASSUME Placed, NEW p \in Procs, Numbered(p)
  PROVE  \E n \in Nodes : tx[p].node = {n} /\ Lock(Node(n), "update") \in HeldBy(p)
<1> USE DEF Lock
<1>1. tx[p] \in RolloutTransactions /\ tx[p].by = "admin"
  BY DEF Placed, Numbered, Transactions, NoTransaction, OtherTransactions, Other, Sweep
<1>2. \A n, locks : Agent(n, locks).by # "admin" /\ Worker(n, locks).by # "admin"
  BY DEF Agent, Worker
<1>3. PICK i \in 1..held[p] : tx[p].locks[i] = Lock(User, "share")
  BY DEF Numbered, HeldBy
<1>4. held[p] \in Nat /\ held[p] <= Len(tx[p].locks) /\ Len(tx[p].locks) \in Nat
  BY TransactionLocks DEF Placed
<1>5. CASE \E n \in Nodes : tx[p] = Admin(n, CreateRollout(n))
  <2>1. PICK n \in Nodes : tx[p] = Admin(n, CreateRollout(n)) BY <1>5
  <2>2. tx[p].node = {n} /\ tx[p].locks = CreateRollout(n) BY <2>1 DEF Admin
  <2>3. CreateRollout(n)[1] = Lock(Node(n), "update") BY DEF CreateRollout
  <2>4. 1 \in 1..held[p] BY <1>3, <1>4
  <2> QED BY <2>2, <2>3, <2>4 DEF HeldBy
<1>6. CASE \E n \in Nodes, g \in Generations : tx[p] = Admin(n, RollbackRollout(n, g))
  <2>1. PICK n \in Nodes, g \in Generations : tx[p] = Admin(n, RollbackRollout(n, g)) BY <1>6
  <2>2. tx[p].node = {n} /\ tx[p].locks = RollbackRollout(n, g) BY <2>1 DEF Admin
  <2>3. /\ RollbackRollout(n, g)[1] = Lock(Rollout(n, g), "update")
        /\ RollbackRollout(n, g)[2] = Lock(Node(n), "update")
    BY DEF RollbackRollout
  <2>4. i # 1
    <3>1. Rollout(n, g) # User BY RowsDiffer DEF RowsOf
    <3> QED BY <1>3, <2>2, <2>3, <3>1
  <2>5. 2 \in 1..held[p] BY <1>3, <1>4, <2>4
  <2> QED BY <2>2, <2>3, <2>5 DEF HeldBy
<1> QED BY <1>1, <1>2, <1>5, <1>6, RolloutCases

\* However many administrators create rollouts and roll them back at a time, no two of
\* them have inserted a bundle of one node: the node's row is locked before.
THEOREM BundlesNumberedOneByOne == Spec => []NumberedOneByOne
<1>1. Inv => NumberedOneByOne
  <2> SUFFICES ASSUME Inv, NEW p \in Procs, NEW q \in Procs, p # q, Numbered(p), Numbered(q),
                      tx[p].node = tx[q].node
               PROVE  FALSE
    BY DEF NumberedOneByOne
  <2>1. Placed /\ Exclusive BY TypeOKParts DEF Inv
  <2>2. PICK m \in Nodes : tx[p].node = {m} /\ Lock(Node(m), "update") \in HeldBy(p)
    BY <2>1, NumberedLocks
  <2>3. PICK n \in Nodes : tx[q].node = {n} /\ Lock(Node(n), "update") \in HeldBy(q)
    BY <2>1, NumberedLocks
  <2>4. m = n BY <2>2, <2>3
  <2>5. Conflict(Lock(Node(m), "update"), Lock(Node(m), "update")) BY DEF Conflict, Lock
  <2> QED BY <2>1, <2>2, <2>3, <2>4, <2>5 DEF Exclusive
<1> QED
  BY <1>1, InitInv, NextInv, PTL DEF Spec
=============================================================================
