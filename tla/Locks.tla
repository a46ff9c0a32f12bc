-------------------------------- MODULE Locks --------------------------------
(***************************************************************************)
(* The transactions of the control plane as the row locks they take, one   *)
(* after the other, and keep to their end: what Rollouts, Sessions and     *)
(* Commerce take as given when they let every transaction end.             *)
(*                                                                         *)
(* PostgreSQL (external) locks a row for FOR UPDATE ("update"), for an     *)
(* UPDATE of columns that are no key ("nokey"), and for the foreign key of a*)
(* row that refers to it ("share"); it aborts one transaction of a cycle.  *)
(* A statement that locks rows of several tables locks them in the order of*)
(* its FROM clause, one that checks several foreign keys in the order of   *)
(* the table's definition.  Rows a transaction has inserted itself, rows of*)
(* tenants, which are only ever shared, and plain reads are left out.      *)
(***************************************************************************)
EXTENDS Naturals, Sequences, FiniteSets

CONSTANTS
  Procs,  \* the connections that run a transaction at a time
  Nodes

ASSUME LocksAssumption == IsFiniteSet(Nodes)

VARIABLES
  tx,   \* tx[p]: the transaction of connection p
  held  \* held[p]: how many of its locks it has

vars == <<tx, held>>

\* Each node has two rollouts that matter: of its current bundle, 1, and of another
\* one, 2, whose fallback is bundle 1.
Generations == 1..2
Node(n) == <<"nodes", n>>
State(n) == <<"node_config_states", n>>
Bundle(n, g) == <<"config_bundles", n, g>>
Rollout(n, g) == <<"rollouts", n, g>>
User == <<"users">>
Session == <<"user_sessions">>
RefreshToken == <<"refresh_tokens">>
Feed == <<"subscription_feed_tokens">>
Catalog == <<"catalog_skus">>

Lock(row, mode) == <<row, mode>>

-----------------------------------------------------------------------------
(* The locks of each transaction in their order.                           *)

CreateRollout(n) ==
  <<Lock(Node(n), "update"), Lock(User, "share"), Lock(Bundle(n, 1), "share"),
    Lock(State(n), "nokey")>>

\* Mutant: FOR UPDATE OF r: the node is only referred to by the new bundle.
RollbackOfRolloutOnly(n, g) ==
  <<Lock(Rollout(n, g), "update"), Lock(Node(n), "share"), Lock(User, "share"),
    Lock(Bundle(n, g), "share"), Lock(State(n), "nokey")>>

\* Mutant: the state of the node is locked first.
RollbackStateFirst(n, g) ==
  <<Lock(State(n), "nokey"), Lock(Rollout(n, g), "update"), Lock(Node(n), "update"),
    Lock(User, "share"), Lock(Bundle(n, g), "share")>>

RollbackRollout(n, g) ==
  <<Lock(Rollout(n, g), "update"), Lock(Node(n), "update"), Lock(User, "share"),
    Lock(Bundle(n, g), "share"), Lock(State(n), "nokey")>>

NextConfig(n, g) ==
  <<Lock(State(n), "update"), Lock(Bundle(n, g), "update"), Lock(Rollout(n, g), "update"),
    Lock(Node(n), "nokey")>>

ReportConfig(n, g, status) ==
  <<Lock(Rollout(n, g), "update"), Lock(Bundle(n, g), "update"), Lock(Node(n), "share")>>
  \o (IF status = "in_progress" THEN <<>> ELSE <<Lock(State(n), "nokey")>>)
  \o (IF status = "rolled_back" THEN <<Lock(Bundle(n, 1), "share")>> ELSE <<>>)
  \o <<Lock(Node(n), "nokey")>>

FailStaleRollout(n, g) ==
  <<Lock(Node(n), "share"), Lock(Rollout(n, g), "share"), Lock(Bundle(n, g), "share"),
    Lock(State(n), "nokey"), Lock(Bundle(n, 1), "share"), Lock(Node(n), "nokey"),
    Lock(Rollout(n, g), "nokey")>>

\* Some of the nodes in some order: one UPDATE locks the rows it finds as it finds them.
Sweeps ==
  {sweep \in UNION {[1..k -> Nodes] : k \in 1..Cardinality(Nodes)} :
     \A i, j \in DOMAIN sweep : sweep[i] = sweep[j] => i = j}

\* Mutant: the nodes are marked in the transaction of a timeout.
MarkOfflineAfterTimeout(sweep) ==
  FailStaleRollout(sweep[1], 2) \o [i \in DOMAIN sweep |-> Lock(Node(sweep[i]), "nokey")]

MarkOfflineNodes(sweep) == [i \in DOMAIN sweep |-> Lock(Node(sweep[i]), "nokey")]

\* HeartbeatNode, RenewNode, and NextConfig when there is nothing new.
UpdateNode(n) == <<Lock(Node(n), "nokey")>>

SaveNodeCapabilities(n) == <<Lock(Node(n), "share")>>

RotateRefreshToken ==
  <<Lock(RefreshToken, "update"), Lock(Session, "update"), Lock(User, "update")>>

SaveRefreshToken == <<Lock(Session, "share")>>

RevokeSession == <<Lock(RefreshToken, "nokey")>>

CreateSession == <<Lock(User, "share")>>

CreateAccount == <<Lock(User, "share"), Lock(Catalog, "share")>>

FeedDelivery == <<Lock(Feed, "update"), Lock(Catalog, "update")>>

-----------------------------------------------------------------------------
\* Who runs a transaction, and for which node if it is about a rollout.
Admin(n, locks) == [by |-> "admin", node |-> {n}, locks |-> locks]
Agent(n, locks) == [by |-> "agent", node |-> {n}, locks |-> locks]
Worker(n, locks) == [by |-> "worker", node |-> {n}, locks |-> locks]
Sweep(locks) == [by |-> "worker", node |-> {}, locks |-> locks]
Other(locks) == [by |-> "other", node |-> {}, locks |-> locks]

RolloutTransactions ==
  (UNION {{Admin(n, CreateRollout(n)), Agent(n, ReportConfig(n, 2, "rolled_back"))} : n \in Nodes})
  \cup (UNION {{Admin(n, RollbackRollout(n, g)), Agent(n, NextConfig(n, g)),
                Worker(n, FailStaleRollout(n, g))} : n \in Nodes, g \in Generations})
  \cup {Agent(n, ReportConfig(n, g, status)) :
          n \in Nodes, g \in Generations, status \in {"in_progress", "succeeded", "failed"}}

OtherTransactions ==
  {Other(UpdateNode(n)) : n \in Nodes} \cup {Other(SaveNodeCapabilities(n)) : n \in Nodes}
  \cup {Sweep(MarkOfflineNodes(sweep)) : sweep \in Sweeps}
  \cup {Other(locks) : locks \in {RotateRefreshToken, SaveRefreshToken, RevokeSession,
                                  CreateSession, CreateAccount, FeedDelivery}}

NoTransaction == Other(<<>>)
Transactions == RolloutTransactions \cup OtherTransactions

-----------------------------------------------------------------------------
Idle(p) == tx[p] = NoTransaction
HeldBy(p) == {tx[p].locks[i] : i \in 1..held[p]}
Wanted(p) == tx[p].locks[held[p] + 1]

Conflict(a, b) ==
  /\ a[1] = b[1]
  /\ "update" \in {a[2], b[2]} \/ (a[2] = "nokey" /\ b[2] = "nokey")

\* The other connections p waits for.
WaitsFor(p, q) ==
  /\ p # q
  /\ held[p] < Len(tx[p].locks)
  /\ \E lock \in HeldBy(q) : Conflict(Wanted(p), lock)

Waits == [p \in Procs |-> {q \in Procs : WaitsFor(p, q)}]

\* Those p waits for in the end: the least set that holds whom p waits for and
\* whom its members wait for.
Reached(waits, p) ==
  {q \in Procs : \A S \in SUBSET Procs :
     waits[p] \subseteq S /\ (\A r \in S : waits[r] \subseteq S) => q \in S}

\* Who is in a cycle of waits.
Deadlocked ==
  LET waits == Waits IN
  {p \in Procs : waits[p] # {} /\ p \in Reached(waits, p)}

Init ==
  /\ tx = [p \in Procs |-> NoTransaction]
  /\ held = [p \in Procs |-> 0]

\* Mutant: a connection is given to the next transaction before the last has ended.
BeginOnBusy(p) ==
  /\ \E t \in Transactions :
       /\ t.by = "worker" => \A q \in Procs : tx[q].by # "worker"
       /\ tx' = [tx EXCEPT ![p] = t]
  /\ UNCHANGED held

\* There is one worker, and it does one thing at a time.
Begin(p) ==
  /\ Idle(p)
  /\ \E t \in Transactions :
       /\ t.by = "worker" => \A q \in Procs : tx[q].by # "worker"
       /\ tx' = [tx EXCEPT ![p] = t]
  /\ UNCHANGED held

Acquire(p) ==
  /\ held[p] < Len(tx[p].locks)
  /\ \A q \in Procs : ~WaitsFor(p, q)
  /\ held' = [held EXCEPT ![p] = @ + 1]
  /\ UNCHANGED tx

Release(p) ==
  /\ tx' = [tx EXCEPT ![p] = NoTransaction]
  /\ held' = [held EXCEPT ![p] = 0]

Commit(p) ==
  /\ ~Idle(p)
  /\ held[p] = Len(tx[p].locks)
  /\ Release(p)

\* PostgreSQL's choice of a victim.  A process that dies releases its locks, too.
Abort(p) ==
  /\ p \in Deadlocked
  /\ Release(p)

Next == \E p \in Procs : Begin(p) \/ Acquire(p) \/ Commit(p) \/ Abort(p)

Spec == Init /\ [][Next]_vars

-----------------------------------------------------------------------------
(* Properties.                                                             *)

\* Connections hold the locks of their transaction in its order, and no two of
\* them locks that conflict.
TypeOK ==
  /\ tx \in [Procs -> Transactions \cup {NoTransaction}]
  /\ \A p \in Procs : held[p] \in 0..Len(tx[p].locks)
  /\ \A p, q \in Procs : p # q => \A a \in HeldBy(p), b \in HeldBy(q) : ~Conflict(a, b)

\* Whatever runs at a time, a cycle of waits consists of calls about the rollouts
\* of one node.  Logins, refreshes, accounts, feeds, heartbeats and the marking
\* of offline nodes lock in orders that fit together.
DeadlocksStayOnOneNode ==
  LET cycle == Deadlocked IN
  \A p \in cycle :
    /\ tx[p].node # {}
    /\ \E q \in cycle \ {p} : tx[q].node = tx[p].node

\* Administrators who create rollouts and roll them back lock each other out but
\* never deadlock: there is always an agent's call or the worker in the cycle.
NotAmongAdministrators ==
  Deadlocked # {} => \E q \in Deadlocked : tx[q].by # "admin"

\* An administrator's transaction has inserted its bundle: the row refers to the user.
Numbered(p) == tx[p].by = "admin" /\ Lock(User, "share") \in HeldBy(p)

\* Creations and rollbacks count the bundles of a node and insert the next one in two
\* statements.  No two of them have a new bundle of one node that the other cannot see
\* yet, so none gets a number another one has, whichever rollouts they roll back.
NumberedOneByOne ==
  \A p, q \in Procs : p # q /\ Numbered(p) /\ Numbered(q) => tx[p].node # tx[q].node
=============================================================================
