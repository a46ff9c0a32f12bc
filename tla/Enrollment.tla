------------------------------ MODULE Enrollment ------------------------------
(***************************************************************************)
(* How an empty control plane gets its administrator and its nodes: the    *)
(* first login (AuthenticateOrBootstrap), bootstrap tokens, and agents that*)
(* register with a token or with the string local-bootstrap (RegisterNode);*)
(* the tables users, tenants, bootstrap_tokens and nodes.                  *)
(*                                                                         *)
(* The first tenant has the slug 'default', which is unique, and is made by*)
(* whoever comes first: a transaction that inserts a slug another one has  *)
(* inserted but not committed waits for it, and one that finds it committed*)
(* is aborted.  Every other tenant is younger and needs an administrator,  *)
(* so tokens and nodes all belong to this one.                             *)
(*                                                                         *)
(* Not modelled: the node's name (a count that nothing reads), and a second*)
(* registration of an agent while its first one is still being served.     *)
(***************************************************************************)
EXTENDS Integers, FiniteSets

CONSTANTS
  Agents,      \* the node agents
  Tokens,      \* bound: the bootstrap tokens that can be issued
  Local,       \* the credential local-bootstrap
  Credential,  \* Credential[a]: what agent a is configured with
  Operators,   \* the people who try to log in, each with an email of their own
  MaxFaults    \* bound: aborted transactions, lost answers, failing renewals

ASSUME EnrollmentAssumption ==
  /\ Credential \in [Agents -> Tokens \cup {Local}]
  /\ Local \notin Tokens
  /\ MaxFaults \in Nat

VARIABLES
  tenant,  \* who made the tenant 'default', once that is committed
  admins,  \* the operators with a row in users
  token,   \* token[t]: the row of bootstrap token t
  made,    \* made[c]: how many nodes were registered with credential c
  agent,   \* agent[a]: whether a has the id of a node, or looks for another
  reg,     \* reg[a]: how far the transaction that registers a has come
  login,   \* login[o]: how far the transaction of a first login of o has come
  faults   \* faults so far

vars == <<tenant, admins, token, made, agent, reg, login, faults>>

Credentials == Tokens \cup {Local}

TypeOK ==
  /\ tenant \in {"none", "agent", "operator"}
  /\ admins \in SUBSET Operators
  /\ token \in [Tokens -> [issued : BOOLEAN, used : BOOLEAN, expired : BOOLEAN]]
  /\ made \in [Credentials -> Nat]
  /\ agent \in [Agents -> {"new", "enrolled", "again"}]
  /\ reg \in [Agents -> {"idle", "counted", "tenantless", "inserted", "entitled"}]
  /\ \A a \in Agents : reg[a] # "idle" => agent[a] # "enrolled"
  /\ login \in [Operators -> {"idle", "first", "inserted"}]
  /\ faults \in 0..MaxFaults

Init ==
  /\ tenant = "none"
  /\ admins = {}
  /\ token = [t \in Tokens |-> [issued |-> FALSE, used |-> FALSE, expired |-> FALSE]]
  /\ made = [c \in Credentials |-> 0]
  /\ agent = [a \in Agents |-> "new"]
  /\ reg = [a \in Agents |-> "idle"]
  /\ login = [o \in Operators |-> "idle"]
  /\ faults = 0

Fault == faults < MaxFaults /\ faults' = faults + 1

\* Somebody inserted the slug 'default' and has not committed yet.
SlugHeld == (\E a \in Agents : reg[a] = "inserted") \/ (\E o \in Operators : login[o] = "inserted")

-----------------------------------------------------------------------------
(* The first login.  Once there is a user, a login only looks for its own. *)

CountUsers(o) ==
  /\ login[o] = "idle"
  /\ admins = {}
  /\ login' = [login EXCEPT ![o] = "first"]
  /\ UNCHANGED <<tenant, admins, token, made, agent, reg, faults>>

\* Mutant: the slug is made unique for every first login.
BootstrapAdminBeside(o) ==
  /\ login[o] = "first"
  /\ login' = [login EXCEPT ![o] = "inserted"]
  /\ UNCHANGED <<tenant, admins, token, made, agent, reg, faults>>

\* Mutant: the tenant is committed before the user is inserted.
BootstrapAdminAtOnce(o) ==
  /\ login[o] = "first"
  /\ ~SlugHeld
  /\ IF tenant = "none" THEN tenant' = "operator" /\ login' = [login EXCEPT ![o] = "inserted"]
                        ELSE login' = [login EXCEPT ![o] = "idle"] /\ UNCHANGED tenant
  /\ UNCHANGED <<admins, token, made, agent, reg, faults>>

\* A committed 'default' is a unique violation, which the login answers with 500.
BootstrapAdmin(o) ==
  /\ login[o] = "first"
  /\ ~SlugHeld
  /\ login' = [login EXCEPT ![o] = IF tenant = "none" THEN "inserted" ELSE "idle"]
  /\ UNCHANGED <<tenant, admins, token, made, agent, reg, faults>>

CommitLogin(o) ==
  /\ login[o] = "inserted"
  /\ tenant' = "operator"
  /\ admins' = admins \cup {o}
  /\ login' = [login EXCEPT ![o] = "idle"]
  /\ UNCHANGED <<token, made, agent, reg, faults>>

AbortLogin(o) ==
  /\ login[o] # "idle"
  /\ Fault
  /\ login' = [login EXCEPT ![o] = "idle"]
  /\ UNCHANGED <<tenant, admins, token, made, agent, reg>>

-----------------------------------------------------------------------------
(* Bootstrap tokens.                                                       *)

CreateBootstrapToken(t) ==
  /\ admins # {}
  /\ ~token[t].issued
  /\ token' = [token EXCEPT ![t].issued = TRUE]
  /\ UNCHANGED <<tenant, admins, made, agent, reg, login, faults>>

\* An hour goes by.
TokenExpires(t) ==
  /\ token[t].issued /\ ~token[t].expired
  /\ token' = [token EXCEPT ![t].expired = TRUE]
  /\ UNCHANGED <<tenant, admins, made, agent, reg, login, faults>>

\* Mutant: the age of a token is not looked at.
UsableAtAnyAge(t) == token[t].issued /\ ~token[t].used

Usable(t) == token[t].issued /\ ~token[t].used /\ ~token[t].expired

-----------------------------------------------------------------------------
(* RegisterNode, called by an agent without a node or after Renew failed.  *)

\* What is left of agent a when its registration fails: the id it had.
Before(a) == IF agent[a] = "again" THEN "enrolled" ELSE agent[a]

\* Mutant: the token is looked up first and marked used at the end.
ConsumeUnlocked(a) ==
  /\ agent[a] \in {"new", "again"} /\ reg[a] = "idle"
  /\ Credential[a] # Local /\ Usable(Credential[a])
  /\ reg' = [reg EXCEPT ![a] = "entitled"]
  /\ UNCHANGED <<tenant, admins, token, made, agent, login, faults>>

\* The UPDATE that marks the token used locks its row until the commit.
Consume(a) ==
  LET c == Credential[a] IN
  /\ agent[a] \in {"new", "again"} /\ reg[a] = "idle"
  /\ c # Local /\ Usable(c)
  /\ \A b \in Agents : reg[b] = "entitled" => Credential[b] # c
  /\ reg' = [reg EXCEPT ![a] = "entitled"]
  /\ UNCHANGED <<tenant, admins, token, made, agent, login, faults>>

\* local-bootstrap is good as long as no committed token is usable, those that
\* another transaction is about to use up included.
CountTokens(a) ==
  /\ agent[a] \in {"new", "again"} /\ reg[a] = "idle"
  /\ Credential[a] = Local
  /\ \A t \in Tokens : ~Usable(t)
  /\ reg' = [reg EXCEPT ![a] = "counted"]
  /\ UNCHANGED <<tenant, admins, token, made, agent, login, faults>>

\* 401 for everybody else.
Refuse(a) ==
  /\ agent[a] = "again" /\ reg[a] = "idle"
  /\ IF Credential[a] = Local THEN \E t \in Tokens : Usable(t) ELSE ~Usable(Credential[a])
  /\ agent' = [agent EXCEPT ![a] = "enrolled"]
  /\ UNCHANGED <<tenant, admins, token, made, reg, login, faults>>

\* ensureDefaultTenant: the oldest tenant, or one it inserts.
FindTenant(a) ==
  /\ reg[a] = "counted"
  /\ reg' = [reg EXCEPT ![a] = IF tenant = "none" THEN "tenantless" ELSE "entitled"]
  /\ UNCHANGED <<tenant, admins, token, made, agent, login, faults>>

InsertTenant(a) ==
  /\ reg[a] = "tenantless"
  /\ ~SlugHeld
  /\ tenant = "none"
  /\ reg' = [reg EXCEPT ![a] = "inserted"]
  /\ UNCHANGED <<tenant, admins, token, made, agent, login, faults>>

\* After a unique violation the SELECT that should find the tenant meets an
\* aborted transaction: the registration fails.
TenantTaken(a) ==
  /\ reg[a] = "tenantless"
  /\ tenant # "none"
  /\ reg' = [reg EXCEPT ![a] = "idle"]
  /\ agent' = [agent EXCEPT ![a] = Before(a)]
  /\ UNCHANGED <<tenant, admins, token, made, login, faults>>

RegisterNode(a) ==
  LET c == Credential[a] IN
  /\ reg[a] \in {"inserted", "entitled"}
  /\ made' = [made EXCEPT ![c] = @ + 1]
  /\ token' = IF c = Local THEN token ELSE [token EXCEPT ![c].used = TRUE]
  /\ tenant' = IF reg[a] = "inserted" THEN "agent" ELSE tenant
  /\ reg' = [reg EXCEPT ![a] = "idle"]

\* Mutant: the id of the node is not kept.
RegisteredForgetting(a) ==
  /\ RegisterNode(a)
  /\ UNCHANGED <<admins, agent, login, faults>>

Registered(a) ==
  /\ RegisterNode(a)
  /\ agent' = [agent EXCEPT ![a] = "enrolled"]
  /\ UNCHANGED <<admins, login, faults>>

AnswerLost(a) ==
  /\ RegisterNode(a)
  /\ Fault
  /\ agent' = [agent EXCEPT ![a] = Before(a)]
  /\ UNCHANGED <<admins, login>>

\* Mutant: the transaction is not rolled back.
AbortRegistrationLeaking(a) ==
  /\ reg[a] # "idle"
  /\ Fault
  /\ agent' = [agent EXCEPT ![a] = Before(a)]
  /\ UNCHANGED <<tenant, admins, token, made, reg, login>>

AbortRegistration(a) ==
  /\ reg[a] # "idle"
  /\ Fault
  /\ reg' = [reg EXCEPT ![a] = "idle"]
  /\ agent' = [agent EXCEPT ![a] = Before(a)]
  /\ UNCHANGED <<tenant, admins, token, made, login>>

\* Any error of Renew makes the agent register once more.
RenewFails(a) ==
  /\ agent[a] = "enrolled"
  /\ Fault
  /\ agent' = [agent EXCEPT ![a] = "again"]
  /\ UNCHANGED <<tenant, admins, token, made, reg, login>>

-----------------------------------------------------------------------------
LoginStep(o) == CountUsers(o) \/ BootstrapAdmin(o) \/ CommitLogin(o)

RegistrationStep(a) ==
  \/ Consume(a) \/ CountTokens(a) \/ Refuse(a)
  \/ FindTenant(a) \/ InsertTenant(a) \/ TenantTaken(a) \/ Registered(a)

Next ==
  \/ \E o \in Operators : LoginStep(o) \/ AbortLogin(o)
  \/ \E t \in Tokens : CreateBootstrapToken(t) \/ TokenExpires(t)
  \/ \E a \in Agents : \/ RegistrationStep(a) \/ AnswerLost(a) \/ AbortRegistration(a)
                       \/ RenewFails(a)

Spec == Init /\ [][Next]_vars

\* Operators try again and agents run their cycle for ever, transactions end,
\* and time goes by.  Nobody owes a token.
Fairness ==
  /\ \A o \in Operators : WF_vars(LoginStep(o))
  /\ \A a \in Agents : WF_vars(RegistrationStep(a))
  /\ \A t \in Tokens : WF_vars(TokenExpires(t))

FairSpec == Spec /\ Fairness

-----------------------------------------------------------------------------
(* Properties.                                                             *)

\* "Bootstrap tokens are one-time": however many agents present a token at a
\* time, whatever aborts and whoever tries again after a lost answer, it
\* registers at most one node, and it is used up exactly if it did.
TokenEnrollsOne ==
  \A t \in Tokens : made[t] <= 1 /\ (token[t].used <=> made[t] = 1)

\* The users are counted without a lock, and still two first logins at a time
\* never make two administrators: the unique slug 'default' decides.
OneAdmin == \A o, p \in admins : o = p

\* The rows of nodes: the k-th that was registered with credential c.
Rows(c) == {<<c, k>> : k \in 1..made[c]}
NodeRows == UNION {Rows(c) : c \in Credentials}
WithNode == {a \in Agents : agent[a] # "new"}

\* Nodes without an agent come from faults only, one each: a lost answer or a
\* renewal that failed. Losing a race for a token or for the tenant makes none.
OrphansFromFaultsOnly == Cardinality(NodeRows) <= faults + Cardinality(WithNode)

\* An agent that relies on local-bootstrap gets a node in the end: an issued
\* token keeps it out for an hour only, and so does a lost race for the tenant
\* for one cycle, although ensureDefaultTenant's second SELECT never works.
LocalAgentEnrolls ==
  \A a \in Agents : Credential[a] = Local => <>(agent[a] # "new")

\* The first login of a control plane without users makes its administrator:
\* what the integration test (app_integration_test.go:39) expects of a new database.
FirstLoginServed == <>(admins # {})

\* What holds instead: it does unless an agent was faster.  Logins that race or
\* are aborted half way leave nothing behind that keeps the next one out.
FirstLoginServedUnlessAgentFirst == [](tenant # "agent") => FirstLoginServed
=============================================================================
