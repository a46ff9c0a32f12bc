--------------------------- MODULE EnrollmentProofs ---------------------------
(* A bootstrap token registers at most one node, and an empty control plane *)
(* gets at most one administrator, for every set of agents, tokens and      *)
(* operators and any number of faults.                                      *)
EXTENDS Enrollment, FiniteSetTheorems, TLAPS

\* Only an agent that holds the lock of an unused token spends it.
ClaimsHold ==
  /\ \A a \in Agents : reg[a] = "entitled" /\ Credential[a] # Local =>
       token[Credential[a]].issued /\ ~token[Credential[a]].used
  /\ \A a, b \in Agents :
       /\ reg[a] = "entitled" /\ reg[b] = "entitled"
       /\ Credential[a] = Credential[b] /\ Credential[a] # Local
       => a = b
  /\ \A a \in Agents : reg[a] \in {"counted", "tenantless", "inserted"} => Credential[a] = Local

\* Nobody but one transaction is about to make the tenant, and only while there is none.
SlugOnce ==
  /\ \A a, b \in Agents : reg[a] = "inserted" /\ reg[b] = "inserted" => a = b
  /\ \A o, p \in Operators : login[o] = "inserted" /\ login[p] = "inserted" => o = p
  /\ \A a \in Agents, o \in Operators : ~(reg[a] = "inserted" /\ login[o] = "inserted")
  /\ SlugHeld => tenant = "none"

\* An administrator came with the tenant.
AdminOwnsTenant == admins # {} => tenant = "operator"

Inv == TypeOK /\ TokenEnrollsOne /\ ClaimsHold /\ SlugOnce /\ AdminOwnsTenant /\ OneAdmin

-----------------------------------------------------------------------------
\* At first no tenant, token or login is there.
LEMMA InitInv == ASSUME Init PROVE Inv
  BY EnrollmentAssumption DEF Init, Inv, TypeOK, TokenEnrollsOne, ClaimsHold, SlugOnce, SlugHeld,
    AdminOwnsTenant, OneAdmin, Credentials

\* Marking a field of one token keeps the rows well formed.
Row == [issued : BOOLEAN, used : BOOLEAN, expired : BOOLEAN]

\* The rows of tokens with one field changed are rows again.
LEMMA RowTypes ==
  ASSUME NEW r \in Row
  PROVE  /\ [r EXCEPT !.issued = TRUE] \in Row
         /\ [r EXCEPT !.used = TRUE] \in Row
         /\ [r EXCEPT !.expired = TRUE] \in Row
BY DEF Row

\* Steps that only move a login, or that end one without a trace.
LEMMA LoginKeepsInv ==
  ASSUME Inv, NEW o \in Operators, CountUsers(o) \/ BootstrapAdmin(o) \/ AbortLogin(o)
  PROVE  Inv'
<1> USE EnrollmentAssumption DEF CountUsers, BootstrapAdmin, AbortLogin, Fault
<1>1. TypeOK' BY DEF Inv, TypeOK
<1>2. TokenEnrollsOne' /\ AdminOwnsTenant' /\ OneAdmin'
  BY DEF Inv, TokenEnrollsOne, AdminOwnsTenant, OneAdmin
<1>3. ClaimsHold' BY DEF Inv, ClaimsHold
<1>4. SlugOnce' BY DEF Inv, TypeOK, SlugOnce, SlugHeld
<1> QED BY <1>1, <1>2, <1>3, <1>4 DEF Inv

\* A login commits when no tenant was committed and nobody is administrator yet.
LEMMA CommitLoginKeepsInv ==
  ASSUME Inv, NEW o \in Operators, CommitLogin(o)
  PROVE  Inv'
<1> USE EnrollmentAssumption DEF CommitLogin
<1>1. tenant = "none" /\ admins = {}
  BY DEF Inv, SlugOnce, SlugHeld, AdminOwnsTenant
<1>2. TypeOK' BY DEF Inv, TypeOK
<1>3. TokenEnrollsOne' BY DEF Inv, TokenEnrollsOne
<1>4. AdminOwnsTenant' BY DEF Inv, AdminOwnsTenant
<1>5. OneAdmin' BY <1>1 DEF OneAdmin
<1>6. ClaimsHold' BY DEF Inv, ClaimsHold
<1>7. SlugOnce' BY DEF Inv, TypeOK, SlugOnce, SlugHeld
<1> QED BY <1>2, <1>3, <1>4, <1>5, <1>6, <1>7 DEF Inv

\* That a token is created or expires gives nobody a claim to it.
LEMMA TokenStepKeepsInv ==
  ASSUME Inv, NEW t \in Tokens, CreateBootstrapToken(t) \/ TokenExpires(t)
  PROVE  Inv'
<1> USE EnrollmentAssumption DEF CreateBootstrapToken, TokenExpires
<1>1. TypeOK'
  <2>1. token \in [Tokens -> Row] BY DEF Inv, TypeOK, Row
  <2>2. token' \in [Tokens -> Row]
    <3>1. token[t] \in Row BY <2>1
    <3>2. /\ [token EXCEPT ![t].issued = TRUE] \in [Tokens -> Row]
          /\ [token EXCEPT ![t].expired = TRUE] \in [Tokens -> Row]
      BY <2>1, <3>1, RowTypes
    <3> QED BY <3>2
  <2>3. UNCHANGED <<tenant, admins, made, agent, reg, login, faults>> OBVIOUS
  <2> QED BY <2>2, <2>3 DEF Inv, TypeOK, Row
<1>2. TokenEnrollsOne' BY DEF Inv, TypeOK, TokenEnrollsOne
<1>3. AdminOwnsTenant' /\ OneAdmin' BY DEF Inv, AdminOwnsTenant, OneAdmin
<1>4. ClaimsHold'
  <2>1. \A s \in Tokens : token'[s].used = token[s].used
                          /\ (token[s].issued => token'[s].issued)
    BY DEF Inv, TypeOK
  <2> QED BY <2>1 DEF Inv, ClaimsHold
<1>5. SlugOnce' BY DEF Inv, SlugOnce, SlugHeld
<1> QED BY <1>1, <1>2, <1>3, <1>4, <1>5 DEF Inv

\* An agent takes the lock of a token, finds the tenant or inserts it.
LEMMA ClaimKeepsInv ==
  ASSUME Inv, NEW a \in Agents,
         Consume(a) \/ CountTokens(a) \/ FindTenant(a) \/ InsertTenant(a)
  PROVE  Inv'
<1> USE EnrollmentAssumption DEF Consume, CountTokens, FindTenant, InsertTenant, Usable
<1>1. TypeOK' BY DEF Inv, TypeOK
<1>2. TokenEnrollsOne' /\ AdminOwnsTenant' /\ OneAdmin'
  BY DEF Inv, TokenEnrollsOne, AdminOwnsTenant, OneAdmin
<1>3. ClaimsHold' BY DEF Inv, TypeOK, ClaimsHold
<1>4. SlugOnce' BY DEF Inv, TypeOK, SlugOnce, SlugHeld
<1> QED BY <1>1, <1>2, <1>3, <1>4 DEF Inv

\* A registration is refused, loses the race for the tenant or is aborted, or Renew fails.
LEMMA GiveUpKeepsInv ==
  ASSUME Inv, NEW a \in Agents,
         Refuse(a) \/ TenantTaken(a) \/ AbortRegistration(a) \/ RenewFails(a)
  PROVE  Inv'
<1> USE EnrollmentAssumption DEF Refuse, TenantTaken, AbortRegistration, RenewFails, Before, Fault
<1>1. TypeOK' BY DEF Inv, TypeOK
<1>2. TokenEnrollsOne' /\ AdminOwnsTenant' /\ OneAdmin'
  BY DEF Inv, TokenEnrollsOne, AdminOwnsTenant, OneAdmin
<1>3. ClaimsHold' BY DEF Inv, TypeOK, ClaimsHold
<1>4. SlugOnce' BY DEF Inv, TypeOK, SlugOnce, SlugHeld
<1> QED BY <1>1, <1>2, <1>3, <1>4 DEF Inv

\* A registration commits, whether or not its answer arrives.
LEMMA RegisterKeepsInv ==
  ASSUME Inv, NEW a \in Agents, Registered(a) \/ AnswerLost(a)
  PROVE  Inv'
<1> USE EnrollmentAssumption DEF Registered, AnswerLost, RegisterNode, Before, Fault
<1> DEFINE c == Credential[a]
<1>1. TypeOK'
  <2>1. c \in Credentials /\ (c = Local \/ c \in Tokens) BY DEF Credentials
  <2>2. token' \in [Tokens -> Row]
    <3>1. token \in [Tokens -> Row] BY DEF Inv, TypeOK, Row
    <3>2. token' = token \/ (c \in Tokens /\ token' = [token EXCEPT ![c].used = TRUE])
      BY <2>1
    <3>3. c \in Tokens => [token EXCEPT ![c].used = TRUE] \in [Tokens -> Row]
      BY <3>1, RowTypes
    <3> QED BY <3>1, <3>2, <3>3
  <2>3. made' \in [Credentials -> Nat] BY <2>1 DEF Inv, TypeOK
  <2>4. agent' \in [Agents -> {"new", "enrolled", "again"}] BY DEF Inv, TypeOK
  <2>5. /\ reg' \in [Agents -> {"idle", "counted", "tenantless", "inserted", "entitled"}]
        /\ \A b \in Agents : reg'[b] # "idle" => agent'[b] # "enrolled"
    BY DEF Inv, TypeOK
  <2>6. /\ tenant' \in {"none", "agent", "operator"} /\ admins' \in SUBSET Operators
        /\ login' \in [Operators -> {"idle", "first", "inserted"}]
        /\ faults' \in 0..MaxFaults
    BY DEF Inv, TypeOK
  <2> QED BY <2>2, <2>3, <2>4, <2>5, <2>6 DEF TypeOK, Row
<1>2. TokenEnrollsOne'
  <2>1. c # Local => c \in Tokens /\ made[c] = 0 /\ reg[a] = "entitled"
    <3> SUFFICES ASSUME c # Local PROVE c \in Tokens /\ made[c] = 0 /\ reg[a] = "entitled"
      OBVIOUS
    <3>1. c \in Tokens BY DEF Credentials
    <3>2. reg[a] = "entitled" BY DEF Inv, ClaimsHold
    <3>3. ~token[c].used BY <3>2 DEF Inv, ClaimsHold
    <3>4. made[c] \in Nat /\ made[c] <= 1 /\ made[c] # 1
      BY <3>1, <3>3 DEF Inv, TypeOK, Credentials, TokenEnrollsOne
    <3> QED BY <3>1, <3>2, <3>4
  <2>2. SUFFICES ASSUME NEW t \in Tokens
                 PROVE  made'[t] <= 1 /\ (token'[t].used <=> made'[t] = 1)
    BY DEF TokenEnrollsOne
  <2>3. CASE t = c BY <2>1, <2>3 DEF Inv, TypeOK, Credentials
  <2>4. CASE t # c
    <3>1. made'[t] = made[t] /\ token'[t] = token[t] BY <2>4 DEF Inv, TypeOK, Credentials
    <3> QED BY <3>1 DEF Inv, TokenEnrollsOne
  <2> QED BY <2>3, <2>4
<1>3. AdminOwnsTenant' /\ OneAdmin'
  BY DEF Inv, AdminOwnsTenant, OneAdmin, SlugOnce, SlugHeld
<1>4. ClaimsHold'
  <2>1. \A b \in Agents : reg'[b] = IF b = a THEN "idle" ELSE reg[b] BY DEF Inv, TypeOK
  <2>2. \A b \in Agents :
          reg'[b] = "entitled" /\ Credential[b] # Local => token'[Credential[b]] = token[Credential[b]]
    BY <2>1 DEF Inv, TypeOK, ClaimsHold
  <2> QED BY <2>1, <2>2 DEF Inv, ClaimsHold
<1>5. SlugOnce' BY DEF Inv, TypeOK, SlugOnce, SlugHeld
<1> QED BY <1>1, <1>2, <1>3, <1>4, <1>5 DEF Inv

\* Every step keeps the invariant: one case for each kind of action.
LEMMA NextInv == ASSUME Inv, [Next]_vars PROVE Inv'
<1>1. CASE UNCHANGED vars
  BY <1>1 DEF vars, Inv, TypeOK, TokenEnrollsOne, ClaimsHold, SlugOnce, SlugHeld, AdminOwnsTenant,
    OneAdmin
<1>2. CASE \E o \in Operators : LoginStep(o) \/ AbortLogin(o)
  BY <1>2, LoginKeepsInv, CommitLoginKeepsInv DEF LoginStep
<1>3. CASE \E t \in Tokens : CreateBootstrapToken(t) \/ TokenExpires(t)
  BY <1>3, TokenStepKeepsInv
<1>4. CASE \E a \in Agents : \/ RegistrationStep(a) \/ AnswerLost(a) \/ AbortRegistration(a)
                             \/ RenewFails(a)
  BY <1>4, ClaimKeepsInv, GiveUpKeepsInv, RegisterKeepsInv DEF RegistrationStep
<1> QED BY <1>1, <1>2, <1>3, <1>4 DEF Next

\* The inductive invariant holds in every behaviour.
LEMMA AlwaysInv == Spec => []Inv
<1>1. Init => Inv BY InitInv
<1>2. Inv /\ [Next]_vars => Inv' BY NextInv
<1> QED BY <1>1, <1>2, PTL DEF Spec

-----------------------------------------------------------------------------
\* The registrations, logins and tokens of an empty control plane keep to their types.
THEOREM TypeCorrect == Spec => []TypeOK
<1>1. Inv => TypeOK BY DEF Inv
<1> QED BY <1>1, AlwaysInv, PTL

\* The UPDATE that consumes a bootstrap token makes it one-time: whatever races, aborts and lost
\* answers, a token registers at most one node and is marked used exactly if it did.
THEOREM TokensAreOneTime == Spec => []TokenEnrollsOne
<1>1. Inv => TokenEnrollsOne BY DEF Inv
<1> QED BY <1>1, AlwaysInv, PTL

\* The unique slug of the first tenant, not the unlocked count of users, leaves
\* at most one of any number of first logins the administrator.
THEOREM AtMostOneAdmin == Spec => []OneAdmin
<1>1. Inv => OneAdmin BY DEF Inv
<1> QED BY <1>1, AlwaysInv, PTL

-----------------------------------------------------------------------------
(* Nodes and faults.                                                       *)

\* Agents that will register once more, at the expense of the fault that made Renew fail.
Again == {a \in Agents : agent[a] = "again"}

\* Every node is accounted for by an agent or by a fault, and so is every one an
\* agent is about to register again.
Accounted ==
  /\ IsFiniteSet(NodeRows) /\ IsFiniteSet(WithNode)
  /\ Cardinality(NodeRows) + Cardinality(Again) <= faults + Cardinality(WithNode)

\* A registration adds one row.
LEMMA RowAdded ==
  ASSUME made \in [Credentials -> Nat], IsFiniteSet(NodeRows), NEW c \in Credentials,
         made' = [made EXCEPT ![c] = @ + 1]
  PROVE  IsFiniteSet(NodeRows)' /\ Cardinality(NodeRows)' = Cardinality(NodeRows) + 1
<1> DEFINE new == <<c, made[c] + 1>>
<1>1. \A d \in Credentials : Rows(d)' = IF d = c THEN Rows(d) \cup {new} ELSE Rows(d)
  <2> SUFFICES ASSUME NEW d \in Credentials
               PROVE  Rows(d)' = IF d = c THEN Rows(d) \cup {new} ELSE Rows(d)
    OBVIOUS
  <2>1. CASE d = c
    <3>1. 1..(made[c] + 1) = 1..made[c] \cup {made[c] + 1} OBVIOUS
    <3>2. made'[c] = made[c] + 1 OBVIOUS
    <3> QED BY <2>1, <3>1, <3>2 DEF Rows
  <2>2. CASE d # c BY <2>2 DEF Rows
  <2> QED BY <2>1, <2>2
<1>2. NodeRows' = NodeRows \cup {new} BY <1>1 DEF NodeRows
<1>3. new \notin NodeRows BY DEF NodeRows, Rows
<1> HIDE DEF new
<1> QED BY <1>2, <1>3, FS_AddElement

\* What one agent that changes its standing does to the counts.
LEMMA StandingCounts ==
  ASSUME TypeOK, IsFiniteSet(WithNode), NEW a \in Agents, NEW x \in {"new", "enrolled", "again"},
         agent' = [agent EXCEPT ![a] = x], x = "new" => agent[a] = "new"
  PROVE  /\ IsFiniteSet(WithNode)'
         /\ Cardinality(WithNode) \in Nat /\ Cardinality(Again) \in Nat
         /\ Cardinality(WithNode)' =
              Cardinality(WithNode) + (IF agent[a] = "new" /\ x # "new" THEN 1 ELSE 0)
         /\ Cardinality(Again)' =
              Cardinality(Again) + (IF x = "again" THEN 1 ELSE 0) - (IF agent[a] = "again" THEN 1 ELSE 0)
<1>1. IsFiniteSet(Again) BY FS_Subset DEF Again, WithNode
<1>2. Cardinality(WithNode) \in Nat /\ Cardinality(Again) \in Nat BY <1>1, FS_CardinalityType
<1>3. WithNode' = (IF x # "new" THEN WithNode \cup {a} ELSE WithNode)
  BY DEF TypeOK, WithNode
<1>4. IsFiniteSet(WithNode)' /\ Cardinality(WithNode)' =
              Cardinality(WithNode) + (IF agent[a] = "new" /\ x # "new" THEN 1 ELSE 0)
  <2>1. a \in WithNode <=> agent[a] # "new" BY DEF WithNode
  <2> QED BY <1>2, <1>3, <2>1, FS_AddElement
<1>5. Again' = (IF x = "again" THEN Again \cup {a} ELSE Again \ {a})
  BY DEF TypeOK, Again
<1>6. a \in Again <=> agent[a] = "again" BY DEF Again
<1>7. Cardinality(Again)' =
        Cardinality(Again) + (IF x = "again" THEN 1 ELSE 0) - (IF agent[a] = "again" THEN 1 ELSE 0)
  <2>1. CASE x = "again"
    <3>1. Again' = Again \cup {a} BY <1>5, <2>1
    <3>2. Cardinality(Again \cup {a}) = IF a \in Again THEN Cardinality(Again) ELSE Cardinality(Again) + 1
      BY <1>1, FS_AddElement
    <3> QED BY <1>2, <1>6, <2>1, <3>1, <3>2
  <2>2. CASE x # "again"
    <3>1. Again' = Again \ {a} BY <1>5, <2>2
    <3>2. Cardinality(Again \ {a}) = IF a \in Again THEN Cardinality(Again) - 1 ELSE Cardinality(Again)
      BY <1>1, FS_RemoveElement
    <3> QED BY <1>2, <1>6, <2>2, <3>1, <3>2
  <2> QED BY <2>1, <2>2
<1> QED BY <1>2, <1>4, <1>7

\* At first there are no rows to account for.
LEMMA InitAccounted == ASSUME Init PROVE Accounted
<1>1. NodeRows = {} /\ WithNode = {} /\ Again = {}
  BY DEF Init, NodeRows, Rows, WithNode, Again, Credentials
<1> QED BY <1>1, FS_EmptySet DEF Init, Accounted

\* Every step keeps the account of rows, agents and faults.
LEMMA NextAccounted == ASSUME Inv, Accounted, [Next]_vars PROVE Accounted'
<1> USE EnrollmentAssumption
<1>0. /\ TypeOK /\ faults \in Nat /\ Cardinality(NodeRows) \in Nat
      /\ made \in [Credentials -> Nat]
  BY FS_CardinalityType DEF Inv, TypeOK, Accounted
\* Steps of operators and tokens, and those of agents that keep their standing.
<1>1. ASSUME UNCHANGED <<made, agent>>, faults' = faults \/ faults' = faults + 1 PROVE Accounted'
  <2>1. UNCHANGED <<NodeRows, WithNode, Again>>
    BY <1>1 DEF NodeRows, Rows, WithNode, Again
  <2>2. IsFiniteSet(Again) BY FS_Subset DEF Accounted, Again, WithNode
  <2>3. Cardinality(WithNode) \in Nat /\ Cardinality(Again) \in Nat
    BY <2>2, FS_CardinalityType DEF Accounted
  <2> QED BY <1>0, <1>1, <2>1, <2>3 DEF Accounted
\* An agent gives up, or must register again.
<1>2. ASSUME NEW a \in Agents, NEW x \in {"new", "enrolled", "again"},
             agent' = [agent EXCEPT ![a] = x], UNCHANGED made,
             x = "new" => agent[a] = "new",
             \/ faults' = faults /\ (x = "again" => agent[a] = "again")
             \/ faults' = faults + 1
      PROVE  Accounted'
  <2>1. UNCHANGED NodeRows BY <1>2 DEF NodeRows, Rows
  <2>2. /\ IsFiniteSet(WithNode)'
        /\ Cardinality(WithNode) \in Nat /\ Cardinality(Again) \in Nat
        /\ Cardinality(WithNode)' =
             Cardinality(WithNode) + (IF agent[a] = "new" /\ x # "new" THEN 1 ELSE 0)
        /\ Cardinality(Again)' =
             Cardinality(Again) + (IF x = "again" THEN 1 ELSE 0) - (IF agent[a] = "again" THEN 1 ELSE 0)
    BY <1>0, <1>2, StandingCounts DEF Accounted
  <2>3. Cardinality(NodeRows)' + Cardinality(Again)' <= faults' + Cardinality(WithNode)'
    BY <1>0, <1>2, <2>1, <2>2 DEF Accounted
  <2> QED BY <2>1, <2>2, <2>3 DEF Accounted
\* An agent gets a node, and knows it unless a fault intervenes.
<1>3. ASSUME NEW a \in Agents, NEW x \in {"new", "enrolled"}, RegisterNode(a),
             agent' = [agent EXCEPT ![a] = x], x = "new" => agent[a] = "new",
             \/ faults' = faults /\ x = "enrolled"
             \/ faults' = faults + 1
      PROVE  Accounted'
  <2>1. Credential[a] \in Credentials BY DEF Credentials
  <2>2. IsFiniteSet(NodeRows)' /\ Cardinality(NodeRows)' = Cardinality(NodeRows) + 1
    BY <1>0, <1>3, <2>1, RowAdded DEF RegisterNode, Accounted
  <2>3. agent[a] \in {"new", "again"} BY <1>0, <1>3 DEF RegisterNode, TypeOK
  <2>4. /\ IsFiniteSet(WithNode)'
        /\ Cardinality(WithNode) \in Nat /\ Cardinality(Again) \in Nat
        /\ Cardinality(WithNode)' =
             Cardinality(WithNode) + (IF agent[a] = "new" /\ x # "new" THEN 1 ELSE 0)
        /\ Cardinality(Again)' =
             Cardinality(Again) + (IF x = "again" THEN 1 ELSE 0) - (IF agent[a] = "again" THEN 1 ELSE 0)
    <3>1. x \in {"new", "enrolled", "again"} OBVIOUS
    <3> QED BY <1>0, <1>3, <3>1, StandingCounts DEF Accounted
  <2>5. Cardinality(NodeRows)' + Cardinality(Again)' <= faults' + Cardinality(WithNode)'
    BY <1>0, <1>3, <2>2, <2>3, <2>4 DEF Accounted
  <2> QED BY <2>2, <2>4, <2>5 DEF Accounted
<1>4. CASE UNCHANGED vars BY <1>1, <1>4 DEF vars
<1>5. CASE \E o \in Operators : LoginStep(o) \/ AbortLogin(o)
  BY <1>1, <1>5 DEF LoginStep, CountUsers, BootstrapAdmin, CommitLogin, AbortLogin, Fault
<1>6. CASE \E t \in Tokens : CreateBootstrapToken(t) \/ TokenExpires(t)
  BY <1>1, <1>6 DEF CreateBootstrapToken, TokenExpires
<1>7. ASSUME NEW a \in Agents,
             Consume(a) \/ CountTokens(a) \/ FindTenant(a) \/ InsertTenant(a)
      PROVE  Accounted'
  BY <1>1, <1>7 DEF Consume, CountTokens, FindTenant, InsertTenant
<1>8. ASSUME NEW a \in Agents,
             \/ Refuse(a) \/ TenantTaken(a) \/ AbortRegistration(a) \/ RenewFails(a)
      PROVE  Accounted'
  <2>1. Before(a) \in {"new", "enrolled"} /\ (Before(a) = "new" => agent[a] = "new")
    BY <1>0 DEF Before, TypeOK
  <2> QED BY <1>2, <1>8, <2>1 DEF Refuse, TenantTaken, AbortRegistration, RenewFails, Fault
<1>9. ASSUME NEW a \in Agents, Registered(a) \/ AnswerLost(a) PROVE Accounted'
  <2>1. Before(a) \in {"new", "enrolled"} /\ (Before(a) = "new" => agent[a] = "new")
    BY <1>0 DEF Before, TypeOK
  <2> QED BY <1>3, <1>9, <2>1 DEF Registered, AnswerLost, Fault
<1> QED BY <1>4, <1>5, <1>6, <1>7, <1>8, <1>9 DEF Next, RegistrationStep

\* However often answers are lost and renewals fail, and whoever races for a token or
\* the tenant, RegisterNode never leaves more nodes without an agent than there were faults.
THEOREM FaultsAccountForOrphans == Spec => []OrphansFromFaultsOnly
<1>1. Inv /\ Accounted => OrphansFromFaultsOnly
  <2> SUFFICES ASSUME Inv, Accounted PROVE OrphansFromFaultsOnly
    OBVIOUS
  <2>1. IsFiniteSet(Again) BY FS_Subset DEF Accounted, Again, WithNode
  <2>2. Cardinality(Again) \in Nat /\ Cardinality(NodeRows) \in Nat /\ Cardinality(WithNode) \in Nat
    BY <2>1, FS_CardinalityType DEF Accounted
  <2>3. faults \in Nat BY EnrollmentAssumption DEF Inv, TypeOK
  <2> QED BY <2>2, <2>3 DEF Accounted, OrphansFromFaultsOnly
<1>2. Init => Accounted BY InitAccounted
<1>3. Inv /\ Accounted /\ [Next]_vars => Accounted' BY NextAccounted
<1> QED BY <1>1, <1>2, <1>3, AlwaysInv, PTL DEF Spec
=============================================================================
