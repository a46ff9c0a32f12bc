---------------------------- MODULE CommerceProofs ----------------------------
(* No account is created twice or answered without its audit unless a fault *)
(* cost it, and every account has its whole trial, for any number of        *)
(* requests, accounts and faults.                                           *)
EXTENDS Commerce, FiniteSetTheorems, TLAPS

\* A creation between its first insert and its commit.
MakingPhases == {"inserted", "subscribed", "ordered", "fed", "bootstrapped"}
Making(r) == call[r].op = "create" /\ call[r].phase \in MakingPhases

\* The rows of the trial a creation has inserted at a phase, an overview has looked for.
Inserted(phase) ==
  CASE phase = "inserted" -> {}
    [] phase = "subscribed" -> {"subscription"}
    [] phase = "ordered" -> {"subscription", "order"}
    [] phase = "fed" -> {"subscription", "order", "feed"}
    [] OTHER -> TrialRows
Looked(phase) ==
  CASE phase = "account" -> {}
    [] phase = "subscriptions" -> {"subscription"}
    [] phase = "orders" -> {"subscription", "order"}
    [] OTHER -> TrialRows \ {"token"}

\* What the phase of a request says of its arguments and its rows.
Fits(r) ==
  LET c == call[r] IN
  /\ c.phase = "asked" => c.has = {}
  /\ c.op = "patch" /\ c.phase = "asked" => c.arg \in {"active", "suspended", "unknown", ""}
  /\ Making(r) =>
       /\ c.arg \in Types /\ c.n \in (1..begun) \ Created
       /\ c.has = Inserted(c.phase)
       /\ c.phase # "inserted" => c.arg # "reseller"
  /\ c.op = "deliver" /\ c.phase \in {"found", "locked", "delivering"} => c.n \in Created
  /\ /\ c.op = "overview"
     /\ c.phase \in {"account", "subscriptions", "orders"} \/ (c.phase = "done" /\ c.n # 0)
     =>
       c.n \in Created /\ c.has = account[c.n].has \cap Looked(c.phase)

\* No two creations under way make the same account.
Apart == \A q, r \in Requests : Making(q) /\ Making(r) /\ q # r => call[q].n # call[r].n

AccountsWhole == \A n \in Created : account[n].has = Whole(account[n].type)

Open == {r \in Requests : call[r].op = "create" /\ call[r].phase \in {"asked"} \cup MakingPhases}
Committed == {r \in Requests : call[r].phase = "committed"}

\* Every account there is, every creation under way and every one yet to be
\* repeated was meant, or is owed to a fault.
IntentsCounted == Cardinality(Created) + Cardinality(Open) + failed <= intents + faults

\* A committed request still owes its audit row.
AuditOwed == Cardinality(Committed) <= unaudited

Inv ==
  /\ TypeOK
  /\ \A r \in Requests : Fits(r)
  /\ Apart /\ AccountsWhole
  /\ IntentsCounted /\ AuditOwed /\ AnsweredIsAudited

Bit(r, S) == IF r \in S THEN 1 ELSE 0

-----------------------------------------------------------------------------
(* Counting.                                                               *)

\* A set of requests is finite and has a number of members.
LEMMA FiniteParts ==
  ASSUME NEW S \in SUBSET Requests
  PROVE  IsFiniteSet(S) /\ Cardinality(S) \in Nat
BY CommerceAssumption, FS_Subset, FS_CardinalityType

\* Sets that differ at most in r.
LEMMA BitCounts ==
  ASSUME NEW S \in SUBSET Requests, NEW T \in SUBSET Requests, NEW r \in Requests,
         \A q \in Requests \ {r} : q \in S <=> q \in T
  PROVE  Cardinality(T) + Bit(r, S) = Cardinality(S) + Bit(r, T)
<1>1. IsFiniteSet(S) /\ Cardinality(S) \in Nat /\ IsFiniteSet(T) /\ Cardinality(T) \in Nat
  BY FiniteParts
<1>2. CASE r \in S /\ r \notin T
  <2>1. T = S \ {r} BY <1>2
  <2>2. Cardinality(T) = Cardinality(S) - 1 BY <1>1, <1>2, <2>1, FS_RemoveElement
  <2> QED BY <1>1, <1>2, <2>2 DEF Bit
<1>3. CASE r \notin S /\ r \in T
  <2>1. T = S \cup {r} BY <1>3
  <2>2. Cardinality(T) = Cardinality(S) + 1 BY <1>1, <1>3, <2>1, FS_AddElement
  <2> QED BY <1>1, <1>3, <2>2 DEF Bit
<1>4. CASE r \in S <=> r \in T
  <2>1. S = T BY <1>4
  <2> QED BY <1>1, <2>1 DEF Bit
<1> QED BY <1>2, <1>3, <1>4

\* The same of a set of accounts.
LEMMA FiniteAccounts ==
  ASSUME NEW S \in SUBSET Accounts
  PROVE  IsFiniteSet(S) /\ Cardinality(S) \in Nat
<1>1. IsFiniteSet(Accounts) BY CommerceAssumption, FS_Interval DEF Accounts
<1> QED BY <1>1, FS_Subset, FS_CardinalityType

-----------------------------------------------------------------------------
(* What the moves of a request leave in its row.                           *)

Phases == {"idle", "asked", "inserted", "subscribed", "ordered", "fed", "bootstrapped", "committed",
           "found", "locked", "delivering", "account", "subscriptions", "orders", "done"}
Args == Types \cup {"unknown", "active", "suspended", ""}

\* The row of a request that has not been made.
LEMMA NoCallRow ==
  /\ NoCall \in CallRow
  /\ NoCall.op = "none" /\ NoCall.phase = "idle" /\ NoCall.n = 0 /\ NoCall.has = {}
BY CommerceAssumption DEF NoCall, CallRow

\* Goto changes the phase of one request.
LEMMA GotoMoves ==
  ASSUME TypeOK, NEW r \in Requests, NEW p \in Phases, Goto(r, p)
  PROVE  /\ call' \in [Requests -> CallRow]
         /\ \A q \in Requests \ {r} : call'[q] = call[q]
         /\ call'[r].phase = p /\ call'[r].op = call[r].op
         /\ call'[r].n = call[r].n /\ call'[r].arg = call[r].arg /\ call'[r].has = call[r].has
<1>1. call[r] \in CallRow BY DEF TypeOK
<1> DEFINE row == [call[r] EXCEPT !.phase = p]
<1>2. /\ row \in CallRow /\ row.phase = p /\ row.has = call[r].has
      /\ row.op = call[r].op /\ row.n = call[r].n /\ row.arg = call[r].arg
  BY <1>1 DEF CallRow, Phases
<1>3. call' = [call EXCEPT ![r] = row] BY DEF Goto
<1> HIDE DEF row
<1> QED BY <1>2, <1>3 DEF TypeOK

\* A step that inserts or reads rows of the trial changes the phase and the rows.
MoveRows(r, p, h) == call' = [call EXCEPT ![r] = [call[r] EXCEPT !.phase = p, !.has = h]]

\* The rest of the request stays.
LEMMA RowsMove ==
  ASSUME TypeOK, NEW r \in Requests, NEW p \in Phases, NEW h \in SUBSET TrialRows,
         MoveRows(r, p, h)
  PROVE  /\ call' \in [Requests -> CallRow]
         /\ \A q \in Requests \ {r} : call'[q] = call[q]
         /\ call'[r].phase = p /\ call'[r].has = h /\ call'[r].op = call[r].op
         /\ call'[r].n = call[r].n /\ call'[r].arg = call[r].arg
<1>1. call[r] \in CallRow BY DEF TypeOK
<1> DEFINE row == [call[r] EXCEPT !.phase = p, !.has = h]
<1>2. /\ row \in CallRow /\ row.phase = p /\ row.has = h
      /\ row.op = call[r].op /\ row.n = call[r].n /\ row.arg = call[r].arg
  BY <1>1 DEF CallRow, Phases
<1>3. call' = [call EXCEPT ![r] = row] BY DEF MoveRows
<1> HIDE DEF row
<1> QED BY <1>2, <1>3 DEF TypeOK

\* Start gives an idle request its operation and arguments.
LEMMA StartMoves ==
  ASSUME TypeOK, NEW r \in Requests, NEW op \in {"create", "patch", "deliver", "overview"},
         NEW n \in 0..MaxAccounts, NEW arg \in Args, Start(r, op, n, arg)
  PROVE  /\ call' \in [Requests -> CallRow]
         /\ \A q \in Requests \ {r} : call'[q] = call[q]
         /\ call'[r].phase = "asked" /\ call'[r].op = op /\ call'[r].arg = arg /\ call'[r].has = {}
<1> DEFINE row == [NoCall EXCEPT !.op = op, !.phase = "asked", !.n = n, !.arg = arg]
<1>1. /\ row \in CallRow /\ row.phase = "asked" /\ row.op = op
      /\ row.arg = arg /\ row.has = {}
  BY NoCallRow DEF CallRow, Args
<1>2. call' = [call EXCEPT ![r] = row] BY DEF Start
<1> HIDE DEF row
<1> QED BY <1>1, <1>2 DEF TypeOK

\* A request that committed or ended keeps its operation and nothing else.
LEMMA EndMoves ==
  ASSUME TypeOK, NEW r \in Requests, NEW p \in {"committed", "done"},
         call' = [call EXCEPT ![r] = [NoCall EXCEPT !.phase = p, !.op = call[r].op]]
  PROVE  /\ call' \in [Requests -> CallRow]
         /\ \A q \in Requests \ {r} : call'[q] = call[q]
         /\ call'[r].phase = p /\ call'[r].n = 0
<1>1. call[r] \in CallRow BY DEF TypeOK
<1> DEFINE row == [NoCall EXCEPT !.phase = p, !.op = call[r].op]
<1>2. row \in CallRow /\ row.phase = p /\ row.n = 0
  BY <1>1, NoCallRow DEF CallRow
<1>3. call' = [call EXCEPT ![r] = row] OBVIOUS
<1> HIDE DEF row
<1> QED BY <1>2, <1>3 DEF TypeOK

\* A request that failed is as if it had not been made.
LEMMA ResetMoves ==
  ASSUME TypeOK, NEW r \in Requests, call' = [call EXCEPT ![r] = NoCall]
  PROVE  /\ call' \in [Requests -> CallRow]
         /\ \A q \in Requests \ {r} : call'[q] = call[q]
         /\ call'[r].phase = "idle"
BY NoCallRow DEF TypeOK

-----------------------------------------------------------------------------
\* A step of one request that keeps the accounts there are, adds at most k of
\* them, and does not miscount.
LEMMA MoveStep ==
  ASSUME Inv, NEW r \in Requests, NEW k \in {0, 1},
         call' \in [Requests -> CallRow], \A q \in Requests \ {r} : call'[q] = call[q], Fits(r)',
         begun' \in begun..MaxAccounts,
         account' \in [Accounts -> [type : Types, status : {"active", "suspended"},
                                    has : SUBSET TrialRows] \cup {NoAccount}],
         Created \subseteq Created', Created' \subseteq 1..begun', AccountsWhole',
         \A n \in Created' \ Created : Making(r) /\ n = call[r].n,
         \A n \in Created : account'[n].has = account[n].has,
         Making(r)' => \/ Making(r) /\ call'[r].n = call[r].n
                       \/ call'[r].n \notin 1..begun,
         Cardinality(Created)' <= Cardinality(Created) + k,
         lapsed' = lapsed, used' \in SUBSET Created',
         unaudited' \in Nat, intents' \in 0..MaxIntents, failed' \in Nat, faults' \in 0..MaxFaults,
         k + Bit(r, Open)' + failed' + intents + faults <= intents' + faults' + Bit(r, Open) + failed,
         Bit(r, Committed)' + unaudited <= unaudited' + Bit(r, Committed),
         unaudited' + faults + Bit(r, Committed) <= unaudited + faults' + Bit(r, Committed)'
  PROVE  Inv'
<1> USE CommerceAssumption
<1>1. TypeOK' BY DEF Inv, TypeOK
<1>2. \A q \in Requests : Fits(q)'
  <2> SUFFICES ASSUME NEW q \in Requests \ {r} PROVE Fits(q)' OBVIOUS
  <2>1. Fits(q) /\ call'[q] = call[q] /\ (Making(q)' <=> Making(q)) BY DEF Inv, Making
  <2>2. 1..begun \subseteq 1..begun' BY DEF Inv, TypeOK
  <2>3. Making(q) /\ Making(r) => call[q].n # call[r].n BY DEF Inv, Apart
  <2>4. Making(q) => call[q].n \in (1..begun') \ Created' BY <2>1, <2>2, <2>3 DEF Fits
  <2> QED BY <2>1, <2>4 DEF Fits
<1>3. /\ Cardinality(Open)' + Bit(r, Open) = Cardinality(Open) + Bit(r, Open)'
      /\ Cardinality(Open) \in Nat /\ Cardinality(Open)' \in Nat
  <2>1. Open \in SUBSET Requests /\ Open' \in SUBSET Requests BY DEF Open
  <2>2. \A q \in Requests \ {r} : q \in Open <=> q \in Open' BY DEF Open
  <2>3. Cardinality(Open') + Bit(r, Open) = Cardinality(Open) + Bit(r, Open')
    BY <2>1, <2>2, BitCounts
  <2> QED BY <2>1, <2>3, FiniteParts DEF Bit
<1>4. /\ Cardinality(Committed)' + Bit(r, Committed) = Cardinality(Committed) + Bit(r, Committed)'
      /\ Cardinality(Committed) \in Nat /\ Cardinality(Committed)' \in Nat
  <2>1. Committed \in SUBSET Requests /\ Committed' \in SUBSET Requests BY DEF Committed
  <2>2. \A q \in Requests \ {r} : q \in Committed <=> q \in Committed' BY DEF Committed
  <2>3. Cardinality(Committed') + Bit(r, Committed) = Cardinality(Committed) + Bit(r, Committed')
    BY <2>1, <2>2, BitCounts
  <2> QED BY <2>1, <2>3, FiniteParts DEF Bit
<1>5. /\ Bit(r, Open) \in Nat /\ Bit(r, Open)' \in Nat
      /\ Bit(r, Committed) \in Nat /\ Bit(r, Committed)' \in Nat
  BY DEF Bit
<1>6. /\ failed \in Nat /\ intents \in Nat /\ faults \in Nat /\ unaudited \in Nat
      /\ failed' \in Nat /\ intents' \in Nat /\ faults' \in Nat /\ unaudited' \in Nat
  BY DEF Inv, TypeOK
<1>7. IntentsCounted'
  <2>1. Cardinality(Created) \in Nat /\ Cardinality(Created)' \in Nat
    BY FiniteAccounts DEF Created
  <2> QED BY <1>3, <1>5, <1>6, <2>1 DEF Inv, IntentsCounted
<1>8. AuditOwed' BY <1>4, <1>5, <1>6 DEF Inv, AuditOwed
<1>9. AnsweredIsAudited'
  <2>1. unaudited <= faults + Cardinality(Committed)
    BY DEF Inv, AnsweredIsAudited, Committed
  <2>2. unaudited' <= faults' + Cardinality(Committed)' BY <1>4, <1>5, <1>6, <2>1
  <2> QED BY <2>2 DEF AnsweredIsAudited, Committed
<1>10. Apart'
  <2> SUFFICES ASSUME NEW p \in Requests, NEW q \in Requests, Making(p)', Making(q)', p # q
               PROVE  call'[p].n # call'[q].n
    BY DEF Apart
  <2>1. \A t \in Requests \ {r} :
          Making(t)' => Making(t) /\ call'[t].n = call[t].n /\ call[t].n \in 1..begun
    BY DEF Inv, Fits, Making
  <2>2. \A t \in Requests \ {r} : Making(r)' /\ Making(t)' => call'[r].n # call'[t].n
    BY <2>1 DEF Inv, Apart
  <2>3. CASE p # r /\ q # r BY <2>1, <2>3 DEF Inv, Apart
  <2> QED BY <2>2, <2>3
<1> QED BY <1>1, <1>2, <1>7, <1>8, <1>9, <1>10 DEF Inv

\* The accounts stay as they are.
LEMMA SameAccounts ==
  ASSUME Inv, UNCHANGED <<account, lapsed>>, begun' \in begun..MaxAccounts
  PROVE  /\ account' \in [Accounts -> [type : Types, status : {"active", "suspended"},
                                       has : SUBSET TrialRows] \cup {NoAccount}]
         /\ Created' = Created /\ Created' \subseteq 1..begun' /\ AccountsWhole'
         /\ \A n \in Created : account'[n].has = account[n].has
         /\ Cardinality(Created)' <= Cardinality(Created) + 0
         /\ lapsed' = lapsed
<1>1. Created' = Created BY DEF Created
<1>2. Cardinality(Created)' = Cardinality(Created) BY <1>1
<1>3. 1..begun \subseteq 1..begun' /\ Created \subseteq 1..begun BY DEF Inv, TypeOK
<1>4. AccountsWhole' BY <1>1 DEF Inv, AccountsWhole
<1>5. Cardinality(Created) \in Nat BY FiniteAccounts DEF Created
<1> QED BY <1>1, <1>2, <1>3, <1>4, <1>5 DEF Inv, TypeOK

\* A step that only moves its request on.
LEMMA QuietStep ==
  ASSUME Inv, NEW r \in Requests,
         call' \in [Requests -> CallRow], \A q \in Requests \ {r} : call'[q] = call[q], Fits(r)',
         UNCHANGED <<account, lapsed, used, unaudited, intents, failed, faults>>,
         begun' \in begun..MaxAccounts,
         Making(r)' => \/ Making(r) /\ call'[r].n = call[r].n
                       \/ call'[r].n \notin 1..begun,
         (r \in Open)' => r \in Open, (r \in Committed)' <=> r \in Committed
  PROVE  Inv'
<1>1. Bit(r, Open)' <= Bit(r, Open) /\ Bit(r, Committed)' = Bit(r, Committed)
  BY DEF Bit
<1>2. /\ Bit(r, Open) \in Nat /\ Bit(r, Open)' \in Nat /\ Bit(r, Committed) \in Nat
      /\ intents \in Nat /\ failed \in Nat /\ faults \in Nat /\ unaudited \in Nat
      /\ used \in SUBSET Created /\ faults \in 0..MaxFaults /\ intents \in 0..MaxIntents
  BY CommerceAssumption DEF Bit, Inv, TypeOK
<1>3. /\ account' \in [Accounts -> [type : Types, status : {"active", "suspended"},
                                    has : SUBSET TrialRows] \cup {NoAccount}]
      /\ Created' = Created /\ Created' \subseteq 1..begun' /\ AccountsWhole'
      /\ \A n \in Created : account'[n].has = account[n].has
      /\ Cardinality(Created)' <= Cardinality(Created) + 0
  BY SameAccounts
<1>4. 0 + Bit(r, Open)' + failed' + intents + faults <= intents' + faults' + Bit(r, Open) + failed
  BY <1>1, <1>2
<1>5. /\ Bit(r, Committed)' + unaudited <= unaudited' + Bit(r, Committed)
      /\ unaudited' + faults + Bit(r, Committed) <= unaudited + faults' + Bit(r, Committed)'
  BY <1>1, <1>2
<1>6. used' \in SUBSET Created' BY <1>2, <1>3
<1>7. /\ unaudited' \in Nat /\ intents' \in 0..MaxIntents /\ failed' \in Nat
      /\ faults' \in 0..MaxFaults /\ lapsed' = lapsed /\ Created \subseteq Created'
  BY <1>2, <1>3
<1> QED BY <1>3, <1>4, <1>5, <1>6, <1>7, MoveStep

\* What the invariant says of one request, for the step lemmas below.
LEMMA Facts ==
  ASSUME Inv, NEW r \in Requests
  PROVE  /\ TypeOK /\ Fits(r) /\ call[r] \in CallRow
         /\ MaxAccounts \in Nat /\ begun \in Nat /\ begun \in begun..MaxAccounts
         /\ Created \cup {0} \subseteq 0..MaxAccounts
<1> USE CommerceAssumption
<1>1. TypeOK /\ Fits(r) /\ call[r] \in CallRow /\ begun \in 0..MaxAccounts BY DEF Inv, TypeOK
<1>2. Created \cup {0} \subseteq 0..MaxAccounts BY DEF Created, Accounts
<1> QED BY <1>1, <1>2

\* The questions that change nothing but their request.
LEMMA AskSteps ==
  ASSUME Inv, NEW r \in Requests, NEW n \in Created \cup {0},
         NEW status \in {"active", "suspended", "unknown", ""},
         AskPatch(r, n, status) \/ AskFeed(r, n) \/ AskOverview(r, n)
  PROVE  Inv'
<1>0. TypeOK /\ n \in 0..MaxAccounts /\ begun \in begun..MaxAccounts BY Facts
<1>1. /\ call[r].op = "none" /\ call[r].phase = "idle"
      /\ UNCHANGED <<account, lapsed, used, unaudited, intents, failed, faults, begun>>
  BY NoCallRow DEF AskPatch, AskFeed, AskOverview, Start, rows
<1>2. /\ call' \in [Requests -> CallRow]
      /\ \A q \in Requests \ {r} : call'[q] = call[q]
      /\ call'[r].phase = "asked" /\ call'[r].has = {}
      /\ \/ call'[r].op = "patch" /\ call'[r].arg = status
         \/ call'[r].op \in {"deliver", "overview"}
  <2>1. CASE AskPatch(r, n, status)
    <3>1. Start(r, "patch", n, status) /\ status \in Args BY <2>1 DEF AskPatch, Args
    <3> QED BY <1>0, <3>1, StartMoves
  <2>2. CASE AskFeed(r, n)
    <3>1. Start(r, "deliver", n, "") /\ "" \in Args BY <2>2 DEF AskFeed, Args
    <3> QED BY <1>0, <3>1, StartMoves
  <2>3. CASE AskOverview(r, n)
    <3>1. Start(r, "overview", n, "") /\ "" \in Args BY <2>3 DEF AskOverview, Args
    <3> QED BY <1>0, <3>1, StartMoves
  <2> QED BY <2>1, <2>2, <2>3
<1>3. Fits(r)' /\ ~Making(r)' BY <1>2 DEF Fits, Making, MakingPhases
<1> QED BY <1>0, <1>1, <1>2, <1>3, QuietStep DEF Open, Committed

\* Refusals, locks and answers.
LEMMA QuietSteps ==
  ASSUME Inv, NEW r \in Requests,
         \/ RefuseAccount(r) \/ CreateAccount(r) \/ RefusePatch(r) \/ Answer(r)
         \/ FeedNotFound(r) \/ FindFeed(r) \/ LockFeed(r) \/ LockCatalog(r)
         \/ OverviewNotFound(r) \/ ReadAccount(r)
  PROVE  Inv'
<1>0. /\ TypeOK /\ Fits(r) /\ call[r] \in CallRow
      /\ MaxAccounts \in Nat /\ begun \in Nat /\ begun \in begun..MaxAccounts
  BY Facts
<1>1. CASE RefuseAccount(r) \/ RefusePatch(r) \/ FeedNotFound(r) \/ OverviewNotFound(r)
  <2>1. /\ call[r].phase = "asked" /\ End(r)
        /\ UNCHANGED <<account, lapsed, used, unaudited, intents, failed, faults, begun>>
    BY <1>1 DEF RefuseAccount, RefusePatch, FeedNotFound, OverviewNotFound, At, rows
  <2>2. /\ call' \in [Requests -> CallRow]
        /\ \A q \in Requests \ {r} : call'[q] = call[q]
        /\ call'[r].phase = "done" /\ call'[r].n = 0
    BY <1>0, <2>1, EndMoves DEF End
  <2>3. Fits(r)' /\ ~Making(r)' BY <2>2 DEF Fits, Making, MakingPhases
  <2> QED BY <1>0, <2>1, <2>2, <2>3, QuietStep DEF Open, Committed, MakingPhases
<1>2. CASE Answer(r)
  <2>1. /\ call[r].phase = "done"
        /\ UNCHANGED <<account, lapsed, used, unaudited, intents, failed, faults, begun>>
    BY <1>2 DEF Answer, rows
  <2>2. /\ call' \in [Requests -> CallRow]
        /\ \A q \in Requests \ {r} : call'[q] = call[q]
        /\ call'[r].phase = "idle"
    BY <1>0, <1>2, ResetMoves DEF Answer
  <2>3. Fits(r)' /\ ~Making(r)' BY <2>2 DEF Fits, Making, MakingPhases
  <2> QED BY <1>0, <2>1, <2>2, <2>3, QuietStep DEF Open, Committed, MakingPhases
<1>3. CASE CreateAccount(r)
  <2> DEFINE row == [call[r] EXCEPT !.phase = "inserted", !.n = begun + 1]
  <2>1. /\ call[r].op = "create" /\ call[r].phase = "asked" /\ call[r].arg \in Types
        /\ begun < MaxAccounts /\ begun' = begun + 1
        /\ call' = [call EXCEPT ![r] = row]
        /\ UNCHANGED <<account, lapsed, used, unaudited, intents, failed, faults>>
    BY <1>3 DEF CreateAccount, At
  <2>2. /\ begun + 1 \in 0..MaxAccounts /\ begun + 1 \in 1..begun' /\ begun + 1 \notin 1..begun
        /\ begun' \in begun..MaxAccounts /\ Created \subseteq 1..begun /\ Created' = Created
    BY <1>0, <2>1 DEF TypeOK, Created
  <2>3. /\ row \in CallRow /\ row.phase = "inserted" /\ row.op = "create"
        /\ row.n = begun + 1 /\ row.arg \in Types /\ row.has = call[r].has
    BY <1>0, <2>1, <2>2 DEF CallRow
  <2> HIDE DEF row
  <2>4. call' \in [Requests -> CallRow] /\ call'[r] = row
        /\ \A q \in Requests \ {r} : call'[q] = call[q]
    BY <1>0, <2>1, <2>3 DEF TypeOK
  <2>5. row.has = Inserted("inserted") BY <1>0, <2>1, <2>3 DEF Fits, Inserted
  <2>6. Fits(r)' BY <2>2, <2>3, <2>4, <2>5 DEF Fits
  <2> QED BY <1>0, <2>1, <2>2, <2>3, <2>4, <2>6, QuietStep DEF Open, Committed, MakingPhases
<1>4. CASE FindFeed(r) \/ LockFeed(r) \/ LockCatalog(r) \/ ReadAccount(r)
  <2>1. PICK p \in {"found", "locked", "delivering", "account"} :
          /\ Goto(r, p) /\ call[r].n \in Created
          /\ call[r].phase \in {"asked", "found", "locked"}
          /\ IF p = "account" THEN call[r].op = "overview" /\ call[r].phase = "asked"
             ELSE call[r].op = "deliver"
    <3>1. call[r].op = "deliver" /\ call[r].phase \in {"found", "locked"} => call[r].n \in Created
      BY <1>0 DEF Fits
    <3> QED BY <1>4, <3>1 DEF FindFeed, LockFeed, LockCatalog, ReadAccount, At, Deliverable
  <2>2. UNCHANGED <<account, lapsed, used, unaudited, intents, failed, faults, begun>>
    BY <1>4 DEF FindFeed, LockFeed, LockCatalog, ReadAccount, rows
  <2>3. /\ call' \in [Requests -> CallRow]
        /\ \A q \in Requests \ {r} : call'[q] = call[q]
        /\ call'[r].phase = p /\ call'[r].op = call[r].op
        /\ call'[r].n = call[r].n /\ call'[r].has = call[r].has
    BY <1>0, <2>1, GotoMoves DEF Phases
  <2>4. Created' = Created /\ ~Making(r)' BY <2>1, <2>2, <2>3 DEF Created, Making
  <2>5. p = "account" => call[r].has = account[call[r].n].has \cap Looked(p)
    BY <1>0, <2>1 DEF Fits, Looked
  <2>6. Fits(r)' BY <2>1, <2>2, <2>3, <2>4, <2>5 DEF Fits
  <2> QED BY <1>0, <2>1, <2>2, <2>3, <2>4, <2>6, QuietStep DEF Open, Committed, MakingPhases
<1> QED BY <1>1, <1>2, <1>3, <1>4

\* The inserts of a trial, in the order of bootstrapCommerceForAccount.
LEMMA InsertSteps ==
  ASSUME Inv, NEW r \in Requests,
         InsertSubscription(r) \/ InsertOrder(r) \/ InsertFeed(r) \/ InsertToken(r)
  PROVE  Inv'
<1>0. TypeOK /\ Fits(r) /\ call[r] \in CallRow /\ begun \in begun..MaxAccounts BY Facts
<1>1. PICK from \in MakingPhases, row \in TrialRows, to \in MakingPhases :
        /\ InsertTrialRow(r, from, row, to) /\ call[r].phase = from /\ call[r].op = "create"
        /\ Inserted(to) = Inserted(from) \cup {row}
        /\ call[r].arg # "reseller"
  <2>1. /\ Inserted("subscribed") = Inserted("inserted") \cup {"subscription"}
        /\ Inserted("ordered") = Inserted("subscribed") \cup {"order"}
        /\ Inserted("fed") = Inserted("ordered") \cup {"feed"}
        /\ Inserted("bootstrapped") = Inserted("fed") \cup {"token"}
    BY DEF Inserted, TrialRows
  <2>2. call[r].op = "create" /\ call[r].phase \in {"subscribed", "ordered", "fed"} =>
          call[r].arg # "reseller"
    BY <1>0 DEF Fits, Making, MakingPhases
  <2> QED BY <2>1, <2>2 DEF InsertSubscription, InsertOrder, InsertFeed, InsertToken,
                           InsertTrialRow, At, MakingPhases, TrialRows
<1> DEFINE h == call[r].has \cup {row}
<1>2. MoveRows(r, to, h) BY <1>1 DEF InsertTrialRow, MoveRows
<1>2u. UNCHANGED <<account, lapsed, used, unaudited, intents, failed, faults, begun>>
  BY <1>1 DEF InsertTrialRow, rows
<1>3. h \in SUBSET TrialRows /\ h = call[r].has \cup {row} /\ to \in Phases
  BY <1>0, <1>1 DEF CallRow, MakingPhases, Phases
<1> HIDE DEF h
<1>4. /\ call' \in [Requests -> CallRow]
      /\ \A q \in Requests \ {r} : call'[q] = call[q]
      /\ call'[r].phase = to /\ call'[r].has = h /\ call'[r].op = call[r].op
      /\ call'[r].n = call[r].n /\ call'[r].arg = call[r].arg
  BY <1>0, <1>2, <1>3, RowsMove
<1>5. Created' = Created /\ Making(r) /\ Making(r)' BY <1>1, <1>2u, <1>4 DEF Created, Making
<1>6. call'[r].has = Inserted(to) BY <1>0, <1>1, <1>3, <1>4, <1>5 DEF Fits
<1>7. Fits(r)' BY <1>0, <1>1, <1>2u, <1>4, <1>5, <1>6 DEF Fits, Making, MakingPhases
<1> QED BY <1>0, <1>1, <1>2u, <1>4, <1>5, <1>7, QuietStep DEF Open, Committed, MakingPhases

\* The statements of an overview: a whole trial is seen whole, none as none.
LEMMA ReadSteps ==
  ASSUME Inv, NEW r \in Requests,
         ListSubscriptions(r) \/ ListOrders(r) \/ ListSubscriptionFeeds(r)
  PROVE  Inv'
<1>0. TypeOK /\ Fits(r) /\ call[r] \in CallRow /\ begun \in begun..MaxAccounts BY Facts
<1> DEFINE n == call[r].n
<1>1. PICK from \in {"account", "subscriptions", "orders"}, row \in TrialRows,
           joined \in SUBSET TrialRows, to \in {"subscriptions", "orders", "done"} :
        /\ ReadTrialRow(r, from, row, joined, to) /\ call[r].op = "overview" /\ call[r].phase = from
        /\ Looked(to) = Looked(from) \cup {row}
  <2>1. /\ Looked("subscriptions") = Looked("account") \cup {"subscription"}
        /\ Looked("orders") = Looked("subscriptions") \cup {"order"}
        /\ Looked("done") = Looked("orders") \cup {"feed"}
    BY DEF Looked, TrialRows
  <2> QED BY <2>1 DEF ListSubscriptions, ListOrders, ListSubscriptionFeeds, ReadTrialRow, At, TrialRows
<1> DEFINE h == IF {row} \cup joined \subseteq account[n].has THEN call[r].has \cup {row} ELSE call[r].has
<1>2. MoveRows(r, to, h) BY <1>1 DEF ReadTrialRow, MoveRows
<1>2u. UNCHANGED <<account, lapsed, used, unaudited, intents, failed, faults, begun>>
  BY <1>1 DEF ReadTrialRow, rows
<1>3. n \in Created /\ call[r].has = account[n].has \cap Looked(from)
  BY <1>0, <1>1 DEF Fits
<1>4. account[n].has = {} \/ account[n].has = TrialRows BY <1>3 DEF Inv, AccountsWhole, Whole
<1>5. h = account[n].has \cap Looked(to) /\ h \in SUBSET TrialRows
  <2>1. CASE account[n].has = {} BY <1>3, <2>1
  <2>2. CASE account[n].has = TrialRows BY <1>1, <1>3, <2>2
  <2> QED BY <1>4, <2>1, <2>2
<1>5p. to \in Phases BY <1>1 DEF Phases
<1> HIDE DEF h
<1>6. /\ call' \in [Requests -> CallRow]
      /\ \A q \in Requests \ {r} : call'[q] = call[q]
      /\ call'[r].phase = to /\ call'[r].has = h /\ call'[r].op = call[r].op /\ call'[r].n = n
  BY <1>0, <1>2, <1>5, <1>5p, RowsMove
<1>7. Created' = Created /\ ~Making(r)' BY <1>1, <1>2u, <1>6 DEF Created, Making
<1>8. call'[r].n \in Created' /\ call'[r].has = account'[call'[r].n].has \cap Looked(call'[r].phase)
  BY <1>3, <1>5, <1>6, <1>7, <1>2u
<1>9. Fits(r)' BY <1>1, <1>6, <1>7, <1>8 DEF Fits
<1> QED BY <1>0, <1>1, <1>2u, <1>6, <1>7, <1>9, QuietStep DEF Open, Committed, MakingPhases

-----------------------------------------------------------------------------
(* The steps that count.                                                   *)

\* The counters of a step that leaves the accounts alone.
LEMMA CountStep ==
  ASSUME Inv, NEW r \in Requests,
         call' \in [Requests -> CallRow], \A q \in Requests \ {r} : call'[q] = call[q], Fits(r)',
         ~Making(r)', UNCHANGED <<begun, account, lapsed>>, used' \in SUBSET Created,
         unaudited' \in Nat, intents' \in 0..MaxIntents, failed' \in Nat, faults' \in 0..MaxFaults,
         Bit(r, Open)' + failed' + intents + faults <= intents' + faults' + Bit(r, Open) + failed,
         Bit(r, Committed)' + unaudited <= unaudited' + Bit(r, Committed),
         unaudited' + faults + Bit(r, Committed) <= unaudited + faults' + Bit(r, Committed)'
  PROVE  Inv'
<1>1. begun' \in begun..MaxAccounts BY Facts
<1>2. /\ account' \in [Accounts -> [type : Types, status : {"active", "suspended"},
                                    has : SUBSET TrialRows] \cup {NoAccount}]
      /\ Created' = Created /\ Created' \subseteq 1..begun' /\ AccountsWhole'
      /\ \A n \in Created : account'[n].has = account[n].has
      /\ Cardinality(Created)' <= Cardinality(Created) + 0
  BY <1>1, SameAccounts
<1>3. 0 + Bit(r, Open)' + failed' + intents + faults <= intents' + faults' + Bit(r, Open) + failed
  <2>1. Bit(r, Open)' \in Nat /\ failed' \in Nat /\ intents \in Nat /\ faults \in Nat
    BY DEF Bit, Inv, TypeOK
  <2> QED BY <2>1
<1> QED BY <1>1, <1>2, <1>3, MoveStep

\* The counters and their bounds are numbers.
LEMMA CounterTypes ==
  ASSUME Inv
  PROVE  /\ intents \in 0..MaxIntents /\ intents \in Nat /\ faults \in 0..MaxFaults /\ faults \in Nat
         /\ unaudited \in Nat /\ failed \in Nat /\ used \in SUBSET Created
         /\ MaxIntents \in Nat /\ MaxFaults \in Nat
BY CommerceAssumption DEF Inv, TypeOK

\* A creation that fails is owed a repetition, and paid with a fault.
LEMMA FailStep == ASSUME Inv, NEW r \in Requests, Fail(r) PROVE Inv'
<1>1. /\ faults < MaxFaults /\ faults' = faults + 1
      /\ failed' = IF call[r].op = "create" THEN failed + 1 ELSE failed
      /\ UNCHANGED <<begun, account, used, lapsed, unaudited, intents>>
  BY DEF Fail, rows
<1>2. /\ call' \in [Requests -> CallRow]
      /\ \A q \in Requests \ {r} : call'[q] = call[q]
      /\ call'[r].phase = "idle"
  BY Facts, ResetMoves DEF Fail
<1>3. Fits(r)' /\ ~Making(r)' BY <1>2 DEF Fits, Making, MakingPhases
<1>4. /\ Bit(r, Open)' = 0 /\ Bit(r, Committed)' = 0
      /\ Bit(r, Open) = IF r \in Open THEN 1 ELSE 0
      /\ Bit(r, Committed) \in {0, 1}
      /\ r \in Open => call[r].op = "create"
  BY <1>2 DEF Bit, Open, Committed, MakingPhases
<1>5. /\ faults' \in 0..MaxFaults /\ failed' \in Nat
      /\ Bit(r, Open)' + failed' + intents + faults <= intents' + faults' + Bit(r, Open) + failed
      /\ Bit(r, Committed)' + unaudited <= unaudited' + Bit(r, Committed)
      /\ unaudited' + faults + Bit(r, Committed) <= unaudited + faults' + Bit(r, Committed)'
  BY <1>1, <1>4, CounterTypes
<1> QED BY <1>1, <1>2, <1>3, <1>5, CounterTypes, CountStep

\* A creation is a new intent or one of the repetitions owed.
LEMMA AskAccountStep ==
  ASSUME Inv, NEW r \in Requests, NEW type \in Types \cup {"unknown"}, AskAccount(r, type)
  PROVE  Inv'
<1>1. /\ call[r].op = "none" /\ call[r].phase = "idle" /\ Start(r, "create", 0, type)
      /\ UNCHANGED <<begun, account, used, lapsed, unaudited, faults>>
  BY NoCallRow DEF AskAccount, Start, rows
<1>2. /\ call' \in [Requests -> CallRow]
      /\ \A q \in Requests \ {r} : call'[q] = call[q]
      /\ call'[r].phase = "asked" /\ call'[r].op = "create" /\ call'[r].has = {}
  <2>1. TypeOK /\ 0 \in 0..MaxAccounts BY Facts
  <2> QED BY <1>1, <2>1, StartMoves DEF Args
<1>3. Fits(r)' /\ ~Making(r)' BY <1>2 DEF Fits, Making, MakingPhases
<1>4. /\ Bit(r, Open)' = 1 /\ Bit(r, Open) = 0
      /\ Bit(r, Committed)' = 0 /\ Bit(r, Committed) = 0
  BY <1>1, <1>2 DEF Bit, Open, Committed, MakingPhases
<1>5. \/ intents < MaxIntents /\ intents' = intents + 1 /\ failed' = failed
      \/ failed > 0 /\ failed' = failed - 1 /\ intents' = intents
  BY DEF AskAccount
<1>6. /\ intents' \in 0..MaxIntents /\ failed' \in Nat
      /\ Bit(r, Open)' + failed' + intents + faults <= intents' + faults' + Bit(r, Open) + failed
      /\ Bit(r, Committed)' + unaudited <= unaudited' + Bit(r, Committed)
      /\ unaudited' + faults + Bit(r, Committed) <= unaudited + faults' + Bit(r, Committed)'
  BY <1>1, <1>4, <1>5, CounterTypes
<1> QED BY <1>1, <1>2, <1>3, <1>6, CounterTypes, CountStep

\* The audit row of a commit is written: one less is missing.
LEMMA AuditStep == ASSUME Inv, NEW r \in Requests, Audit(r) PROVE Inv'
<1>1. /\ call[r].phase = "committed" /\ End(r) /\ unaudited' = unaudited - 1
      /\ UNCHANGED <<begun, account, used, lapsed, intents, failed, faults>>
  BY DEF Audit, rows
<1>2. /\ call' \in [Requests -> CallRow]
      /\ \A q \in Requests \ {r} : call'[q] = call[q]
      /\ call'[r].phase = "done" /\ call'[r].n = 0
  BY <1>1, Facts, EndMoves DEF End
<1>3. Fits(r)' /\ ~Making(r)' BY <1>2 DEF Fits, Making, MakingPhases
<1>4. /\ Bit(r, Open)' = 0 /\ Bit(r, Open) = 0
      /\ Bit(r, Committed)' = 0 /\ Bit(r, Committed) = 1
  BY <1>1, <1>2 DEF Bit, Open, Committed, MakingPhases
<1>5. unaudited >= 1
  <2>1. Committed \in SUBSET Requests /\ r \in Committed BY <1>1 DEF Committed
  <2>2. IsFiniteSet(Committed) /\ Cardinality(Committed) \in Nat BY <2>1, FiniteParts
  <2>3. Cardinality(Committed) # 0 BY <2>1, <2>2, FS_EmptySet
  <2> QED BY <2>2, <2>3, CounterTypes DEF Inv, AuditOwed
<1>6. /\ unaudited' \in Nat
      /\ Bit(r, Open)' + failed' + intents + faults <= intents' + faults' + Bit(r, Open) + failed
      /\ Bit(r, Committed)' + unaudited <= unaudited' + Bit(r, Committed)
      /\ unaudited' + faults + Bit(r, Committed) <= unaudited + faults' + Bit(r, Committed)'
  BY <1>1, <1>4, <1>5, CounterTypes
<1> QED BY <1>1, <1>2, <1>3, <1>6, CounterTypes, CountStep

\* A delivery records its account as used; it was created before.
LEMMA FeedDeliveryStep == ASSUME Inv, NEW r \in Requests, FeedDelivery(r) PROVE Inv'
<1>1. /\ call[r].op = "deliver" /\ call[r].phase = "delivering" /\ End(r)
      /\ used' = used \cup {call[r].n}
      /\ UNCHANGED <<begun, account, lapsed, unaudited, intents, failed, faults>>
  BY DEF FeedDelivery, At
<1>2. call[r].n \in Created BY <1>1, Facts DEF Fits
<1>3. /\ call' \in [Requests -> CallRow]
      /\ \A q \in Requests \ {r} : call'[q] = call[q]
      /\ call'[r].phase = "done" /\ call'[r].n = 0
  BY <1>1, Facts, EndMoves DEF End
<1>4. Fits(r)' /\ ~Making(r)' BY <1>3 DEF Fits, Making, MakingPhases
<1>5. /\ Bit(r, Open)' = 0 /\ Bit(r, Open) = 0
      /\ Bit(r, Committed)' = 0 /\ Bit(r, Committed) = 0
  BY <1>1, <1>3 DEF Bit, Open, Committed, MakingPhases
<1>6. /\ Bit(r, Open)' + failed' + intents + faults <= intents' + faults' + Bit(r, Open) + failed
      /\ Bit(r, Committed)' + unaudited <= unaudited' + Bit(r, Committed)
      /\ unaudited' + faults + Bit(r, Committed) <= unaudited + faults' + Bit(r, Committed)'
  BY <1>1, <1>5, CounterTypes
<1>7. used' \in SUBSET Created BY <1>1, <1>2, CounterTypes
<1> QED BY <1>1, <1>3, <1>4, <1>6, <1>7, CounterTypes, CountStep

-----------------------------------------------------------------------------
(* The steps that write an account.                                        *)

Row == [type : Types, status : {"active", "suspended"}, has : SUBSET TrialRows]

\* An account that was created has a row of this type, any other has none.
LEMMA AccountRows ==
  ASSUME TypeOK
  PROVE  /\ account \in [Accounts -> Row \cup {NoAccount}]
         /\ NoAccount \notin Row
         /\ \A n \in Accounts : n \in Created <=> account[n] \in Row
<1>1. account \in [Accounts -> Row \cup {NoAccount}] BY DEF TypeOK, Row
<1>2. NoAccount \notin Row BY DEF NoAccount, Row, Types
<1> QED BY <1>1, <1>2 DEF Created

\* The status of an account is changed, and nothing of its trial.
LEMMA UpdateAccountStep == ASSUME Inv, NEW r \in Requests, UpdateAccount(r) PROVE Inv'
<1> DEFINE n == call[r].n
           arg == call[r].arg
<1>1. /\ call[r].op = "patch" /\ call[r].phase = "asked" /\ arg # "unknown" /\ n \in Created
      /\ account' = IF arg = "" THEN account ELSE [account EXCEPT ![n].status = arg]
      /\ unaudited' = unaudited + 1
      /\ AwaitAudit(r)
      /\ UNCHANGED <<begun, lapsed, used, intents, failed, faults>>
  BY DEF UpdateAccount, At
<1>2. /\ call' \in [Requests -> CallRow]
      /\ \A q \in Requests \ {r} : call'[q] = call[q]
      /\ call'[r].phase = "committed"
  BY <1>1, Facts, EndMoves DEF AwaitAudit
<1>3. Fits(r)' /\ ~Making(r)' BY <1>2 DEF Fits, Making, MakingPhases
<1>4. /\ TypeOK /\ n \in Accounts /\ account[n] \in Row
      /\ account \in [Accounts -> Row \cup {NoAccount}] /\ NoAccount \notin Row
  BY <1>1, Facts, AccountRows DEF Created
<1>5. arg \in {"active", "suspended", ""} BY <1>1, Facts DEF Fits
<1>6. \E row \in Row : /\ account' = [account EXCEPT ![n] = row]
                       /\ row.type = account[n].type /\ row.has = account[n].has
  <2>1. CASE arg = "" BY <1>1, <1>4, <2>1
  <2>2. CASE arg # ""
    <3>1. account' = [account EXCEPT ![n] = [account[n] EXCEPT !.status = arg]] BY <1>1, <2>2
    <3>2. /\ [account[n] EXCEPT !.status = arg] \in Row
          /\ [account[n] EXCEPT !.status = arg].type = account[n].type
          /\ [account[n] EXCEPT !.status = arg].has = account[n].has
      BY <1>4, <1>5, <2>2 DEF Row
    <3> QED BY <3>1, <3>2
  <2> QED BY <2>1, <2>2
<1>7. PICK row \in Row : /\ account' = [account EXCEPT ![n] = row]
                         /\ row.type = account[n].type /\ row.has = account[n].has
  BY <1>6
<1>8. account' \in [Accounts -> Row \cup {NoAccount}] /\ Created' = Created
  BY <1>4, <1>7 DEF Created
<1>9. AccountsWhole' /\ \A m \in Created : account'[m].has = account[m].has
  <2>1. \A m \in Created : account'[m].has = account[m].has /\ account'[m].type = account[m].type
    BY <1>4, <1>7 DEF Created
  <2> QED BY <1>8, <2>1 DEF Inv, AccountsWhole
<1>10. /\ Bit(r, Open)' = 0 /\ Bit(r, Open) = 0
       /\ Bit(r, Committed)' = 1 /\ Bit(r, Committed) = 0
  BY <1>1, <1>2 DEF Bit, Open, Committed, MakingPhases
<1>11. /\ unaudited' \in Nat
       /\ 0 + Bit(r, Open)' + failed' + intents + faults <= intents' + faults' + Bit(r, Open) + failed
       /\ Bit(r, Committed)' + unaudited <= unaudited' + Bit(r, Committed)
       /\ unaudited' + faults + Bit(r, Committed) <= unaudited + faults' + Bit(r, Committed)'
  <2>1. unaudited' = unaudited + 1 /\ UNCHANGED <<intents, failed, faults>> BY <1>1
  <2> QED BY <2>1, <1>10, CounterTypes
<1>12. Cardinality(Created)' <= Cardinality(Created) + 0
  <2>1. Cardinality(Created) \in Nat BY FiniteAccounts DEF Created
  <2> QED BY <1>8, <2>1
<1>13. begun' \in begun..MaxAccounts /\ Created' \subseteq 1..begun' /\ Created \subseteq Created'
  BY <1>1, <1>8, Facts DEF TypeOK
<1>14. /\ lapsed' = lapsed /\ used' \in SUBSET Created' /\ intents' \in 0..MaxIntents
       /\ failed' \in Nat /\ faults' \in 0..MaxFaults
  BY <1>1, <1>8, CounterTypes
<1> QED BY <1>2, <1>3, <1>8, <1>9, <1>11, <1>12, <1>13, <1>14, MoveStep DEF Row

\* An account is seen from its commit on, with all rows of its transaction.
LEMMA CommitAccountStep == ASSUME Inv, NEW r \in Requests, CommitAccount(r) PROVE Inv'
<1> DEFINE n == call[r].n
           arg == call[r].arg
           row == [type |-> arg, status |-> "active",
                   has |-> call[r].has]
<1>1. /\ call[r].op = "create" /\ call[r].phase = IF arg = "reseller" THEN "inserted" ELSE "bootstrapped"
      /\ account' = [account EXCEPT ![n] = row]
      /\ AwaitAudit(r) /\ unaudited' = unaudited + 1
      /\ UNCHANGED <<begun, lapsed, used, intents, failed, faults>>
  BY DEF CommitAccount, At
<1>2. /\ call' \in [Requests -> CallRow]
      /\ \A q \in Requests \ {r} : call'[q] = call[q]
      /\ call'[r].phase = "committed"
  BY <1>1, Facts, EndMoves DEF AwaitAudit
<1>3. Fits(r)' /\ ~Making(r)' BY <1>2 DEF Fits, Making, MakingPhases
<1>4. /\ Making(r) /\ arg \in Types /\ n \in (1..begun) \ Created /\ n \in Accounts
      /\ call[r].has = Whole(arg)
  <2>1. Making(r) BY <1>1 DEF Making, MakingPhases
  <2>2. arg \in Types /\ n \in (1..begun) \ Created /\ call[r].has = Inserted(call[r].phase)
    BY <2>1, Facts DEF Fits
  <2>3. call[r].has = Whole(arg)
    BY <1>1, <2>2 DEF Inserted, Whole
  <2> QED BY <2>1, <2>2, <2>3, Facts DEF Accounts
<1>5. /\ TypeOK /\ account \in [Accounts -> Row \cup {NoAccount}] /\ NoAccount \notin Row
      /\ Created \subseteq 1..begun
  BY Facts, AccountRows DEF TypeOK
<1>6. row \in Row /\ row.type = arg /\ row.has = Whole(arg)
  BY <1>4 DEF Row, Whole
<1> HIDE DEF row
<1>7. account' \in [Accounts -> Row \cup {NoAccount}] /\ Created' = Created \cup {n}
  BY <1>1, <1>4, <1>5, <1>6 DEF Created
<1>8. AccountsWhole' /\ \A m \in Created : account'[m].has = account[m].has
  <2>1. \A m \in Created' : account'[m] = IF m = n THEN row ELSE account[m]
    BY <1>1, <1>5, <1>4 DEF Created
  <2> QED BY <1>4, <1>6, <1>7, <2>1 DEF Inv, AccountsWhole
<1>9. /\ Bit(r, Open)' = 0 /\ Bit(r, Open) = 1
      /\ Bit(r, Committed)' = 1 /\ Bit(r, Committed) = 0
  BY <1>1, <1>2 DEF Bit, Open, Committed, MakingPhases
<1>10. /\ unaudited' \in Nat
       /\ 1 + Bit(r, Open)' + failed' + intents + faults <= intents' + faults' + Bit(r, Open) + failed
       /\ Bit(r, Committed)' + unaudited <= unaudited' + Bit(r, Committed)
       /\ unaudited' + faults + Bit(r, Committed) <= unaudited + faults' + Bit(r, Committed)'
  BY <1>1, <1>9, CounterTypes
<1>11. Cardinality(Created)' <= Cardinality(Created) + 1
  <2>1. IsFiniteSet(Created) /\ Cardinality(Created) \in Nat BY FiniteAccounts DEF Created
  <2>2. Cardinality(Created \cup {n}) =
          IF n \in Created THEN Cardinality(Created) ELSE Cardinality(Created) + 1
    BY <2>1, FS_AddElement
  <2> QED BY <1>7, <2>1, <2>2
<1>12. begun' \in begun..MaxAccounts /\ Created' \subseteq 1..begun' /\ Created \subseteq Created'
  BY <1>1, <1>4, <1>5, <1>7, Facts
<1>13. /\ lapsed' = lapsed /\ used' \in SUBSET Created' /\ intents' \in 0..MaxIntents
       /\ failed' \in Nat /\ faults' \in 0..MaxFaults
  BY <1>1, <1>7, CounterTypes
<1>14. \A m \in Created' \ Created : Making(r) /\ m = call[r].n BY <1>4, <1>7
<1> QED BY <1>2, <1>3, <1>7, <1>8, <1>10, <1>11, <1>12, <1>13, <1>14, MoveStep DEF Row

-----------------------------------------------------------------------------
\* A trial lapses: no account, request or counter changes.
LEMMA LapseStep == ASSUME Inv, NEW n \in Accounts, Lapse(n) PROVE Inv'
<1>1. UNCHANGED <<begun, account, used, unaudited, call, intents, failed, faults>>
      /\ lapsed' = lapsed \cup {n} /\ "token" \in account[n].has
  BY DEF Lapse, rows
<1>2. n \in Created BY <1>1 DEF Created, NoAccount
<1>3. Created' = Created /\ Open' = Open /\ Committed' = Committed
  BY <1>1 DEF Created, Open, Committed
<1>4. TypeOK' BY <1>1, <1>2, <1>3 DEF Inv, TypeOK
<1>5. \A r \in Requests : Fits(r)' BY <1>1, <1>3 DEF Inv, Fits, Making
<1>6. Apart' /\ AccountsWhole' BY <1>1, <1>3 DEF Inv, Apart, Making, AccountsWhole
<1>7. IntentsCounted' /\ AuditOwed' BY <1>1, <1>3 DEF Inv, IntentsCounted, AuditOwed
<1>8. AnsweredIsAudited' BY <1>1 DEF Inv, AnsweredIsAudited
<1> QED BY <1>4, <1>5, <1>6, <1>7, <1>8 DEF Inv

\* At first nothing is created, counted or asked.
LEMMA InitInv == ASSUME Init PROVE Inv
<1> USE CommerceAssumption DEF Init
<1>1. /\ Created = {} /\ \A r \in Requests : call[r] = NoCall
  BY DEF Created
<1>2. TypeOK BY <1>1, NoCallRow DEF TypeOK
<1>3. \A r \in Requests : Fits(r) BY <1>1, NoCallRow DEF Fits, Making
<1>4. Open = {} /\ Committed = {} BY <1>1, NoCallRow DEF Open, Committed
<1>5. Apart /\ AccountsWhole BY <1>1, NoCallRow DEF Apart, Making, AccountsWhole
<1>6. IntentsCounted /\ AuditOwed BY <1>1, <1>4, FS_EmptySet DEF IntentsCounted, AuditOwed
<1>7. AnsweredIsAudited
  <2>1. unaudited <= faults + Cardinality(Committed) BY <1>4, FS_EmptySet
  <2> QED BY ONLY <2>1 DEF AnsweredIsAudited, Committed
<1> QED BY <1>2, <1>3, <1>5, <1>6, <1>7 DEF Inv

\* Every step keeps the invariant: one case for each action of Next.
LEMMA NextInv == ASSUME Inv, [Next]_vars PROVE Inv'
<1>1. CASE UNCHANGED vars
  <2>1. Created' = Created /\ Open' = Open /\ Committed' = Committed
    BY <1>1 DEF vars, rows, Created, Open, Committed
  <2>2. TypeOK' /\ Apart' /\ AccountsWhole'
    BY <1>1, <2>1 DEF vars, rows, Inv, TypeOK, Apart, Making, AccountsWhole
  <2>3. \A r \in Requests : Fits(r)' BY <1>1, <2>1 DEF vars, rows, Inv, Fits, Making
  <2>4. IntentsCounted' /\ AuditOwed'
    BY <1>1, <2>1 DEF vars, rows, Inv, IntentsCounted, AuditOwed
  <2>5. AnsweredIsAudited' BY <1>1 DEF vars, rows, Inv, AnsweredIsAudited
  <2> QED BY <2>2, <2>3, <2>4, <2>5 DEF Inv
<1>2. ASSUME NEW r \in Requests,
             \/ \E type \in Types \cup {"unknown"} : AskAccount(r, type)
             \/ \E n \in Created \cup {0} : AskPatch(r, n, "") \/ AskFeed(r, n) \/ AskOverview(r, n)
             \/ \E n \in Created, status \in {"active", "suspended", "unknown"} : AskPatch(r, n, status)
             \/ Serve(r) \/ Fail(r)
      PROVE  Inv'
  <2>1. CASE \E type \in Types \cup {"unknown"} : AskAccount(r, type)
    BY <2>1, AskAccountStep
  <2>2. CASE \/ \E n \in Created \cup {0} : AskPatch(r, n, "") \/ AskFeed(r, n) \/ AskOverview(r, n)
             \/ \E n \in Created, status \in {"active", "suspended", "unknown"} : AskPatch(r, n, status)
    BY <2>2, AskSteps
  <2>3. CASE Serve(r)
    BY <2>3, QuietSteps, InsertSteps, ReadSteps, AuditStep, FeedDeliveryStep,
       UpdateAccountStep, CommitAccountStep
    DEF Serve, CreateStep, PatchStep, FeedStep, OverviewStep
  <2>4. CASE Fail(r) BY <2>4, FailStep
  <2> QED BY <1>2, <2>1, <2>2, <2>3, <2>4
<1>3. ASSUME NEW n \in Accounts, Lapse(n) PROVE Inv' BY <1>3, LapseStep
<1> QED BY <1>1, <1>2, <1>3 DEF Next

\* The inductive invariant holds in every behaviour.
LEMMA AlwaysInv == Spec => []Inv
<1>1. Init => Inv BY InitInv
<1>2. Inv /\ [Next]_vars => Inv' BY NextInv
<1> QED BY <1>1, <1>2, PTL DEF Spec

\* Accounts and requests keep to their types; what lapsed or was delivered exists.
THEOREM TypeCorrect == Spec => []TypeOK
<1>1. Inv => TypeOK BY DEF Inv
<1> QED BY <1>1, AlwaysInv, PTL

\* createAccount writes the rows of a trial one by one, and any number of creations,
\* failures and overviews run between two of its inserts: no account is ever left with
\* a part of its trial, and no overview, a statement for each of its parts, shows a part.
THEOREM TrialsAreWhole == Spec => []TrialWholeOrNone
<1>1. Inv => TrialWholeOrNone
  <2> SUFFICES ASSUME Inv PROVE TrialWholeOrNone OBVIOUS
  <2>1. ASSUME NEW r \in Requests, At(r, "overview", "done"), call[r].n # 0
        PROVE  call[r].has = Whole(account[call[r].n].type) \ {"token"}
    <3>1. /\ call[r].n \in Created
          /\ call[r].has = account[call[r].n].has \cap (TrialRows \ {"token"})
      BY <2>1 DEF Inv, Fits, At, Looked
    <3>2. account[call[r].n].has = Whole(account[call[r].n].type) BY <3>1 DEF Inv, AccountsWhole
    <3> QED BY <3>1, <3>2 DEF Whole, TrialRows
  <2> QED BY <2>1 DEF Inv, AccountsWhole, TrialWholeOrNone
<1> QED BY <1>1, AlwaysInv, PTL

\* Repeating what failed makes at most one account too many for each fault.
THEOREM AccountsAreMeant == Spec => []OneAccountPerIntent
<1>1. Inv => OneAccountPerIntent
  <2> SUFFICES ASSUME Inv PROVE OneAccountPerIntent OBVIOUS
  <2>1. Cardinality(Open) \in Nat BY FiniteParts DEF Open
  <2>2. Cardinality(Created) \in Nat BY FiniteAccounts DEF Created
  <2> QED BY <2>1, <2>2, CounterTypes DEF Inv, IntentsCounted, OneAccountPerIntent
<1> QED BY <1>1, AlwaysInv, PTL

\* Each committed request without an audit row is still being served, or was hit by a fault.
THEOREM SuccessIsAudited == Spec => []AnsweredIsAudited
<1>1. Inv => AnsweredIsAudited BY DEF Inv
<1> QED BY <1>1, AlwaysInv, PTL
=============================================================================
