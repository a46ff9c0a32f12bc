------------------------------- MODULE Commerce -------------------------------
(***************************************************************************)
(* Accounts with their trial: createAccount and patchAccount, each of which*)
(* commits first and writes its audit row afterwards, the end of a trial's *)
(* period, the delivery of a subscription feed, which locks the rows it    *)
(* reads, the catalog's included, that all trials share, and the overview, *)
(* which reads in one statement after the other what is committed.         *)
(*                                                                         *)
(* Accounts are numbered by created_at, the start of their transaction. The*)
(* administrator's own account, which the first login makes with the same  *)
(* rows, is part of Enrollment. Names, slugs (unique by a random part),    *)
(* prices and entitlements are left out, and an organization's account is  *)
(* as an individual's.  Nothing ever changes a subscription, an order or a *)
(* feed.                                                                   *)
(***************************************************************************)
EXTENDS Integers, FiniteSets

CONSTANTS
  Requests,     \* the requests in flight at a time
  MaxAccounts,  \* bound: accounts whose creation ever began
  MaxIntents,   \* bound: accounts the administrators mean to create
  MaxFaults     \* bound: aborted transactions, failing audits, lost answers

ASSUME CommerceAssumption ==
  /\ IsFiniteSet(Requests)
  /\ MaxAccounts \in Nat \ {0} /\ MaxIntents \in Nat /\ MaxFaults \in Nat

VARIABLES
  begun,    \* the number of account transactions that began
  account,  \* account[n]: the committed row of account n, and the rows that belong to it
  lapsed,   \* the accounts whose fourteen days are over
  used,     \* the feeds with a last_used_at
  unaudited, \* the number of committed requests without an audit row
  call,     \* call[r]: how far request r has come
  intents,  \* how many accounts the administrators meant to create
  failed,   \* creations that were answered with an error, or not at all, and not repeated yet
  faults    \* faults so far

rows == <<begun, account, used>>
vars == <<rows, lapsed, unaudited, call, intents, failed, faults>>

Accounts == 1..MaxAccounts
Types == {"individual", "reseller"}
TrialRows == {"subscription", "order", "feed", "token"}
NoAccount == [type |-> "none", status |-> "none", has |-> {}]
Created == {n \in Accounts : account[n] # NoAccount}

\* arg: the type of the account to create, the status to set.  has: the rows of the
\* trial a creation has inserted and not committed, or an overview has read.
NoCall == [op |-> "none", phase |-> "idle", n |-> 0, arg |-> "", has |-> {}]
CallRow ==
  [op : {"none", "create", "patch", "deliver", "overview"}, n : 0..MaxAccounts,
   phase : {"idle", "asked", "inserted", "subscribed", "ordered", "fed", "bootstrapped",
            "committed", "found", "locked", "delivering",
            "account", "subscriptions", "orders", "done"},
   arg : Types \cup {"unknown", "active", "suspended", ""}, has : SUBSET TrialRows]

TypeOK ==
  /\ begun \in 0..MaxAccounts
  /\ account \in [Accounts -> [type : Types, status : {"active", "suspended"},
                               has : SUBSET TrialRows] \cup {NoAccount}]
  /\ Created \subseteq 1..begun
  /\ lapsed \in SUBSET Created /\ used \in SUBSET Created
  /\ unaudited \in Nat
  /\ call \in [Requests -> CallRow]
  /\ intents \in 0..MaxIntents /\ failed \in Nat /\ faults \in 0..MaxFaults

Init ==
  /\ begun = 0
  /\ account = [n \in Accounts |-> NoAccount]
  /\ lapsed = {} /\ used = {}
  /\ unaudited = 0
  /\ call = [r \in Requests |-> NoCall]
  /\ intents = 0 /\ failed = 0 /\ faults = 0

Goto(r, phase) == call' = [call EXCEPT ![r].phase = phase]
Start(r, op, n, arg) ==
  /\ call[r] = NoCall
  /\ call' = [call EXCEPT ![r] = [NoCall EXCEPT !.op = op, !.phase = "asked", !.n = n, !.arg = arg]]
AwaitAudit(r) ==  \* what is left to do is the audit row
  call' = [call EXCEPT ![r] = [NoCall EXCEPT !.phase = "committed", !.op = call[r].op]]
End(r) == call' = [call EXCEPT ![r] = [NoCall EXCEPT !.phase = "done", !.op = call[r].op]]
At(r, op, phase) == call[r].op = op /\ call[r].phase = phase

\* Mutant: a creation that succeeded is answered with an error.
AnswerWithError(r) ==
  /\ call[r].phase = "done"
  /\ failed' = IF call[r].op = "create" THEN failed + 1 ELSE failed
  /\ call' = [call EXCEPT ![r] = NoCall]
  /\ UNCHANGED <<rows, lapsed, unaudited, intents, faults>>

Answer(r) ==
  /\ call[r].phase = "done"
  /\ call' = [call EXCEPT ![r] = NoCall]
  /\ UNCHANGED <<rows, lapsed, unaudited, intents, failed, faults>>

\* An aborted transaction leaves nothing; what was committed stays, whether the
\* audit fails afterwards, the process dies or the answer is lost.
Fail(r) ==
  /\ call[r] # NoCall
  /\ faults < MaxFaults
  /\ faults' = faults + 1
  /\ failed' = IF call[r].op = "create" THEN failed + 1 ELSE failed
  /\ call' = [call EXCEPT ![r] = NoCall]
  /\ UNCHANGED <<rows, lapsed, unaudited, intents>>

-----------------------------------------------------------------------------
(* createAccount.  A creation that failed is repeated, or not.             *)

AskAccount(r, type) ==
  /\ Start(r, "create", 0, type)
  /\ \/ intents < MaxIntents /\ intents' = intents + 1 /\ UNCHANGED failed
     \/ failed > 0 /\ failed' = failed - 1 /\ UNCHANGED intents
  /\ UNCHANGED <<rows, lapsed, unaudited, faults>>

RefuseAccount(r) ==
  /\ At(r, "create", "asked")
  /\ call[r].arg \notin Types \/ begun = MaxAccounts
  /\ End(r)
  /\ UNCHANGED <<rows, lapsed, unaudited, intents, failed, faults>>

\* Mutant: the account is not counted: the next one takes its place.
CreateAccountUncounted(r) ==
  /\ At(r, "create", "asked")
  /\ call[r].arg \in Types
  /\ begun < MaxAccounts
  /\ call' = [call EXCEPT ![r].phase = "inserted", ![r].n = begun + 1]
  /\ UNCHANGED <<rows, lapsed, unaudited, intents, failed, faults>>

\* The account, its tenant, the roles and memberships of the actor, the wallet.
CreateAccount(r) ==
  /\ At(r, "create", "asked")
  /\ call[r].arg \in Types
  /\ begun < MaxAccounts
  /\ begun' = begun + 1
  /\ call' = [call EXCEPT ![r].phase = "inserted", ![r].n = begun + 1]
  /\ UNCHANGED <<account, lapsed, used, unaudited, intents, failed, faults>>

\* One insert of bootstrapCommerceForAccount: nobody else sees the row yet.
InsertTrialRow(r, from, row, to) ==
  /\ At(r, "create", from)
  /\ call' = [call EXCEPT ![r].phase = to, ![r].has = @ \cup {row}]
  /\ UNCHANGED <<rows, lapsed, unaudited, intents, failed, faults>>

\* A reseller gets no trial.  The foreign keys of the subscription share-lock its
\* rows of the catalog to the end of the transaction.
InsertSubscription(r) ==
  /\ call[r].arg # "reseller"
  /\ \A q \in Requests : call[q].phase # "delivering"
  /\ InsertTrialRow(r, "inserted", "subscription", "subscribed")

InsertOrder(r) == InsertTrialRow(r, "subscribed", "order", "ordered")
InsertFeed(r) == InsertTrialRow(r, "ordered", "feed", "fed")
InsertToken(r) == InsertTrialRow(r, "fed", "token", "bootstrapped")

SharesCatalog(r) == call[r].op = "create" /\ "subscription" \in call[r].has

\* Mutant: the account is committed first, its trial in a transaction of its own.
CommitAccountBeforeTrial(r) ==
  LET c == call[r] IN
  /\ c.op = "create"
  /\ c.phase \in {"inserted", "bootstrapped"}
  /\ account' = [account EXCEPT ![c.n] = [type |-> c.arg, status |-> "active", has |-> c.has]]
  /\ Goto(r, IF c.arg = "reseller" \/ c.phase = "bootstrapped" THEN "committed" ELSE "inserted")
  /\ unaudited' = unaudited + 1
  /\ UNCHANGED <<begun, lapsed, used, intents, failed, faults>>

CommitAccount(r) ==
  LET c == call[r] IN
  /\ At(r, "create", IF c.arg = "reseller" THEN "inserted" ELSE "bootstrapped")
  /\ account' = [account EXCEPT ![c.n] = [type |-> c.arg, status |-> "active", has |-> c.has]]
  /\ AwaitAudit(r)
  /\ unaudited' = unaudited + 1
  /\ UNCHANGED <<begun, lapsed, used, intents, failed, faults>>

-----------------------------------------------------------------------------
(* patchAccount: one statement, and the status of the row it returns.      *)

AskPatch(r, n, status) ==
  /\ Start(r, "patch", n, status)
  /\ UNCHANGED <<rows, lapsed, unaudited, intents, failed, faults>>

RefusePatch(r) ==
  /\ At(r, "patch", "asked")
  /\ call[r].arg = "unknown" \/ call[r].n \notin Created
  /\ End(r)
  /\ UNCHANGED <<rows, lapsed, unaudited, intents, failed, faults>>

\* An empty status leaves the status alone.
UpdateAccount(r) ==
  LET c == call[r] IN
  /\ At(r, "patch", "asked")
  /\ c.arg # "unknown" /\ c.n \in Created
  /\ account' = IF c.arg = "" THEN account ELSE [account EXCEPT ![c.n].status = c.arg]
  /\ unaudited' = unaudited + 1
  /\ AwaitAudit(r)
  /\ UNCHANGED <<begun, lapsed, used, intents, failed, faults>>

\* Mutant: the answer goes out without the audit row.
AuditSkipped(r) ==
  /\ call[r].phase = "committed"
  /\ End(r)
  /\ UNCHANGED <<rows, lapsed, unaudited, intents, failed, faults>>

\* The audit row of either request, in a statement of its own.
Audit(r) ==
  /\ call[r].phase = "committed"
  /\ unaudited' = unaudited - 1
  /\ End(r)
  /\ UNCHANGED <<rows, lapsed, intents, failed, faults>>

-----------------------------------------------------------------------------
(* Subscriptions, feeds and their delivery.                                *)

\* What a feed is delivered by: neither the account's status nor the subscription's.
Deliverable(n) ==
  n \in Created \ lapsed /\ {"subscription", "feed", "token"} \subseteq account[n].has

AskFeed(r, n) ==
  /\ Start(r, "deliver", n, "")
  /\ UNCHANGED <<rows, lapsed, unaudited, intents, failed, faults>>

FeedNotFound(r) ==
  /\ At(r, "deliver", "asked")
  /\ ~Deliverable(call[r].n)
  /\ End(r)
  /\ UNCHANGED <<rows, lapsed, unaudited, intents, failed, faults>>

\* now() is the start of the transaction: the rows are found before they are
\* locked, and the expiry is not looked at again.
FindFeed(r) ==
  /\ At(r, "deliver", "asked")
  /\ Deliverable(call[r].n)
  /\ Goto(r, "found")
  /\ UNCHANGED <<rows, lapsed, unaudited, intents, failed, faults>>

\* Mutant: the expiry is looked at again when the rows are locked.
LockFeedUnexpired(r) ==
  /\ At(r, "deliver", "found")
  /\ \A q \in Requests : call[q].n = call[r].n => call[q].phase \notin {"locked", "delivering"}
  /\ Goto(r, IF Deliverable(call[r].n) THEN "locked" ELSE "asked")
  /\ UNCHANGED <<rows, lapsed, unaudited, intents, failed, faults>>

\* Mutant: NOWAIT, and from the start again if another delivery has the rows.
LockFeedNoWait(r) ==
  /\ At(r, "deliver", "found")
  /\ Goto(r, IF \E q \in Requests : call[q].n = call[r].n /\ call[q].phase \in {"locked", "delivering"}
             THEN "asked" ELSE "locked")
  /\ UNCHANGED <<rows, lapsed, unaudited, intents, failed, faults>>

\* FOR UPDATE: the token, the feed and the subscription, ...
LockFeed(r) ==
  /\ At(r, "deliver", "found")
  /\ \A q \in Requests : call[q].n = call[r].n => call[q].phase \notin {"locked", "delivering"}
  /\ Goto(r, "locked")
  /\ UNCHANGED <<rows, lapsed, unaudited, intents, failed, faults>>

\* ... then the sku, the product and the price, which every trial shares.
LockCatalog(r) ==
  /\ At(r, "deliver", "locked")
  /\ \A q \in Requests : call[q].phase # "delivering" /\ ~SharesCatalog(q)
  /\ Goto(r, "delivering")
  /\ UNCHANGED <<rows, lapsed, unaudited, intents, failed, faults>>

FeedDelivery(r) ==
  /\ At(r, "deliver", "delivering")
  /\ used' = used \cup {call[r].n}
  /\ End(r)
  /\ UNCHANGED <<begun, account, lapsed, unaudited, intents, failed, faults>>

Lapse(n) ==
  /\ "token" \in account[n].has /\ n \notin lapsed
  /\ lapsed' = lapsed \cup {n}
  /\ UNCHANGED <<rows, unaudited, call, intents, failed, faults>>

-----------------------------------------------------------------------------
(* BillingOverview: the account, its first subscription that is trialing,  *)
(* which it stays for ever, its orders, and its feeds with an active token,*)
(* expired or not.  Each is a statement with a snapshot of its own.        *)

AskOverview(r, n) ==
  /\ Start(r, "overview", n, "")
  /\ UNCHANGED <<rows, lapsed, unaudited, intents, failed, faults>>

OverviewNotFound(r) ==
  /\ At(r, "overview", "asked")
  /\ call[r].n \notin Created
  /\ End(r)
  /\ UNCHANGED <<rows, lapsed, unaudited, intents, failed, faults>>

ReadAccount(r) ==
  /\ At(r, "overview", "asked")
  /\ call[r].n \in Created
  /\ Goto(r, "account")
  /\ UNCHANGED <<rows, lapsed, unaudited, intents, failed, faults>>

\* One statement: it finds its row if the rows it is joined with are committed.
ReadTrialRow(r, from, row, joined, to) ==
  LET c == call[r] IN
  /\ At(r, "overview", from)
  /\ call' = [call EXCEPT ![r].phase = to,
                ![r].has = IF {row} \cup joined \subseteq account[c.n].has THEN @ \cup {row} ELSE @]
  /\ UNCHANGED <<rows, lapsed, unaudited, intents, failed, faults>>

ListSubscriptions(r) == ReadTrialRow(r, "account", "subscription", {}, "subscriptions")
ListOrders(r) == ReadTrialRow(r, "subscriptions", "order", {}, "orders")
ListSubscriptionFeeds(r) == ReadTrialRow(r, "orders", "feed", {"subscription", "token"}, "done")

-----------------------------------------------------------------------------
CreateStep(r) ==
  \/ RefuseAccount(r) \/ CreateAccount(r)
  \/ InsertSubscription(r) \/ InsertOrder(r) \/ InsertFeed(r) \/ InsertToken(r)
  \/ CommitAccount(r)
PatchStep(r) == RefusePatch(r) \/ UpdateAccount(r)
FeedStep(r) == FeedNotFound(r) \/ FindFeed(r) \/ LockFeed(r) \/ LockCatalog(r) \/ FeedDelivery(r)
OverviewStep(r) ==
  \/ OverviewNotFound(r) \/ ReadAccount(r)
  \/ ListSubscriptions(r) \/ ListOrders(r) \/ ListSubscriptionFeeds(r)
Serve(r) ==
  CreateStep(r) \/ PatchStep(r) \/ FeedStep(r) \/ OverviewStep(r) \/ Audit(r) \/ Answer(r)

Next ==
  \/ \E r \in Requests :
       \/ \E type \in Types \cup {"unknown"} : AskAccount(r, type)
       \/ \E n \in Created \cup {0} :  \* 0: no id, no token that exists
            AskPatch(r, n, "") \/ AskFeed(r, n) \/ AskOverview(r, n)
       \/ \E n \in Created, status \in {"active", "suspended", "unknown"} : AskPatch(r, n, status)
       \/ Serve(r) \/ Fail(r)
  \/ \E n \in Accounts : Lapse(n)

Spec == Init /\ [][Next]_vars

\* Requests are served: a lock that is free from time to time is got in the end.
FairSpec == Spec /\ \A r \in Requests : SF_vars(Serve(r))

-----------------------------------------------------------------------------
(* Properties.                                                             *)

Whole(type) == IF type = "reseller" THEN {} ELSE TrialRows

\* Whichever of createAccount's inserts fails, no account is left with a part of its
\* trial (a reseller's has none), and no overview, whose statements may run between
\* those of a creation, shows a subscription without its order and its feed.
TrialWholeOrNone ==
  /\ \A n \in Created : account[n].has = Whole(account[n].type)
  /\ \A r \in Requests :
       At(r, "overview", "done") /\ call[r].n # 0 =>
         call[r].has = Whole(account[call[r].n].type) \ {"token"}

\* An administrator who repeats what failed gets no account twice, except that a
\* fault between the commit and the answer costs one account too many each.
OneAccountPerIntent == Cardinality(Created) <= intents + faults

\* The audit row follows the commit in another statement, which may fail: what was
\* answered as a success is audited all the same, and each missing row cost a fault.
AnsweredIsAudited == unaudited <= faults + Cardinality({r \in Requests : call[r].phase = "committed"})

\* A delivery that found its feed in time delivers it, although it waits for the
\* rows while the token expires or the account is suspended.
FoundIsDelivered ==
  [](faults = 0) =>
    \A n \in Accounts :
      (\E r \in Requests : At(r, "deliver", "found") /\ call[r].n = n) ~> n \in used

\* Deliveries of one plan and creations of accounts wait for each other's locks on
\* the rows of the catalog, and none of them for ever.
EveryRequestEnds == \A r \in Requests : call[r] # NoCall ~> call[r] = NoCall
=============================================================================
