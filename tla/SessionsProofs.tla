---------------------------- MODULE SessionsProofs ----------------------------
(* A session has one heir and, once closed, stays closed; the browser keeps *)
(* the heir of its session unless a fault intervenes; login, refresh and    *)
(* logout implement SessionChain.  For any number of calls, tokens, faults. *)
EXTENDS Sessions, TLAPS

Phases == {"idle", "received"} \cup AtServer \cup Answered

\* A call that has issued a pair alone holds its token, which is not saved yet;
\* one that asks for a rotation presents a token.
HoldsOwn ==
  /\ \A c \in Calls : call[c].phase = "issued" =>
       call[c].token \in Tokens /\ status[call[c].token] = "pending"
  /\ \A c, d \in Calls :
       call[c].phase = "issued" /\ call[d].phase = "issued" /\ call[c].token = call[d].token => c = d
  /\ \A c \in Calls : call[c].phase = "asking" => call[c].token \in Tokens

\* Every pair belongs to a session.
HasSession == \A t \in Tokens : status[t] # "none" => session[t] \in Tokens

Inv == TypeOK /\ HoldsOwn /\ HasSession /\ OneHeir

-----------------------------------------------------------------------------
(* What the moves of a call leave in its row.                              *)

\* The rows of calls are records of these fields.
LEMMA CallRows ==
  ASSUME NEW r \in CallRow, NEW p \in Phases, NEW t \in Pair
  PROVE  /\ [r EXCEPT !.phase = p] \in CallRow
         /\ [r EXCEPT !.phase = p].phase = p /\ [r EXCEPT !.phase = p].token = r.token
         /\ [r EXCEPT !.phase = p].heard = r.heard
         /\ [r EXCEPT !.heard = FALSE] \in CallRow
         /\ [r EXCEPT !.heard = FALSE].phase = r.phase
         /\ [r EXCEPT !.heard = FALSE].token = r.token
         /\ [r EXCEPT !.phase = p, !.token = t] \in CallRow
         /\ [r EXCEPT !.phase = p, !.token = t].phase = p
         /\ [r EXCEPT !.phase = p, !.token = t].token = t
         /\ [r EXCEPT !.phase = p, !.token = t].heard = r.heard
BY DEF CallRow, Phases

\* The row of a call that has not been made.
LEMMA NoCallRow == NoCall \in CallRow /\ NoCall.phase = "idle" /\ NoCall.heard
BY DEF NoCall, CallRow, Pair

\* Goto changes the phase of one call.
LEMMA GotoMoves ==
  ASSUME TypeOK, NEW c \in Calls, NEW p \in Phases, Goto(c, p)
  PROVE  /\ call' \in [Calls -> CallRow]
         /\ \A d \in Calls : d # c => call'[d] = call[d]
         /\ call'[c].phase = p /\ call'[c].token = call[c].token
         /\ call'[c].heard = call[c].heard
<1>1. call[c] \in CallRow BY DEF TypeOK
<1>2. /\ [call[c] EXCEPT !.phase = p] \in CallRow
      /\ [call[c] EXCEPT !.phase = p].phase = p
      /\ [call[c] EXCEPT !.phase = p].token = call[c].token
      /\ [call[c] EXCEPT !.phase = p].heard = call[c].heard
  BY <1>1, CallRows, 0 \in Pair DEF Pair, None
<1>3. call' = [call EXCEPT ![c] = [call[c] EXCEPT !.phase = p]] BY DEF Goto
<1> HIDE DEF CallRow
<1> QED BY <1>2, <1>3 DEF TypeOK

\* Done forgets one call.
LEMMA DoneMoves ==
  ASSUME TypeOK, NEW c \in Calls, Done(c)
  PROVE  /\ call' \in [Calls -> CallRow]
         /\ \A d \in Calls : d # c => call'[d] = call[d]
         /\ call'[c].phase = "idle" /\ call'[c].heard
BY NoCallRow DEF TypeOK, Done

\* Start writes the row of one call.
LEMMA StartMoves ==
  ASSUME TypeOK, NEW c \in Calls, NEW p \in Phases, NEW k \in {"api", "login", "logout"},
         NEW t \in Pair, Start(c, p, k, t)
  PROVE  /\ call' \in [Calls -> CallRow]
         /\ \A d \in Calls : d # c => call'[d] = call[d]
         /\ call'[c].phase = p /\ call'[c].token = t /\ call'[c].heard
<1> DEFINE row == [phase |-> p, kind |-> k, token |-> t, heard |-> TRUE]
<1>1. row \in CallRow /\ row.phase = p /\ row.token = t /\ row.heard BY DEF CallRow, Phases
<1>2. call' = [call EXCEPT ![c] = row] BY DEF Start
<1> HIDE DEF row
<1> QED BY <1>1, <1>2 DEF TypeOK

-----------------------------------------------------------------------------
\* A step that leaves the database alone and makes no call a holder of a pair.
LEMMA QuietStep ==
  ASSUME Inv, UNCHANGED dbVars,
         call' \in [Calls -> CallRow],
         \A d \in Calls : \/ call'[d].phase = call[d].phase /\ call'[d].token = call[d].token
                          \/ call'[d].phase \notin {"issued", "asking"}
                          \/ call'[d].phase = "asking" /\ call'[d].token \in Tokens,
         fresh' \in [Tokens -> BOOLEAN], over' \in SUBSET Tokens, stored' \in Pair,
         faults' \in 0..MaxFaults
  PROVE  Inv' /\ NoResumption
<1>1. TypeOK' BY DEF Inv, TypeOK, dbVars
<1>2. HoldsOwn' /\ HasSession' BY DEF Inv, HoldsOwn, HasSession, dbVars
<1>3. OneHeir' /\ NoResumption BY DEF Inv, OneHeir, NoResumption, Closed, Heirs, dbVars
<1> QED BY <1>1, <1>2, <1>3 DEF Inv

\* The browser's side, and the handlers that only answer.
LEMMA QuietSteps ==
  ASSUME Inv, NEW c \in Calls,
         \/ Send(c) \/ SignIn(c) \/ SignOut(c) \/ Hear(c) \/ Break(c)
         \/ Admit(c) \/ Deny(c) \/ RefuseRotation(c) \/ OutOfTokens(c)
  PROVE  Inv' /\ NoResumption
<1> USE SessionsAssumption
<1>0. TypeOK /\ call[c] \in CallRow /\ stored \in Pair /\ None \in Pair BY DEF Inv, TypeOK, Pair
<1>1. CASE Send(c)
  BY <1>0, <1>1, StartMoves, QuietStep DEF Send, Inv, TypeOK, Phases, AtServer
<1>2. CASE SignIn(c) \/ SignOut(c)
  BY <1>0, <1>2, StartMoves, QuietStep DEF SignIn, SignOut, Inv, TypeOK, Phases, AtServer
<1>3. CASE Unheard(c)
  BY <1>0, <1>3, DoneMoves, QuietStep DEF Unheard, Inv, TypeOK
<1>4. CASE StartRefresh(c)
  <2>1. CASE stored = None
    BY <1>0, <1>4, <2>1, DoneMoves, QuietStep DEF StartRefresh, Inv, TypeOK
  <2>2. CASE stored # None
    <3>1. Start(c, "asking", "api", stored) /\ stored \in Tokens
      BY <1>0, <1>4, <2>2 DEF StartRefresh, Pair
    <3>2. "asking" \in Phases BY DEF Phases, AtServer
    <3> QED BY <1>0, <1>4, <3>1, <3>2, StartMoves, QuietStep DEF StartRefresh, Inv, TypeOK
  <2> QED BY <2>1, <2>2
<1>5. CASE Receive(c)
  <2>1. "received" \in Phases /\ call[c].token \in Pair BY <1>0 DEF Phases, CallRow
  <2>2. CASE Done(c)
    BY <1>0, <1>5, <2>1, <2>2, DoneMoves, QuietStep DEF Receive, Inv, TypeOK
  <2>3. CASE Goto(c, "received")
    BY <1>0, <1>5, <2>1, <2>3, GotoMoves, QuietStep DEF Receive, Inv, TypeOK
  <2> QED BY <1>5, <2>2, <2>3 DEF Receive
<1>6. CASE Resend(c)
  BY <1>0, <1>6, StartMoves, QuietStep DEF Resend, Inv, TypeOK, Phases, AtServer
<1>7. CASE ReceiveRefusal(c) \/ ReceiveShut(c) \/ ReceiveLeft(c)
  BY <1>0, <1>7, DoneMoves, QuietStep DEF ReceiveRefusal, ReceiveShut, ReceiveLeft, Inv, TypeOK
<1>8. CASE Break(c)
  <2>1. call' = [call EXCEPT ![c] = [call[c] EXCEPT !.heard = FALSE]] BY <1>8 DEF Break
  <2>2. /\ [call[c] EXCEPT !.heard = FALSE] \in CallRow
        /\ [call[c] EXCEPT !.heard = FALSE].phase = call[c].phase
        /\ [call[c] EXCEPT !.heard = FALSE].token = call[c].token
    BY <1>0, CallRows DEF Phases
  <2>3. /\ call' \in [Calls -> CallRow]
        /\ \A d \in Calls : call'[d].phase = call[d].phase /\ call'[d].token = call[d].token
    BY <2>1, <2>2, <1>0 DEF TypeOK
  <2>4. UNCHANGED <<dbVars, fresh, over>> /\ stored' \in Pair /\ faults' \in 0..MaxFaults
    BY <1>0, <1>8 DEF Break, Inv, TypeOK
  <2> QED BY <2>3, <2>4, QuietStep DEF Inv, TypeOK
<1>9. CASE Admit(c)
  BY <1>0, <1>9, DoneMoves, QuietStep DEF Admit, Inv, TypeOK
<1>10. CASE Deny(c) \/ RefuseRotation(c) \/ OutOfTokens(c)
  <2>1. {"denied", "shut", "refused"} \subseteq Phases BY DEF Phases, Answered
  <2>2. \E p \in {"denied", "shut", "refused"} : Goto(c, p)
    BY <1>10 DEF Deny, RefuseRotation, OutOfTokens
  <2>3. UNCHANGED <<dbVars, fresh, over, stored, faults>>
    BY <1>10 DEF Deny, RefuseRotation, OutOfTokens
  <2> QED BY <1>0, <2>1, <2>2, <2>3, GotoMoves, QuietStep DEF Inv, TypeOK
<1> QED BY <1>1, <1>2, <1>3, <1>4, <1>5, <1>6, <1>7, <1>8, <1>9, <1>10 DEF Hear

-----------------------------------------------------------------------------
\* A pair is issued for a new session, or for that of the token that is spent.
LEMMA IssueMoves ==
  ASSUME TypeOK, NEW c \in Calls, NEW s \in Tokens, Issue(c, s), s <= issued + 1
  PROVE  /\ issued + 1 \in Tokens /\ issued' = issued + 1 /\ issued' \in Pair
         /\ session' = [session EXCEPT ![issued + 1] = s]
         /\ session' \in [Tokens -> Pair] /\ fresh' \in [Tokens -> BOOLEAN]
         /\ \A t \in Tokens : session'[t] <= t
         /\ call' \in [Calls -> CallRow]
         /\ \A d \in Calls : d # c => call'[d] = call[d]
         /\ call'[c].phase = "issued" /\ call'[c].token = issued + 1
         /\ call'[c].heard = call[c].heard
<1> USE SessionsAssumption
<1>1. issued + 1 \in Tokens /\ issued + 1 \in Pair BY DEF Issue, TypeOK, Tokens, Pair, None
<1>2. /\ issued' = issued + 1
      /\ session' = [session EXCEPT ![issued + 1] = s]
      /\ fresh' = [fresh EXCEPT ![issued + 1] = TRUE]
      /\ call' = [call EXCEPT ![c] = [call[c] EXCEPT !.phase = "issued", !.token = issued + 1]]
  BY DEF Issue
<1>3. session' \in [Tokens -> Pair] /\ \A t \in Tokens : session'[t] <= t
  BY <1>1, <1>2 DEF TypeOK, Pair
<1>4. fresh' \in [Tokens -> BOOLEAN] BY <1>1, <1>2 DEF TypeOK
<1>5. call[c] \in CallRow /\ "issued" \in Phases BY DEF TypeOK, Phases, AtServer
<1>6. /\ [call[c] EXCEPT !.phase = "issued", !.token = issued + 1] \in CallRow
      /\ [call[c] EXCEPT !.phase = "issued", !.token = issued + 1].phase = "issued"
      /\ [call[c] EXCEPT !.phase = "issued", !.token = issued + 1].token = issued + 1
      /\ [call[c] EXCEPT !.phase = "issued", !.token = issued + 1].heard = call[c].heard
  BY <1>1, <1>5 DEF CallRow, Phases
<1>7. call' \in [Calls -> CallRow] /\ \A d \in Calls : d # c => call'[d] = call[d]
  BY <1>2, <1>6 DEF TypeOK
<1>8. /\ call'[c].phase = "issued" /\ call'[c].token = issued + 1
      /\ call'[c].heard = call[c].heard
  BY <1>2, <1>6 DEF TypeOK
<1> QED BY <1>1, <1>2, <1>3, <1>4, <1>7, <1>8

\* The pair that was issued is held by its call alone.
LEMMA IssueHolds ==
  ASSUME Inv, NEW c \in Calls, NEW s \in Tokens, Issue(c, s), s <= issued + 1,
         status'[issued + 1] = "pending",
         \A t \in Tokens : status[t] = "pending" => status'[t] = "pending"
  PROVE  HoldsOwn'
<1>1. TypeOK /\ status[issued + 1] = "none" /\ issued + 1 \in Tokens
  BY IssueMoves DEF Inv, TypeOK, Pair, Tokens, None
<1>2. \A d \in Calls : call[d].phase = "issued" => call[d].token # issued + 1
  BY <1>1 DEF Inv, HoldsOwn
<1>3. /\ \A d \in Calls : d # c => call'[d] = call[d]
      /\ call'[c].phase = "issued" /\ call'[c].token = issued + 1
  BY <1>1, IssueMoves
<1> QED BY <1>1, <1>2, <1>3 DEF Inv, HoldsOwn

\* A login makes its pair the heir of a new session, and changes no other.
LEMMA AuthenticateStep ==
  ASSUME Inv, NEW c \in Calls, Authenticate(c)
  PROVE  Inv' /\ NoResumption
         /\ \A s \in Tokens : Heirs(s)' = IF s = issued + 1 THEN {issued + 1} ELSE Heirs(s)
<1> USE SessionsAssumption
<1> DEFINE n == issued + 1
<1>1. /\ TypeOK /\ n \in Tokens /\ Issue(c, n)
      /\ status' = [status EXCEPT ![n] = "pending"] /\ UNCHANGED <<over, stored, faults>>
  BY DEF Inv, Authenticate, Issue, TypeOK, Tokens, Pair, None
<1>2. /\ issued' = n /\ session' = [session EXCEPT ![n] = n]
      /\ \A t \in Tokens : session'[t] <= t
  BY <1>1, IssueMoves DEF TypeOK, Pair, None
<1>3. TypeOK'
  <2>1. status' \in [Tokens -> {"none", "pending", "live", "spent", "dropped"}]
    BY <1>1 DEF TypeOK
  <2>2. \A t \in Tokens : status'[t] = "none" <=> t > issued'
    BY <1>1, <1>2 DEF TypeOK, Tokens, Pair, None
  <2>3. /\ issued' \in Pair /\ session' \in [Tokens -> Pair]
        /\ fresh' \in [Tokens -> BOOLEAN] /\ call' \in [Calls -> CallRow]
    BY <1>1, IssueMoves DEF TypeOK, Pair, None
  <2> QED BY <1>1, <1>2, <2>1, <2>2, <2>3 DEF TypeOK
<1>4. HoldsOwn'
  <2>1. status'[n] = "pending" /\ \A t \in Tokens : status[t] = "pending" => status'[t] = "pending"
    BY <1>1 DEF TypeOK
  <2>2. n <= n BY <1>1 DEF Tokens
  <2> QED BY <1>1, <2>1, <2>2, IssueHolds
<1>5. \A t \in Tokens : session[t] = n => status[t] = "none"
  BY <1>1 DEF TypeOK, Tokens, Pair, None
<1>6. \A s \in Tokens : Heirs(s)' = IF s = n THEN {n} ELSE Heirs(s)
  <2> SUFFICES ASSUME NEW s \in Tokens, NEW t \in Tokens
               PROVE  t \in Heirs(s)' <=> t \in (IF s = n THEN {n} ELSE Heirs(s))
    BY DEF Heirs
  <2>1. status[n] = "none" BY <1>1 DEF TypeOK, Tokens, Pair, None
  <2>2. CASE t = n BY <1>1, <1>2, <2>1, <2>2 DEF TypeOK, Heirs
  <2>3. CASE t # n BY <1>1, <1>2, <1>5, <2>3 DEF TypeOK, Heirs
  <2> QED BY <2>2, <2>3
<1>7. OneHeir' BY <1>6 DEF Inv, OneHeir
<1>8. HasSession' BY <1>1, <1>2 DEF Inv, TypeOK, HasSession
<1>9. NoResumption
  <2>1. n \notin 1..issued /\ 1..issued \subseteq 1..issued'
    BY <1>1, <1>2 DEF TypeOK, Pair, Tokens, None
  <2> QED BY <1>6, <2>1 DEF NoResumption, Closed
<1> QED BY <1>3, <1>4, <1>6, <1>7, <1>8, <1>9 DEF Inv

\* A rotation takes the only heir of a session and makes its pair the next.
LEMMA RotateStep ==
  ASSUME Inv, NEW c \in Calls, Rotate(c)
  PROVE  Inv' /\ NoResumption
         /\ Heirs(session[call[c].token]) = {call[c].token}
         /\ \A s \in Tokens :
              Heirs(s)' = IF s = session[call[c].token] THEN {issued + 1} ELSE Heirs(s)
<1> USE SessionsAssumption
<1> DEFINE n == issued + 1
           r == call[c].token
           old == session[r]
<1>1. /\ TypeOK /\ r \in Tokens /\ status[r] = "live" /\ Issue(c, old)
      /\ status' = [status EXCEPT ![r] = "spent", ![n] = "pending"]
      /\ UNCHANGED <<over, stored, faults>>
  BY DEF Inv, HoldsOwn, Rotate, Rotatable
<1>2. r <= issued /\ n \in Tokens /\ r # n /\ status[n] = "none"
  BY <1>1 DEF TypeOK, Issue, Tokens, Pair, None
<1>3. old \in Tokens /\ old <= issued /\ old <= n
  BY <1>1, <1>2 DEF Inv, TypeOK, HasSession, Tokens, Pair, None
<1>4. /\ issued' = n /\ issued' \in Pair /\ session' = [session EXCEPT ![n] = old]
      /\ session' \in [Tokens -> Pair] /\ fresh' \in [Tokens -> BOOLEAN]
      /\ \A t \in Tokens : session'[t] <= t
      /\ call' \in [Calls -> CallRow]
  BY <1>1, <1>3, IssueMoves
<1>5. TypeOK'
  <2>1. status' \in [Tokens -> {"none", "pending", "live", "spent", "dropped"}]
    BY <1>1, <1>2 DEF TypeOK
  <2>2. \A t \in Tokens : status'[t] = "none" <=> t > issued'
    BY <1>1, <1>2, <1>4 DEF TypeOK, Tokens, Pair, None
  <2> QED BY <1>1, <1>4, <2>1, <2>2 DEF TypeOK
<1>6. HoldsOwn'
  <2>1. status'[n] = "pending" /\ \A t \in Tokens : status[t] = "pending" => status'[t] = "pending"
    BY <1>1, <1>2 DEF TypeOK
  <2> QED BY <1>1, <1>3, <2>1, IssueHolds
<1>7. Heirs(old) = {r}
  <2>1. r \in Heirs(old) BY <1>1 DEF Heirs
  <2> QED BY <1>3, <2>1 DEF Inv, OneHeir, Heirs
<1>8. \A s \in Tokens : Heirs(s)' = IF s = old THEN {n} ELSE Heirs(s)
  <2> SUFFICES ASSUME NEW s \in Tokens, NEW t \in Tokens
               PROVE  t \in Heirs(s)' <=> t \in (IF s = old THEN {n} ELSE Heirs(s))
    BY <1>2 DEF Heirs
  <2>1. CASE t = n BY <1>1, <1>2, <1>4, <2>1 DEF TypeOK, Heirs
  <2>2. CASE t = r BY <1>1, <1>2, <1>4, <2>2 DEF TypeOK, Heirs
  <2>3. CASE t # n /\ t # r
    <3>1. status'[t] = status[t] /\ session'[t] = session[t]
      BY <1>1, <1>2, <1>4, <2>3 DEF TypeOK
    <3>2. t \notin Heirs(old) BY <1>7, <2>3
    <3> QED BY <2>3, <3>1, <3>2 DEF Heirs
  <2> QED BY <2>1, <2>2, <2>3
<1>9. OneHeir' BY <1>8 DEF Inv, OneHeir
<1>10. HasSession' BY <1>1, <1>2, <1>3, <1>4 DEF Inv, TypeOK, HasSession
<1>11. NoResumption
  <2>1. 1..issued \subseteq 1..issued' BY <1>1, <1>4 DEF TypeOK, Pair, Tokens, None
  <2> QED BY <1>7, <1>8, <2>1 DEF NoResumption, Closed
<1> QED BY <1>5, <1>6, <1>7, <1>8, <1>9, <1>10, <1>11 DEF Inv

-----------------------------------------------------------------------------
\* A step that only ends tokens, or saves one its call alone holds.
LEMMA SettleStep ==
  ASSUME Inv, NEW c \in Calls, NEW p \in {"granted", "left", "refused"}, Goto(c, p),
         UNCHANGED <<issued, session, fresh, over, stored>>, faults' \in 0..MaxFaults,
         status' \in [Tokens -> {"none", "pending", "live", "spent", "dropped"}],
         \A t \in Tokens : status'[t] = "none" <=> status[t] = "none",
         \A t \in Tokens : status'[t] \in {"live", "pending"} => status[t] \in {"live", "pending"},
         \A t \in Tokens : status[t] = "pending" /\ status'[t] # "pending" =>
           call[c].phase = "issued" /\ call[c].token = t
  PROVE  Inv' /\ NoResumption
<1>1. TypeOK /\ p \in Phases BY DEF Inv, Phases, Answered
<1>2. /\ call' \in [Calls -> CallRow]
      /\ \A d \in Calls : d # c => call'[d] = call[d]
      /\ call'[c].phase = p
  BY <1>1, GotoMoves
<1>3. TypeOK' BY <1>1, <1>2 DEF TypeOK
<1>4. HoldsOwn'
  <2> SUFFICES ASSUME NEW d \in Calls, d # c, call[d].phase = "issued"
               PROVE  status'[call[d].token] = "pending"
    BY <1>2 DEF Inv, HoldsOwn
  <2> QED BY DEF Inv, HoldsOwn
<1>5. HasSession' BY DEF Inv, HasSession
<1>6. \A s \in Tokens : Heirs(s)' \subseteq Heirs(s) BY DEF Heirs
<1>7. OneHeir' BY <1>6 DEF Inv, OneHeir
<1>8. NoResumption BY <1>6 DEF NoResumption, Closed
<1> QED BY <1>3, <1>4, <1>5, <1>7, <1>8 DEF Inv

\* Saving, revoking and failing add no heir to a session.
LEMMA SettleSteps ==
  ASSUME Inv, NEW c \in Calls, Save(c) \/ Revoke(c) \/ HandlerFails(c)
  PROVE  Inv' /\ NoResumption
<1> USE SessionsAssumption
<1> DEFINE t == call[c].token
<1>0. TypeOK /\ faults' \in 0..MaxFaults
  BY DEF Inv, TypeOK, Save, Revoke, HandlerFails
<1>1. call[c].phase = "issued" => t \in Tokens /\ status[t] = "pending" BY DEF Inv, HoldsOwn
<1>2. CASE Save(c)
  BY <1>0, <1>1, <1>2, SettleStep DEF Save, TypeOK
<1>3. CASE Revoke(c)
  BY <1>0, <1>3, SettleStep DEF Revoke, TypeOK
<1>4. CASE HandlerFails(c)
  <2>1. status' = status \/ (call[c].phase = "issued" /\ status' = [status EXCEPT ![t] = "dropped"])
    BY <1>4 DEF HandlerFails
  <2> QED BY <1>0, <1>1, <1>4, <2>1, SettleStep DEF HandlerFails, TypeOK
<1> QED BY <1>2, <1>3, <1>4

\* The passing of time changes no token.
LEMMA TimeSteps ==
  ASSUME Inv, NEW t \in Tokens, AccessExpires(t) \/ SessionExpires(t)
  PROVE  Inv' /\ NoResumption
BY QuietStep DEF Inv, TypeOK, AccessExpires, SessionExpires

-----------------------------------------------------------------------------
(* What the browser stores.                                                *)

\* Call c brings a pair the browser has not seen yet.
Brings(c) == call[c].phase \in {"issued", "granted"}

\* Token t is the heir of its session, if that has one.
Newest(t) == Heirs(session[t]) = {t} \/ Closed(session[t])

\* A pair on its way to the browser was never stored and never presented, no other
\* call brings it, and so nobody can have rotated it.
BroughtIsNew ==
  \A c \in Calls : Brings(c) =>
    /\ call[c].token \in 1..issued /\ call[c].token # stored
    /\ \A d \in Calls \ {c} : Brings(d) \/ call[d].phase = "asking" => call[d].token # call[c].token
    /\ Newest(call[c].token)

\* What is stored or presented was issued, and without a fault every tab waits.
StoredIsKnown ==
  /\ stored <= issued
  /\ \A c \in Calls : call[c].phase = "asking" => call[c].token \in 1..issued
  /\ faults = 0 => \A c \in Calls : call[c].heard

\* Inductive together with Inv.
Delivery == BroughtIsNew /\ StoredIsKnown /\ StoredIsCurrent

\* A session some pair belongs to was opened.
LEMMA IssuedSession ==
  ASSUME Inv, NEW t \in 1..issued
  PROVE  t \in Tokens /\ session[t] \in Tokens /\ session[t] \in 1..issued
<1>1. issued \in Nat /\ t \in Tokens /\ 1..issued \subseteq Tokens
  BY SessionsAssumption DEF Inv, TypeOK, Pair, Tokens, None
<1>2. session[t] \in Tokens /\ session[t] <= t
  BY <1>1 DEF Inv, TypeOK, HasSession, Tokens
<1> QED BY <1>1, <1>2 DEF Tokens

\* A step of one call that issues nothing, saves or ends tokens only, and stores nothing new.
LEMMA MoveDelivers ==
  ASSUME Inv, Delivery, NEW c \in Calls,
         \A d \in Calls : d # c => call'[d] = call[d],
         UNCHANGED <<issued, session>>, stored' \in {None, stored},
         \A s \in Tokens : Heirs(s)' \subseteq Heirs(s),
         \/ call'[c].phase \notin {"issued", "granted", "asking"} /\ (faults' = 0 => ~Brings(c))
         \/ Brings(c) /\ Brings(c)' /\ call'[c].token = call[c].token
         \/ ~Brings(c) /\ call'[c].phase = "asking" /\ call'[c].token = stored /\ stored # None
         \/ call[c].phase = "asking" /\ call'[c].phase = "asking" /\ call'[c].token = call[c].token,
         faults' = 0 => faults = 0 /\ call'[c].heard
  PROVE  Delivery'
<1> USE SessionsAssumption
<1>0. TypeOK /\ issued \in Nat /\ stored \in Nat /\ stored' \in Nat
  BY DEF Inv, TypeOK, Pair, Tokens, None
<1>1. \A t \in 1..issued : Newest(t) => Newest(t)'
  <2> SUFFICES ASSUME NEW t \in 1..issued, Newest(t) PROVE Newest(t)'
    OBVIOUS
  <2>1. session[t] \in Tokens /\ session[t] \in 1..issued BY IssuedSession
  <2>2. Heirs(session[t])' = {t} \/ Heirs(session[t])' = {}
    BY <2>1 DEF Newest, Closed
  <2> QED BY <2>1, <2>2 DEF Newest, Closed
<1>2. \A d \in Calls : Brings(d)' => Brings(d) /\ call'[d].token = call[d].token
  BY DEF Brings
<1>3. \A d \in Calls : call'[d].phase = "asking" =>
        \/ call[d].phase = "asking" /\ call'[d].token = call[d].token
        \/ d = c /\ call'[d].token = stored /\ stored # None
  BY DEF Brings
<1>4. BroughtIsNew'
  <2> SUFFICES ASSUME NEW d \in Calls, Brings(d)'
               PROVE  /\ call'[d].token \in 1..issued' /\ call'[d].token # stored'
                      /\ \A e \in Calls \ {d} : Brings(e)' \/ call'[e].phase = "asking" =>
                           call'[e].token # call'[d].token
                      /\ Newest(call[d].token)'
    BY DEF BroughtIsNew
  <2>1. Brings(d) /\ call'[d].token = call[d].token BY <1>2
  <2>2. call[d].token \in 1..issued /\ call[d].token # stored /\ Newest(call[d].token)
    BY <2>1 DEF Delivery, BroughtIsNew
  <2>3. call'[d].token # stored' BY <2>1, <2>2 DEF None
  <2>4. \A e \in Calls \ {d} : Brings(e)' \/ call'[e].phase = "asking" =>
          call'[e].token # call'[d].token
    BY <1>2, <1>3, <2>1, <2>2 DEF Delivery, BroughtIsNew
  <2>5. Newest(call[d].token)'
    <3>1. PICK t \in 1..issued : t = call[d].token BY <2>2
    <3>2. Newest(t)' BY <1>1, <2>2, <3>1
    <3> QED BY <2>1, <3>1, <3>2 DEF Newest, Closed, Heirs
  <2> QED BY <2>1, <2>2, <2>3, <2>4, <2>5
<1>5. StoredIsKnown'
  <2>1. stored' <= issued' BY <1>0 DEF Delivery, StoredIsKnown, None
  <2>2. \A d \in Calls : call'[d].phase = "asking" => call'[d].token \in 1..issued'
    BY <1>0, <1>3 DEF Delivery, StoredIsKnown, None
  <2>3. faults' = 0 => \A d \in Calls : call'[d].heard
    BY DEF Delivery, StoredIsKnown
  <2> QED BY <2>1, <2>2, <2>3 DEF StoredIsKnown
<1>6. StoredIsCurrent'
  <2> SUFFICES ASSUME stored' # None, faults' = 0 PROVE StoredIsCurrent'
    BY DEF StoredIsCurrent
  <2>1. stored' = stored /\ faults = 0 /\ stored \in 1..issued
    BY <1>0 DEF Delivery, StoredIsKnown, None
  <2>2. CASE Newest(stored)
    <3>1. Newest(stored)' BY <1>1, <2>1, <2>2
    <3> QED BY <2>1, <3>1 DEF StoredIsCurrent, Newest
  <2>3. CASE ~Newest(stored)
    <3>1. PICK d \in Calls : Brings(d) /\ session[call[d].token] = session[stored]
                             /\ call[d].token > stored
      BY <2>1, <2>3 DEF Delivery, StoredIsCurrent, Newest, Brings
    <3>2. Brings(d)' /\ call'[d].token = call[d].token
      BY <3>1 DEF Brings
    <3> QED BY <2>1, <3>1, <3>2 DEF StoredIsCurrent, Brings
  <2> QED BY <2>2, <2>3
<1> QED BY <1>4, <1>5, <1>6 DEF Delivery

\* A step that leaves calls, tokens and what is stored alone.
LEMMA IdleDelivers ==
  ASSUME Delivery, UNCHANGED <<issued, status, session, stored, call, faults>>
  PROVE  Delivery'
BY DEF Delivery, BroughtIsNew, StoredIsKnown, StoredIsCurrent, Brings, Newest, Closed, Heirs

\* The calls of a browser that hears no new pair, and the answers without one.
LEMMA QuietDelivers ==
  ASSUME Inv, Delivery, NEW c \in Calls,
         \/ Send(c) \/ SignIn(c) \/ SignOut(c) \/ Unheard(c) \/ StartRefresh(c) \/ Resend(c)
         \/ ReceiveRefusal(c) \/ ReceiveShut(c) \/ ReceiveLeft(c)
         \/ Admit(c) \/ Deny(c) \/ RefuseRotation(c) \/ OutOfTokens(c)
  PROVE  Delivery'
<1>0. /\ TypeOK /\ call[c] \in CallRow /\ stored \in Pair /\ None \in Pair
      /\ faults = 0 => call[c].heard
  BY DEF Inv, TypeOK, Pair, Delivery, StoredIsKnown
<1>1. ASSUME UNCHANGED dbVars PROVE UNCHANGED <<issued, session>> /\ \A s \in Tokens : Heirs(s)' \subseteq Heirs(s)
  BY <1>1 DEF dbVars, Heirs
<1>2. CASE Send(c) \/ SignIn(c) \/ SignOut(c) \/ Resend(c)
  <2>1. \E p \in {"sent", "signing", "leaving", "resent"}, k \in {"api", "login", "logout"}, t \in Pair :
          Start(c, p, k, t)
    BY <1>0, <1>2 DEF Send, SignIn, SignOut, Resend
  <2>2. {"sent", "signing", "leaving", "resent"} \subseteq Phases BY DEF Phases, AtServer
  <2>3. /\ \A d \in Calls : d # c => call'[d] = call[d]
        /\ call'[c].phase \notin {"issued", "granted", "asking"} /\ call'[c].heard
    BY <1>0, <2>1, <2>2, StartMoves
  <2>4. ~Brings(c) /\ UNCHANGED <<dbVars, stored, faults>>
    BY <1>2 DEF Send, SignIn, SignOut, Resend, Brings
  <2> QED BY <1>1, <2>3, <2>4, MoveDelivers
<1>3. CASE StartRefresh(c) /\ stored # None
  <2>1. Start(c, "asking", "api", stored) /\ ~Brings(c) /\ UNCHANGED <<dbVars, stored, faults>>
    BY <1>3 DEF StartRefresh, Brings
  <2>2. "asking" \in Phases BY DEF Phases, AtServer
  <2>3. /\ \A d \in Calls : d # c => call'[d] = call[d]
        /\ call'[c].phase = "asking" /\ call'[c].token = stored /\ call'[c].heard
    BY <1>0, <2>1, <2>2, StartMoves
  <2> QED BY <1>1, <1>3, <2>1, <2>3, MoveDelivers
<1>4. CASE \/ Unheard(c) \/ (StartRefresh(c) /\ stored = None) \/ Admit(c)
           \/ ReceiveRefusal(c) \/ ReceiveShut(c) \/ ReceiveLeft(c)
  <2>1. /\ Done(c) /\ UNCHANGED <<dbVars, faults>> /\ stored' \in {None, stored}
        /\ faults = 0 => ~Brings(c)
    BY <1>0, <1>4 DEF Unheard, StartRefresh, ReceiveRefusal, ReceiveShut, ReceiveLeft, Admit, Brings
  <2>2. /\ \A d \in Calls : d # c => call'[d] = call[d]
        /\ call'[c].phase = "idle" /\ call'[c].heard
    BY <1>0, <2>1, DoneMoves
  <2> QED BY <1>1, <2>1, <2>2, MoveDelivers
<1>5. CASE Deny(c) \/ RefuseRotation(c) \/ OutOfTokens(c)
  <2>1. {"denied", "shut", "refused"} \subseteq Phases BY DEF Phases, Answered
  <2>2. /\ \E p \in {"denied", "shut", "refused"} : Goto(c, p)
        /\ ~Brings(c) /\ UNCHANGED <<dbVars, stored, faults>>
    BY <1>5 DEF Deny, RefuseRotation, OutOfTokens, Brings
  <2>3. /\ \A d \in Calls : d # c => call'[d] = call[d]
        /\ call'[c].phase \notin {"issued", "granted", "asking"} /\ call'[c].heard = call[c].heard
    BY <1>0, <2>1, <2>2, GotoMoves
  <2> QED BY <1>0, <1>1, <2>2, <2>3, MoveDelivers
<1> QED BY <1>2, <1>3, <1>4, <1>5

\* A pair is saved, a session revoked, a handler fails, a connection breaks.
LEMMA SettleDelivers ==
  ASSUME Inv, Delivery, NEW c \in Calls, Save(c) \/ Revoke(c) \/ HandlerFails(c) \/ Break(c)
  PROVE  Delivery'
<1> USE SessionsAssumption
<1>0. /\ TypeOK /\ call[c] \in CallRow /\ faults \in Nat /\ MaxFaults \in Nat
      /\ faults = 0 => call[c].heard
  BY DEF Inv, TypeOK, Delivery, StoredIsKnown
<1>1. call[c].phase = "issued" => call[c].token \in Tokens /\ status[call[c].token] = "pending"
  BY DEF Inv, HoldsOwn
<1>2. {"granted", "left", "refused"} \subseteq Phases BY DEF Phases, Answered
<1>3. CASE Save(c)
  <2>1. /\ Goto(c, "granted") /\ Brings(c) /\ UNCHANGED <<issued, session, stored, faults>>
        /\ status' = [status EXCEPT ![call[c].token] = "live"]
    BY <1>3 DEF Save, Brings
  <2>2. \A s \in Tokens : Heirs(s)' \subseteq Heirs(s)
    BY <1>0, <1>1, <1>3, <2>1 DEF Save, Heirs, TypeOK
  <2>3. /\ \A d \in Calls : d # c => call'[d] = call[d]
        /\ call'[c].phase = "granted" /\ call'[c].token = call[c].token
        /\ call'[c].heard = call[c].heard
    BY <1>0, <1>2, <2>1, GotoMoves
  <2>4. Brings(c)' BY <2>3 DEF Brings
  <2> QED BY <1>0, <2>1, <2>2, <2>3, <2>4, MoveDelivers
<1>4. CASE Revoke(c)
  <2>1. /\ Goto(c, "left") /\ ~Brings(c) /\ UNCHANGED <<issued, session, stored, faults>>
    BY <1>4 DEF Revoke, Brings
  <2>2. \A s \in Tokens : Heirs(s)' \subseteq Heirs(s)
    BY <1>0, <1>4 DEF Revoke, Heirs, TypeOK
  <2>3. /\ \A d \in Calls : d # c => call'[d] = call[d]
        /\ call'[c].phase = "left" /\ call'[c].heard = call[c].heard
    BY <1>0, <1>2, <2>1, GotoMoves
  <2> QED BY <1>0, <2>1, <2>2, <2>3, MoveDelivers
<1>5. CASE HandlerFails(c)
  <2>1. /\ Goto(c, "refused") /\ UNCHANGED <<issued, session, stored>>
        /\ faults' = faults + 1
    BY <1>5 DEF HandlerFails
  <2>2. status' = status \/ (call[c].phase = "issued" /\ status' = [status EXCEPT ![call[c].token] = "dropped"])
    BY <1>5 DEF HandlerFails
  <2>3. \A s \in Tokens : Heirs(s)' \subseteq Heirs(s)
    BY <1>0, <1>1, <2>1, <2>2 DEF Heirs, TypeOK
  <2>4. /\ \A d \in Calls : d # c => call'[d] = call[d]
        /\ call'[c].phase = "refused"
    BY <1>0, <1>2, <2>1, GotoMoves
  <2>5. faults' # 0 BY <1>0, <2>1
  <2> QED BY <2>1, <2>3, <2>4, <2>5, MoveDelivers
<1>6. CASE Break(c)
  <2>1. /\ call' = [call EXCEPT ![c] = [call[c] EXCEPT !.heard = FALSE]]
        /\ UNCHANGED dbVars /\ faults' # 0 /\ stored' \in {None, stored}
        /\ call[c].phase \in {"signing", "asking", "issued", "granted", "leaving"}
    BY <1>0, <1>6 DEF Break
  <2>2. /\ [call[c] EXCEPT !.heard = FALSE].phase = call[c].phase
        /\ [call[c] EXCEPT !.heard = FALSE].token = call[c].token
    BY <1>0, CallRows, "idle" \in Phases, 0 \in Pair DEF Phases, Pair, None
  <2>3. /\ \A d \in Calls : d # c => call'[d] = call[d]
        /\ call'[c].phase = call[c].phase /\ call'[c].token = call[c].token
    BY <1>0, <2>1, <2>2 DEF TypeOK
  <2>4. UNCHANGED <<issued, session>> /\ \A s \in Tokens : Heirs(s)' \subseteq Heirs(s)
    BY <2>1 DEF dbVars, Heirs
  <2>5. Brings(c)' <=> Brings(c) BY <2>3 DEF Brings
  <2>6. \/ call'[c].phase \notin {"issued", "granted", "asking"} /\ ~Brings(c)
        \/ Brings(c)
        \/ call[c].phase = "asking" /\ call'[c].phase = "asking"
    BY <2>1, <2>3 DEF Brings
  <2> QED BY <2>1, <2>3, <2>4, <2>5, <2>6, MoveDelivers
<1> QED BY <1>3, <1>4, <1>5, <1>6

\* The pair of a refresh or a login is stored: it is the heir of its session, and
\* whoever brings another pair of that session brings the newer one.
LEMMA ReceiveDelivers ==
  ASSUME Inv, Delivery, NEW c \in Calls, Receive(c)
  PROVE  Delivery'
<1> USE SessionsAssumption
<1>0. TypeOK /\ call[c] \in CallRow /\ issued \in Nat /\ faults = 0 => call[c].heard
  BY DEF Inv, TypeOK, Delivery, StoredIsKnown, Pair, Tokens, None
<1>1. PICK t \in 1..issued : t = call[c].token
  BY DEF Receive, Delivery, BroughtIsNew, Brings
<1>2. stored' = t /\ Brings(c) /\ UNCHANGED <<issued, status, session, faults>> /\ call[c].heard
  BY <1>1 DEF Receive, Brings, dbVars
<1>3. Newest(t) /\ Newest(t)'
  BY <1>1, <1>2 DEF Delivery, BroughtIsNew, Newest, Closed, Heirs
<1>4. /\ \A d \in Calls : d # c => call'[d] = call[d]
      /\ call'[c].phase \in {"idle", "received"} /\ call'[c].heard
  <2>1. TypeOK /\ "received" \in Phases BY DEF Inv, Phases
  <2>2. CASE Done(c) BY <2>1, <2>2, DoneMoves
  <2>3. CASE Goto(c, "received") BY <1>2, <2>1, <2>3, GotoMoves
  <2> QED BY <2>2, <2>3 DEF Receive
<1>5. BroughtIsNew'
  <2> SUFFICES ASSUME NEW d \in Calls, Brings(d)'
               PROVE  /\ call'[d].token \in 1..issued' /\ call'[d].token # stored'
                      /\ \A e \in Calls \ {d} : Brings(e)' \/ call'[e].phase = "asking" =>
                           call'[e].token # call'[d].token
                      /\ Newest(call[d].token)'
    BY DEF BroughtIsNew
  <2>1. d # c /\ Brings(d) /\ call'[d] = call[d] BY <1>4 DEF Brings
  <2>2. PICK u \in 1..issued : u = call[d].token /\ Newest(u)
    BY <2>1 DEF Delivery, BroughtIsNew
  <2>3. Newest(u)' BY <1>2, <2>2 DEF Newest, Closed, Heirs
  <2>4. u # t BY <1>1, <1>2, <2>1, <2>2 DEF Delivery, BroughtIsNew
  <2>5. \A e \in Calls \ {d} : Brings(e)' \/ call'[e].phase = "asking" => call'[e].token # u
    BY <1>4, <2>1, <2>2 DEF Delivery, BroughtIsNew, Brings
  <2> QED BY <1>2, <2>1, <2>2, <2>3, <2>4, <2>5 DEF Newest, Closed, Heirs
<1>6. StoredIsKnown'
  BY <1>0, <1>2, <1>4 DEF Delivery, StoredIsKnown
<1>7. StoredIsCurrent' BY <1>2, <1>3 DEF StoredIsCurrent, Newest, Closed, Heirs
<1> QED BY <1>5, <1>6, <1>7 DEF Delivery

\* A pair is issued that becomes the heir of its session: whoever stored an older
\* one of that session waits for this one, which nobody brought before.
LEMMA IssueDelivers ==
  ASSUME Inv, Delivery, NEW c \in Calls, NEW s \in Tokens, Issue(c, s), s <= issued + 1,
         ~Brings(c), UNCHANGED <<stored, faults>>,
         \A x \in Tokens : Heirs(x)' = IF x = s THEN {issued + 1} ELSE Heirs(x),
         \A d \in Calls : Brings(d) => session[call[d].token] # s
  PROVE  Delivery'
<1> USE SessionsAssumption
<1>n. PICK n \in Tokens : n = issued + 1 BY IssueMoves DEF Inv
<1>0. /\ TypeOK /\ issued \in Nat /\ stored \in Nat
      /\ 1..issued \subseteq 1..n /\ n \notin 1..issued /\ n \in 1..n
  BY <1>n DEF Inv, TypeOK, Pair, Tokens, None
<1>1. /\ n \in Tokens /\ issued' = n /\ session' = [session EXCEPT ![n] = s]
      /\ \A d \in Calls : d # c => call'[d] = call[d]
      /\ call'[c].phase = "issued" /\ call'[c].token = n /\ call'[c].heard = call[c].heard
  BY <1>0, <1>n, IssueMoves
<1>2. \A t \in 1..issued : t \in Tokens /\ session[t] \in Tokens /\ session'[t] = session[t]
  BY <1>0, <1>1, IssuedSession DEF TypeOK
<1>3. session'[n] = s BY <1>0, <1>1 DEF TypeOK
<1>4. ASSUME NEW t \in 1..issued, Newest(t), session[t] # s PROVE Newest(t)'
  BY <1>0, <1>1, <1>2, <1>4, <1>n DEF Newest, Closed
<1>5. Newest(n)' BY <1>3, <1>n DEF Newest, Heirs
<1>6. BroughtIsNew'
  <2>1. ASSUME NEW d \in Calls, Brings(d)', d # c
        PROVE  /\ call'[d].token \in 1..issued' /\ call'[d].token # stored'
               /\ \A e \in Calls \ {d} : Brings(e)' \/ call'[e].phase = "asking" =>
                    call'[e].token # call'[d].token
               /\ Newest(call[d].token)'
    <3>1. Brings(d) /\ call'[d] = call[d] BY <1>1, <2>1 DEF Brings
    <3>2. PICK u \in 1..issued : u = call[d].token /\ Newest(u) /\ u # stored
      BY <3>1 DEF Delivery, BroughtIsNew
    <3>3. Newest(u)' BY <1>4, <3>1, <3>2
    <3>4. \A e \in Calls \ {d} : Brings(e)' \/ call'[e].phase = "asking" => call'[e].token # u
      BY <1>0, <1>1, <3>1, <3>2 DEF Delivery, BroughtIsNew, Brings
    <3> QED BY <1>0, <1>1, <3>1, <3>2, <3>3, <3>4 DEF Newest, Closed, Heirs
  <2>2. /\ call'[c].token \in 1..issued' /\ call'[c].token # stored'
        /\ \A e \in Calls \ {c} : Brings(e)' \/ call'[e].phase = "asking" => call'[e].token # n
    BY <1>0, <1>1 DEF Delivery, StoredIsKnown, BroughtIsNew, Brings
  <2>3. Newest(call[c].token)' BY <1>1, <1>5 DEF Newest, Closed, Heirs
  <2> QED BY <1>1, <2>1, <2>2, <2>3 DEF BroughtIsNew
<1>7. StoredIsKnown' BY <1>0, <1>1 DEF Delivery, StoredIsKnown
<1>8. StoredIsCurrent'
  <2> SUFFICES ASSUME stored # None, faults = 0 PROVE StoredIsCurrent'
    BY DEF StoredIsCurrent
  <2>1. stored \in 1..issued /\ stored' = stored BY <1>0 DEF Delivery, StoredIsKnown, None
  <2>2. CASE session[stored] = s
    <3>1. session'[stored'] = s /\ n > stored' BY <1>0, <1>2, <2>1, <2>2
    <3> QED BY <1>1, <1>3, <3>1 DEF StoredIsCurrent
  <2>3. CASE session[stored] # s /\ Newest(stored)
    <3>1. Newest(stored)' BY <1>4, <2>1, <2>3
    <3> QED BY <3>1 DEF StoredIsCurrent, Newest
  <2>4. CASE ~Newest(stored)
    <3>1. PICK d \in Calls : Brings(d) /\ session[call[d].token] = session[stored]
                             /\ call[d].token > stored
      BY <2>1, <2>4 DEF Delivery, StoredIsCurrent, Newest, Brings
    <3>2. d # c /\ call[d].token \in 1..issued BY <3>1 DEF Delivery, BroughtIsNew
    <3>3. Brings(d)' /\ call'[d].token = call[d].token BY <1>1, <3>1, <3>2 DEF Brings
    <3>4. session'[call'[d].token] = session'[stored'] BY <1>2, <2>1, <3>1, <3>2, <3>3
    <3> QED BY <2>1, <3>1, <3>3, <3>4 DEF StoredIsCurrent, Brings
  <2> QED BY <2>2, <2>3, <2>4
<1> QED BY <1>6, <1>7, <1>8 DEF Delivery

\* A login opens a session nobody has a token of; a rotation spends the token that
\* is presented, so one nobody is bringing.
LEMMA AuthenticateDelivers ==
  ASSUME Inv, Delivery, NEW c \in Calls, Authenticate(c)
  PROVE  Delivery'
<1>1. issued + 1 \in Tokens /\ Issue(c, issued + 1) /\ issued + 1 <= issued + 1
  BY SessionsAssumption DEF Inv, Authenticate, Issue, TypeOK, Tokens, Pair, None
<1>2. ~Brings(c) /\ UNCHANGED <<stored, faults>> BY DEF Authenticate, Brings
<1>3. \A d \in Calls : Brings(d) => session[call[d].token] # issued + 1
  <2>1. \A t \in 1..issued : session[t] # issued + 1
    BY SessionsAssumption, IssuedSession DEF Inv, TypeOK, Pair, Tokens, None
  <2> QED BY <2>1 DEF Delivery, BroughtIsNew
<1>4. \A x \in Tokens : Heirs(x)' = IF x = issued + 1 THEN {issued + 1} ELSE Heirs(x)
  BY AuthenticateStep
<1> QED BY <1>1, <1>2, <1>3, <1>4, IssueDelivers

\* A rotation issues the successor of the heir, which nobody else is bringing.
LEMMA RotateDelivers ==
  ASSUME Inv, Delivery, NEW c \in Calls, Rotate(c)
  PROVE  Delivery'
<1> DEFINE r == call[c].token
<1>1. Issue(c, session[r]) /\ ~Brings(c) /\ UNCHANGED <<stored, faults>> /\ call[c].phase = "asking"
  BY DEF Rotate, Brings
<1>2. r \in 1..issued BY <1>1 DEF Delivery, StoredIsKnown
<1>3. session[r] \in Tokens /\ session[r] <= issued + 1
  BY <1>2, IssuedSession, SessionsAssumption DEF Inv, TypeOK, Pair, Tokens, None
<1>4. /\ Heirs(session[r]) = {r}
      /\ \A x \in Tokens : Heirs(x)' = IF x = session[r] THEN {issued + 1} ELSE Heirs(x)
  BY RotateStep
<1>5. ASSUME NEW d \in Calls, Brings(d) PROVE session[call[d].token] # session[r]
  BY <1>1, <1>4, <1>5 DEF Delivery, BroughtIsNew, Newest, Closed, Brings
<1> HIDE DEF r
<1> QED BY <1>1, <1>3, <1>4, <1>5, IssueDelivers

-----------------------------------------------------------------------------
\* At first there is no pair and no call.
LEMMA InitInv == ASSUME Init PROVE Inv
<1> USE SessionsAssumption DEF Init
<1>1. TypeOK
  <2>1. call \in [Calls -> CallRow] BY NoCallRow
  <2>2. 0 \in Pair /\ \A t \in Tokens : session[t] <= t /\ (status[t] = "none" <=> t > issued)
    BY DEF Pair, Tokens, None
  <2> QED BY <2>1, <2>2 DEF TypeOK, None
<1>2. HoldsOwn BY NoCallRow DEF HoldsOwn
<1>3. HasSession /\ OneHeir BY DEF HasSession, OneHeir, Heirs
<1> QED BY <1>1, <1>2, <1>3 DEF Inv

\* Every step keeps the invariant and reopens no session.
LEMMA NextStep == ASSUME Inv, [Next]_vars PROVE Inv' /\ (NoResumption \/ UNCHANGED vars)
<1>1. CASE UNCHANGED vars
  BY <1>1 DEF vars, dbVars, Inv, TypeOK, HoldsOwn, HasSession, OneHeir, Heirs
<1>2. ASSUME NEW c \in Calls,
             \/ Send(c) \/ SignIn(c) \/ SignOut(c) \/ Serve(c) \/ Hear(c)
             \/ HandlerFails(c) \/ Break(c)
      PROVE  Inv' /\ NoResumption
  BY <1>2, QuietSteps, AuthenticateStep, RotateStep, SettleSteps DEF Serve
<1>3. ASSUME NEW t \in Tokens, AccessExpires(t) \/ SessionExpires(t)
      PROVE  Inv' /\ NoResumption
  BY <1>3, TimeSteps
<1> QED BY <1>1, <1>2, <1>3 DEF Next

\* The inductive invariant holds in every behaviour.
LEMMA AlwaysInv == Spec => []Inv
<1>1. Init => Inv BY InitInv
<1>2. Inv /\ [Next]_vars => Inv' BY NextStep
<1> QED BY <1>1, <1>2, PTL DEF Spec

\* Every step keeps what is brought to the browser the newest.
LEMMA DeliveryStep == ASSUME Inv, Delivery, [Next]_vars PROVE Delivery'
<1>1. CASE UNCHANGED vars \/ \E t \in Tokens : AccessExpires(t) \/ SessionExpires(t)
  BY <1>1, IdleDelivers DEF vars, dbVars, AccessExpires, SessionExpires
<1>2. ASSUME NEW c \in Calls,
             \/ Send(c) \/ SignIn(c) \/ SignOut(c) \/ Serve(c) \/ Hear(c)
             \/ HandlerFails(c) \/ Break(c)
      PROVE  Delivery'
  BY <1>2, QuietDelivers, SettleDelivers, ReceiveDelivers, AuthenticateDelivers, RotateDelivers
     DEF Serve, Hear
<1> QED BY <1>1, <1>2 DEF Next

\* At first nothing is stored, brought or presented.
LEMMA InitDelivery == ASSUME Init PROVE Delivery
BY NoCallRow DEF Init, Delivery, BroughtIsNew, StoredIsKnown, StoredIsCurrent, Brings, None

\* What is stored or brought is the newest in every behaviour.
LEMMA AlwaysDelivery == Spec => []Delivery
<1>1. Init => Delivery BY InitDelivery
<1>2. Inv /\ Delivery /\ [Next]_vars => Delivery' BY DeliveryStep
<1> QED BY <1>1, <1>2, AlwaysInv, PTL DEF Spec

\* The rows of sessions and refresh tokens and the calls in flight keep to their
\* types; a token has a row exactly from its issue on.
THEOREM TypeCorrect == Spec => []TypeOK
<1>1. Inv => TypeOK BY DEF Inv
<1> QED BY <1>1, AlwaysInv, PTL

\* The lock of RotateRefreshToken and its check of rotated_at leave a session at
\* most one refresh token that is good or about to be, however many tabs refresh at a time.
THEOREM SessionHasOneHeir == Spec => []OneHeir
<1>1. Inv => OneHeir BY DEF Inv
<1> QED BY <1>1, AlwaysInv, PTL

\* A session that was revoked, or whose last rotation was lost, is never resumed.
THEOREM ClosedForGood == Spec => ClosedStaysClosed
<1>1. Inv /\ [Next]_vars => [NoResumption]_vars BY NextStep
<1> QED BY <1>1, AlwaysInv, PTL DEF Spec, ClosedStaysClosed

\* Tabs that refresh at a time never leave the browser with the older of two tokens of
\* a session, unless a call is about to bring the newer one: without a fault, what is
\* stored is the session's heir, or the session was logged out (refresh of the API
\* client and RotateRefreshToken together).
THEOREM NewestIsStored == Spec => []StoredIsCurrent
<1>1. Delivery => StoredIsCurrent BY DEF Delivery
<1> QED BY <1>1, AlwaysDelivery, PTL

-----------------------------------------------------------------------------
(* The sessions implement the chains of module SessionChain.               *)

HeirsOf == [s \in Tokens |-> Heirs(s)]

\* A step that puts a new heir in the place of that of one session continues it.
LEMMA IssueContinues ==
  ASSUME Inv, NEW c \in Calls, NEW s \in Tokens, Issue(c, s), UNCHANGED over,
         \A x \in Tokens : Heirs(x)' = IF x = s THEN {issued + 1} ELSE Heirs(x)
  PROVE  Chain!Continue(s)
<1>1. issued < MaxTokens /\ issued' = issued + 1 BY DEF Issue
<1>2. HeirsOf' = [HeirsOf EXCEPT ![s] = {issued + 1}] BY DEF HeirsOf
<1> QED BY <1>1, <1>2 DEF HeirsOf, Chain!Continue

\* A step that issues nothing and takes heirs from one session alone ends it or
\* leaves the chains as they are: the session had one heir.
LEMMA LossEnds ==
  ASSUME Inv, NEW s \in Tokens, UNCHANGED <<issued, over>>,
         Heirs(s)' \subseteq Heirs(s),
         \A x \in Tokens : x # s => Heirs(x)' = Heirs(x)
  PROVE  [Chain!Next]_Chain!vars
<1>1. CASE Heirs(s)' = Heirs(s)
  <2>1. HeirsOf' = HeirsOf BY <1>1 DEF HeirsOf
  <2> QED BY <2>1 DEF HeirsOf, Chain!vars
<1>2. CASE Heirs(s)' # Heirs(s)
  <2>1. Heirs(s)' = {} /\ Heirs(s) # {} BY <1>2 DEF Inv, OneHeir
  <2>2. HeirsOf' = [HeirsOf EXCEPT ![s] = {}] BY <2>1 DEF HeirsOf
  <2>3. Chain!End(s) BY <2>1, <2>2 DEF HeirsOf, Chain!End
  <2> QED BY <2>3 DEF Chain!Next, Tokens
<1> QED BY <1>1, <1>2

\* Saving a pair, revoking a session or losing a pair touches the tokens of one session.
LEMMA SettleImplements ==
  ASSUME Inv, NEW c \in Calls, Save(c) \/ Revoke(c) \/ HandlerFails(c)
  PROVE  [Chain!Next]_Chain!vars
<1> DEFINE t == call[c].token
<1>0. /\ TypeOK /\ UNCHANGED <<issued, session, over>>
      /\ t \in Pair
  <2>1. call[c] \in CallRow BY DEF Inv, TypeOK
  <2> QED BY <2>1 DEF Inv, CallRow, Save, Revoke, HandlerFails
<1>1. CASE status' = status
  <2>1. HeirsOf' = HeirsOf BY <1>0, <1>1 DEF HeirsOf, Heirs
  <2> QED BY <1>0, <2>1 DEF HeirsOf, Chain!vars
<1>2. CASE status' # status
  <2>1. t \in Tokens
    BY <1>0, <1>2 DEF Inv, HoldsOwn, Save, Revoke, HandlerFails, Valid, Pair
  <2>2. \/ /\ status[t] = "pending"
           /\ \/ status' = [status EXCEPT ![t] = "live"]
              \/ status' = [status EXCEPT ![t] = "dropped"]
        \/ status' = [u \in Tokens |-> IF status[u] = "live" /\ session[u] = session[t]
                                       THEN "spent" ELSE status[u]]
    BY <1>2 DEF Inv, HoldsOwn, Save, Revoke, HandlerFails
  <2>3. PICK s \in Tokens : s = session[t]
    <3>1. CASE status[t] = "pending" BY <2>1, <3>1 DEF Inv, HasSession
    <3>2. CASE status[t] # "pending"
      <4>1. PICK u \in Tokens : status'[u] # status[u]
        BY <1>0, <1>2, <2>2, <3>2 DEF TypeOK
      <4>2. status[u] = "live" /\ session[u] = session[t]
        BY <2>2, <3>2, <4>1
      <4> QED BY <4>2 DEF Inv, HasSession
    <3> QED BY <3>1, <3>2
  <2>4. Heirs(s)' \subseteq Heirs(s)
    BY <1>0, <2>1, <2>2, <2>3 DEF Heirs, TypeOK
  <2>5. \A x \in Tokens : x # s => Heirs(x)' = Heirs(x)
    BY <1>0, <2>1, <2>2, <2>3 DEF Heirs, TypeOK
  <2> QED BY <1>0, <2>4, <2>5, LossEnds
<1> QED BY <1>1, <1>2

\* What the browser does and what the handlers only answer is no step of a chain.
LEMMA QuietImplements ==
  ASSUME UNCHANGED <<dbVars, over>>
  PROVE  UNCHANGED Chain!vars
<1>1. HeirsOf' = HeirsOf BY DEF HeirsOf, Heirs, dbVars
<1> QED BY <1>1 DEF HeirsOf, dbVars, Chain!vars

\* Every step is one of the chain of tokens or changes no chain.
LEMMA StepImplements ==
  ASSUME Inv, [Next]_vars
  PROVE  [Chain!Next]_Chain!vars
<1> USE SessionsAssumption
<1>1. CASE UNCHANGED vars BY <1>1, QuietImplements DEF vars
<1>2. ASSUME NEW c \in Calls,
             \/ Send(c) \/ SignIn(c) \/ SignOut(c) \/ Hear(c) \/ Break(c)
             \/ Admit(c) \/ Deny(c) \/ RefuseRotation(c) \/ OutOfTokens(c)
      PROVE  [Chain!Next]_Chain!vars
  <2>1. UNCHANGED <<dbVars, over>>
    BY <1>2 DEF Send, SignIn, SignOut, Hear, Break, Admit, Deny, RefuseRotation, OutOfTokens,
                Unheard, StartRefresh, Receive, Resend, ReceiveRefusal, ReceiveShut, ReceiveLeft
  <2> QED BY <2>1, QuietImplements
<1>3. ASSUME NEW c \in Calls, Authenticate(c) PROVE Chain!Next
  <2>1. issued + 1 \in Tokens /\ Issue(c, issued + 1) /\ UNCHANGED over
    BY <1>3 DEF Inv, Authenticate, Issue, TypeOK, Tokens, Pair, None
  <2>2. Chain!Continue(issued + 1) BY <1>3, <2>1, AuthenticateStep, IssueContinues
  <2> QED BY <2>2 DEF Chain!Next, Chain!Open
<1>4. ASSUME NEW c \in Calls, Rotate(c) PROVE Chain!Next
  <2> DEFINE r == call[c].token
  <2>1. r \in Tokens /\ status[r] = "live" /\ session[r] \notin over
    BY <1>4 DEF Inv, HoldsOwn, Rotate, Rotatable
  <2>2. session[r] \in Tokens BY <2>1 DEF Inv, HasSession
  <2>3. Issue(c, session[r]) /\ UNCHANGED over BY <1>4 DEF Rotate
  <2>4. /\ HeirsOf[session[r]] # {}
        /\ \A x \in Tokens : Heirs(x)' = IF x = session[r] THEN {issued + 1} ELSE Heirs(x)
    BY <1>4, <2>2, RotateStep DEF HeirsOf
  <2> HIDE DEF r
  <2>5. Chain!Continue(session[r]) BY <2>2, <2>3, <2>4, IssueContinues
  <2>6. Chain!Rotate(session[r]) BY <2>1, <2>4, <2>5 DEF HeirsOf, Chain!Rotate
  <2> QED BY <2>2, <2>6 DEF Chain!Next, Tokens
<1>5. ASSUME NEW t \in Tokens, AccessExpires(t) PROVE UNCHANGED Chain!vars
  BY <1>5, QuietImplements DEF AccessExpires
<1>6. ASSUME NEW t \in Tokens, SessionExpires(t) PROVE Chain!Next
  <2>1. HeirsOf' = HeirsOf BY <1>6 DEF HeirsOf, Heirs, SessionExpires, dbVars
  <2>2. t \in 1..issued BY <1>6 DEF SessionExpires, Inv, TypeOK, Tokens, Pair, None
  <2>3. Chain!Expire(t) BY <1>6, <2>1, <2>2 DEF HeirsOf, SessionExpires, dbVars, Chain!Expire
  <2> QED BY <2>3 DEF Chain!Next, Tokens
<1> QED BY <1>1, <1>2, <1>3, <1>4, <1>5, <1>6, SettleImplements DEF Next, Serve

\* At first no session has an heir.
LEMMA InitImplements == ASSUME Init PROVE Chain!Init
<1>1. HeirsOf = [s \in Tokens |-> {}] BY DEF Init, HeirsOf, Heirs
<1> QED BY <1>1 DEF Init, HeirsOf, Chain!Init, Tokens

\* The handlers of login, refresh and logout, with all that can be lost or overtaken,
\* implement the chain of tokens: each of their steps opens a session, puts one token
\* in the place of the one that continued it, ends it or changes no chain.
THEOREM SessionsImplementChain == Spec => ImplementsSessionChain
<1>1. Init => Chain!Init BY InitImplements
<1>2. Inv /\ [Next]_vars => [Chain!Next]_Chain!vars BY StepImplements
<1> QED BY <1>1, <1>2, AlwaysInv, PTL DEF Spec, ImplementsSessionChain, Chain!Spec

-----------------------------------------------------------------------------
(* The safety half of ClosedShutsOut.                                      *)

\* The access tokens a session still has, and that a closed session gets none.
AccessTokens(s) == {t \in Tokens : session[t] = s /\ fresh[t]}
NoRenewal == \A s \in Tokens : Closed(s) => AccessTokens(s)' \subseteq AccessTokens(s)

\* The access token that is issued is for a session that is not closed.
LEMMA IssueRenewsOpen ==
  ASSUME Inv, NEW c \in Calls, NEW s \in Tokens, Issue(c, s), ~Closed(s)
  PROVE  NoRenewal
<1>1. /\ session' = [session EXCEPT ![issued + 1] = s]
      /\ fresh' = [fresh EXCEPT ![issued + 1] = TRUE]
      /\ session \in [Tokens -> Pair] /\ fresh \in [Tokens -> BOOLEAN]
  BY DEF Issue, Inv, TypeOK
<1> SUFFICES ASSUME NEW x \in Tokens, Closed(x), NEW t \in AccessTokens(x)'
             PROVE  t \in AccessTokens(x)
  BY DEF NoRenewal
<1>2. t \in Tokens /\ session'[t] = x /\ fresh'[t] BY DEF AccessTokens
<1>3. t # issued + 1 BY <1>1, <1>2
<1> QED BY <1>1, <1>2, <1>3 DEF AccessTokens

\* No other step makes an access token good or changes what it is for.
LEMMA OtherStepsRenewNone ==
  ASSUME Inv, UNCHANGED session,
         fresh' = fresh \/ \E t \in Tokens : fresh' = [fresh EXCEPT ![t] = FALSE]
  PROVE  NoRenewal
BY DEF NoRenewal, AccessTokens, Inv, TypeOK

\* authMiddleware never looks at the session: what shuts the user of a closed session
\* out is that no step gives it another access token, so those it has only expire.
THEOREM ClosedOnlyAges == Spec => [][NoRenewal]_vars
<1>1. ASSUME Inv, NEW c \in Calls, Authenticate(c) PROVE NoRenewal
  <2>1. issued + 1 \in Tokens /\ Issue(c, issued + 1) /\ issued + 1 \notin 1..issued
    BY <1>1, SessionsAssumption DEF Inv, Authenticate, Issue, TypeOK, Tokens, Pair, None
  <2> QED BY <1>1, <2>1, IssueRenewsOpen DEF Closed
<1>2. ASSUME Inv, NEW c \in Calls, Rotate(c) PROVE NoRenewal
  <2>1. call[c].token \in Tokens /\ status[call[c].token] = "live"
    BY <1>2 DEF Inv, HoldsOwn, Rotate, Rotatable
  <2>2. PICK s \in Tokens : s = session[call[c].token] BY <1>2, <2>1 DEF Inv, HasSession
  <2>3. Issue(c, s) /\ ~Closed(s) BY <1>2, <2>2, RotateStep DEF Rotate, Closed
  <2> QED BY <1>2, <2>3, IssueRenewsOpen
<1>3. ASSUME Inv, NEW c \in Calls,
             \/ Send(c) \/ SignIn(c) \/ SignOut(c) \/ Hear(c) \/ Break(c)
             \/ Admit(c) \/ Deny(c) \/ RefuseRotation(c) \/ OutOfTokens(c)
             \/ Save(c) \/ Revoke(c) \/ HandlerFails(c)
      PROVE  NoRenewal
  <2>1. UNCHANGED <<session, fresh>>
    BY <1>3 DEF dbVars, Send, SignIn, SignOut, Hear, Break, Admit, Deny, RefuseRotation,
                OutOfTokens, Save, Revoke, HandlerFails, Unheard, StartRefresh, Receive, Resend,
                ReceiveRefusal, ReceiveShut, ReceiveLeft
  <2> QED BY <1>3, <2>1, OtherStepsRenewNone
<1>4. ASSUME Inv, NEW t \in Tokens, AccessExpires(t) \/ SessionExpires(t) PROVE NoRenewal
  BY <1>4, OtherStepsRenewNone DEF AccessExpires, SessionExpires, dbVars
<1>5. Inv /\ [Next]_vars => [NoRenewal]_vars
  BY <1>1, <1>2, <1>3, <1>4 DEF Next, Serve
<1> QED BY <1>5, AlwaysInv, PTL DEF Spec
=============================================================================
