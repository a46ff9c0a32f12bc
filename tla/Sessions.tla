------------------------------- MODULE Sessions -------------------------------
(***************************************************************************)
(* Sessions of one operator in one browser: the tables user_sessions and   *)
(* refresh_tokens, the handlers login, refresh, logout and the access check*)
(* of app.go, and the API client that keeps one pair of tokens in a        *)
(* localStorage all tabs share and refreshes it when a call is answered    *)
(* 401.                                                                    *)
(*                                                                         *)
(* Every login and every rotation issues one access and one refresh token: *)
(* the pair is named by its number, a session by the pair of its login.    *)
(* A refresh token outlives its session (30 days, 24 hours), so only the   *)
(* session's expiry matters.  Passwords, claims and roles are left out.    *)
(***************************************************************************)
EXTENDS Integers

CONSTANTS
  Calls,      \* the calls of the browser's tabs that can be in flight at a time
  MaxTokens,  \* bound: pairs of tokens ever issued
  MaxFaults   \* bound: failing handlers and broken connections

ASSUME SessionsAssumption == MaxTokens \in Nat /\ MaxFaults \in Nat

VARIABLES
  issued,   \* the number of pairs issued
  status,   \* status[t]: the refresh token t: no row yet, or its row
  session,  \* session[t]: the session the pair t was issued for
  fresh,    \* fresh[t]: the fifteen minutes of access token t are not over
  over,     \* the sessions whose 24 hours are over
  stored,   \* the pair in the browser's localStorage
  call,     \* call[c]: a call of the browser, from its request to its answer
  faults    \* faults so far

dbVars == <<issued, status, session>>
vars == <<dbVars, fresh, over, stored, call, faults>>

None == 0
Tokens == 1..MaxTokens
Pair == {None} \cup Tokens

\* A call waits for the server in AtServer, for the browser in the other phases.
\* token: the access token of a request, the refresh token presented, or the
\* pair that was issued.  heard: the tab still waits for the answer.
AtServer == {"sent", "resent", "signing", "asking", "issued", "leaving"}
Answered == {"denied", "shut", "granted", "refused", "left"}
CallRow == [phase : {"idle", "received"} \cup AtServer \cup Answered,
            kind : {"api", "login", "logout"}, token : Pair, heard : BOOLEAN]
NoCall == [phase |-> "idle", kind |-> "api", token |-> None, heard |-> TRUE]

TypeOK ==
  /\ issued \in Pair
  /\ status \in [Tokens -> {"none", "pending", "live", "spent", "dropped"}]
  /\ session \in [Tokens -> Pair]
  /\ \A t \in Tokens : /\ session[t] <= t
                       /\ status[t] = "none" <=> t > issued
  /\ fresh \in [Tokens -> BOOLEAN]
  /\ over \in SUBSET Tokens
  /\ stored \in Pair
  /\ call \in [Calls -> CallRow]
  /\ faults \in 0..MaxFaults

Init ==
  /\ issued = 0
  /\ status = [t \in Tokens |-> "none"]
  /\ session = [t \in Tokens |-> None]
  /\ fresh = [t \in Tokens |-> FALSE]
  /\ over = {}
  /\ stored = None
  /\ call = [c \in Calls |-> NoCall]
  /\ faults = 0

-----------------------------------------------------------------------------
(* The browser starts a call with what localStorage holds at that moment.  *)

Goto(c, phase) == call' = [call EXCEPT ![c].phase = phase]
Done(c) == call' = [call EXCEPT ![c] = NoCall]
Start(c, phase, kind, t) ==
  call' = [call EXCEPT ![c] = [phase |-> phase, kind |-> kind, token |-> t, heard |-> TRUE]]

Send(c) ==
  /\ call[c].phase = "idle"
  /\ Start(c, "sent", "api", stored)
  /\ UNCHANGED <<dbVars, fresh, over, stored, faults>>

SignIn(c) ==
  /\ call[c].phase = "idle"
  /\ Start(c, "signing", "login", None)
  /\ UNCHANGED <<dbVars, fresh, over, stored, faults>>

SignOut(c) ==
  /\ call[c].phase = "idle"
  /\ Start(c, "leaving", "logout", stored)
  /\ UNCHANGED <<dbVars, fresh, over, stored, faults>>

-----------------------------------------------------------------------------
(* The handlers.                                                           *)

Valid(access) == access # None /\ fresh[access]

\* The access check looks at the token alone, never at its session.
Admit(c) ==
  /\ call[c].phase \in {"sent", "resent"}
  /\ Valid(call[c].token)
  /\ Done(c)
  /\ UNCHANGED <<dbVars, fresh, over, stored, faults>>

Deny(c) ==
  /\ call[c].phase \in {"sent", "resent"}
  /\ ~Valid(call[c].token)
  /\ Goto(c, IF call[c].phase = "sent" THEN "denied" ELSE "shut")
  /\ UNCHANGED <<dbVars, fresh, over, stored, faults>>

\* The pair is signed at once, the refresh token is inserted later (Save).
Issue(c, s) ==
  LET t == issued + 1 IN
  /\ issued < MaxTokens
  /\ issued' = t
  /\ session' = [session EXCEPT ![t] = s]
  /\ fresh' = [fresh EXCEPT ![t] = TRUE]
  /\ call' = [call EXCEPT ![c].phase = "issued", ![c].token = t]

Authenticate(c) ==
  /\ call[c].phase = "signing"
  /\ Issue(c, issued + 1)
  /\ status' = [status EXCEPT ![issued + 1] = "pending"]
  /\ UNCHANGED <<over, stored, faults>>

\* The refresh tokens of session s that can be rotated or are about to be saved.
Heirs(s) == {t \in Tokens : session[t] = s /\ status[t] \in {"live", "pending"}}

\* Mutant: a spent token is good again when its successor was never saved.
RotatableAfterLoss(t) ==
  /\ session[t] \notin over
  /\ status[t] = "live" \/ (status[t] = "spent" /\ Heirs(session[t]) = {})

Rotatable(t) == status[t] = "live" /\ session[t] \notin over

\* Mutant: the token that was rotated is not marked.
RotateUnmarked(c) ==
  LET r == call[c].token IN
  /\ call[c].phase = "asking"
  /\ Rotatable(r)
  /\ Issue(c, session[r])
  /\ status' = [status EXCEPT ![issued + 1] = "pending"]
  /\ UNCHANGED <<over, stored, faults>>

\* The row is read FOR UPDATE: of two rotations of one token the second reads
\* it again after the first has committed.
Rotate(c) ==
  LET r == call[c].token IN
  /\ call[c].phase = "asking"
  /\ Rotatable(r)
  /\ Issue(c, session[r])
  /\ status' = [status EXCEPT ![r] = "spent", ![issued + 1] = "pending"]
  /\ UNCHANGED <<over, stored, faults>>

RefuseRotation(c) ==
  /\ call[c].phase = "asking"
  /\ ~Rotatable(call[c].token)
  /\ Goto(c, "refused")
  /\ UNCHANGED <<dbVars, fresh, over, stored, faults>>

Save(c) ==
  /\ call[c].phase = "issued"
  /\ status' = [status EXCEPT ![call[c].token] = "live"]
  /\ Goto(c, "granted")
  /\ UNCHANGED <<issued, session, fresh, over, stored, faults>>

\* An access token that expired names no session to revoke, and still the
\* answer is 204.
Revoke(c) ==
  LET a == call[c].token IN
  /\ call[c].phase = "leaving"
  /\ status' = IF ~Valid(a) THEN status
               ELSE [t \in Tokens |-> IF status[t] = "live" /\ session[t] = session[a]
                                      THEN "spent" ELSE status[t]]
  /\ Goto(c, "left")
  /\ UNCHANGED <<issued, session, fresh, over, stored, faults>>

\* Mutant: the handler that fails takes the row of the pair back.
HandlerFailsForgetting(c) ==
  /\ faults < MaxFaults
  /\ faults' = faults + 1
  /\ call[c].phase = "issued"
  /\ status' = [status EXCEPT ![call[c].token] = "none"]
  /\ Goto(c, "refused")
  /\ UNCHANGED <<issued, session, fresh, over, stored>>

\* Before its first commit a handler fails without effect; between the commit
\* and Save the pair is lost; a login also fails when its audit row does.
HandlerFails(c) ==
  /\ faults < MaxFaults
  /\ faults' = faults + 1
  /\ \/ call[c].phase \in {"signing", "asking", "leaving"} /\ UNCHANGED status
     \/ call[c].phase = "granted" /\ call[c].kind = "login" /\ UNCHANGED status
     \/ /\ call[c].phase = "issued"
        /\ status' = [status EXCEPT ![call[c].token] = "dropped"]
  /\ Goto(c, "refused")
  /\ UNCHANGED <<issued, session, fresh, over, stored>>

\* Bound: when all pairs of the instance are issued the handlers fail.
OutOfTokens(c) ==
  /\ issued = MaxTokens
  /\ call[c].phase = "signing" \/ (call[c].phase = "asking" /\ Rotatable(call[c].token))
  /\ Goto(c, "refused")
  /\ UNCHANGED <<dbVars, fresh, over, stored, faults>>

-----------------------------------------------------------------------------
(* The browser receives an answer, if it still waits for it.               *)

Refreshing(c) == call[c].kind = "api" /\ call[c].phase \in {"asking", "issued", "granted"}

\* The connection breaks or the tab is closed; the server goes on.  A broken
\* refresh clears the tokens, a closed tab does nothing any more.
Break(c) ==
  /\ faults < MaxFaults
  /\ faults' = faults + 1
  /\ call[c].heard
  /\ call[c].phase \in {"signing", "asking", "issued", "granted", "leaving"}
  /\ call' = [call EXCEPT ![c].heard = FALSE]
  /\ stored' \in IF Refreshing(c) THEN {None, stored} ELSE {stored}
  /\ UNCHANGED <<dbVars, fresh, over>>

Unheard(c) ==
  /\ ~call[c].heard
  /\ call[c].phase \in Answered
  /\ Done(c)
  /\ UNCHANGED <<dbVars, fresh, over, stored, faults>>

\* The 401 of a call: refresh with what is stored by now.
StartRefresh(c) ==
  /\ call[c].phase = "denied" /\ call[c].heard
  /\ IF stored = None THEN Done(c) ELSE Start(c, "asking", "api", stored)
  /\ UNCHANGED <<dbVars, fresh, over, stored, faults>>

\* Mutant: the tokens of a refresh are used for the second try, not stored.
ReceiveForRetry(c) ==
  /\ call[c].phase = "granted" /\ call[c].heard
  /\ stored' = IF call[c].kind = "login" THEN call[c].token ELSE stored
  /\ IF call[c].kind = "login" THEN Done(c) ELSE Goto(c, "received")
  /\ UNCHANGED <<dbVars, fresh, over, faults>>

Receive(c) ==
  /\ call[c].phase = "granted" /\ call[c].heard
  /\ stored' = call[c].token
  /\ IF call[c].kind = "login" THEN Done(c) ELSE Goto(c, "received")
  /\ UNCHANGED <<dbVars, fresh, over, faults>>

Resend(c) ==
  /\ call[c].phase = "received"
  /\ Start(c, "resent", "api", stored)
  /\ UNCHANGED <<dbVars, fresh, over, stored, faults>>

\* Mutant: a refresh that fails leaves the tokens in place.
ReceiveRefusalKeeping(c) ==
  /\ call[c].phase = "refused" /\ call[c].heard
  /\ Done(c)
  /\ UNCHANGED <<dbVars, fresh, over, stored, faults>>

\* A refresh that fails, for whatever reason, clears the tokens: those that
\* are stored by now, which another call may have refreshed meanwhile.
ReceiveRefusal(c) ==
  /\ call[c].phase = "refused" /\ call[c].heard
  /\ stored' = IF call[c].kind = "api" THEN None ELSE stored
  /\ Done(c)
  /\ UNCHANGED <<dbVars, fresh, over, faults>>

\* The second 401 of a call is an error; ensureActor clears the tokens on it.
ReceiveShut(c) ==
  /\ call[c].phase = "shut" /\ call[c].heard
  /\ stored' \in {None, stored}
  /\ Done(c)
  /\ UNCHANGED <<dbVars, fresh, over, faults>>

ReceiveLeft(c) ==
  /\ call[c].phase = "left" /\ call[c].heard
  /\ stored' = None
  /\ Done(c)
  /\ UNCHANGED <<dbVars, fresh, over, faults>>

-----------------------------------------------------------------------------
\* Mutant: the access token of a rotation is signed without an expiry.
AccessExpiresOfLogin(t) ==
  /\ fresh[t] /\ session[t] = t
  /\ fresh' = [fresh EXCEPT ![t] = FALSE]
  /\ UNCHANGED <<dbVars, over, stored, call, faults>>

AccessExpires(t) ==
  /\ fresh[t]
  /\ fresh' = [fresh EXCEPT ![t] = FALSE]
  /\ UNCHANGED <<dbVars, over, stored, call, faults>>

SessionExpires(t) ==
  /\ t <= issued /\ session[t] = t /\ t \notin over
  /\ over' = over \cup {t}
  /\ UNCHANGED <<dbVars, fresh, stored, call, faults>>

Serve(c) ==
  \/ Admit(c) \/ Deny(c) \/ Authenticate(c) \/ Rotate(c) \/ RefuseRotation(c)
  \/ Save(c) \/ Revoke(c) \/ OutOfTokens(c)

Hear(c) ==
  \/ Unheard(c) \/ StartRefresh(c) \/ Receive(c) \/ Resend(c)
  \/ ReceiveRefusal(c) \/ ReceiveShut(c) \/ ReceiveLeft(c)

Next ==
  \/ \E c \in Calls : \/ Send(c) \/ SignIn(c) \/ SignOut(c) \/ Serve(c) \/ Hear(c)
                      \/ HandlerFails(c) \/ Break(c)
  \/ \E t \in Tokens : AccessExpires(t) \/ SessionExpires(t)

Spec == Init /\ [][Next]_vars

\* A handler that was called ends, the browser handles its answers, time goes on.
Fairness ==
  /\ \A c \in Calls : WF_vars(Serve(c)) /\ WF_vars(Hear(c))
  /\ \A t \in Tokens : WF_vars(AccessExpires(t))

FairSpec == Spec /\ Fairness

-----------------------------------------------------------------------------
(* Properties.                                                             *)

\* A session has one heir: however many calls present its refresh token at a
\* time, at most one token of the session can be rotated or is about to be saved
\* (RotateRefreshToken's lock and its rotated_at IS NULL).
OneHeir == \A s \in Tokens : \A t, u \in Heirs(s) : t = u

\* A session that was logged out or whose last rotation was lost in a crash is
\* never resumed: a logout that meets no refresh in flight is final, and no
\* token comes back to life (RevokeSession, RotateRefreshToken).  A consequence of
\* ImplementsSessionChain, stated for itself and proved in SessionsProofs.
Closed(s) == s \in 1..issued /\ Heirs(s) = {}
NoResumption == \A s \in Tokens : Closed(s) => Closed(s)'
ClosedStaysClosed == [][NoResumption]_vars

\* However many calls present, save, lose and revoke tokens of a session at a time,
\* each of their steps opens a session, puts the next token in the place of the one
\* that continued it, ends it, or does nothing at all.
Chain == INSTANCE SessionChain WITH heirs <- [s \in Tokens |-> Heirs(s)]
ImplementsSessionChain == Chain!Spec

\* Although authMiddleware never looks at the session, a closed session admits
\* nobody from some time on: nothing renews its access tokens.
ClosedShutsOut ==
  \A s \in Tokens : Closed(s) ~> [](\A t \in Tokens : session[t] = s => ~fresh[t])

\* Without faults, a browser whose stored refresh token cannot be rotated has
\* logged out, or a call is about to bring its successor: tabs that refresh at
\* a time do not leave one of them with the older of two tokens.
StoredIsCurrent ==
  stored # None /\ faults = 0 =>
    \/ Heirs(session[stored]) = {stored}
    \/ Closed(session[stored])
    \/ \E c \in Calls : /\ call[c].phase \in {"issued", "granted"}
                        /\ session[call[c].token] = session[stored]
                        /\ call[c].token > stored

\* A browser that is left with a spent token, by a lost answer, a crash between
\* rotation and Save or a late answer after a logout, does not stay so as long
\* as it is used: it gets a token that can be rotated, or is sent to the login.
Stranded == stored # None /\ status[stored] # "live"
StrandedRecovers ==
  (\A c \in Calls : SF_vars(Send(c))) => (Stranded ~> ~Stranded)
=============================================================================
