---------------------------- MODULE SessionChain ----------------------------
(***************************************************************************)
(* What refresh tokens promise of the sessions, with nothing of how: no    *)
(* requests, answers, locks or lost calls, and no browser.  A session is   *)
(* opened with a token that continues it; each rotation puts a new token in*)
(* the place of that one; when the token is given up the session has ended *)
(* for ever.  Module Sessions implements this specification.               *)
(***************************************************************************)
EXTENDS Naturals

CONSTANT MaxTokens  \* bound: pairs of tokens ever issued

VARIABLES
  issued,  \* the number of pairs issued; a session is named by its first
  heirs,   \* heirs[s]: the token that continues session s, as a set, or {}
  over     \* the sessions whose time is over

vars == <<issued, heirs, over>>

Init ==
  /\ issued = 0
  /\ heirs = [s \in 1..MaxTokens |-> {}]
  /\ over = {}

\* The next pair continues session s, and nothing else does.
Continue(s) ==
  /\ issued < MaxTokens
  /\ issued' = issued + 1
  /\ heirs' = [heirs EXCEPT ![s] = {issued + 1}]
  /\ UNCHANGED over

Open == Continue(issued + 1)

Rotate(s) ==
  /\ s \notin over
  /\ heirs[s] # {}
  /\ Continue(s)

\* A logout, or a pair that was lost before it was saved.
End(s) ==
  /\ heirs[s] # {}
  /\ heirs' = [heirs EXCEPT ![s] = {}]
  /\ UNCHANGED <<issued, over>>

Expire(s) ==
  /\ s \in 1..issued
  /\ over' = over \cup {s}
  /\ UNCHANGED <<issued, heirs>>

Next == Open \/ \E s \in 1..MaxTokens : Rotate(s) \/ End(s) \/ Expire(s)

Spec == Init /\ [][Next]_vars
=============================================================================
