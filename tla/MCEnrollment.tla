----------------------------- MODULE MCEnrollment -----------------------------
(* Enrollment for TLC: two agents were given the same token, the others use *)
(* local-bootstrap.                                                        *)
EXTENDS Enrollment

CONSTANTS t1, a1, a2

MCCredential == [a \in Agents |-> IF a \in {a1, a2} THEN t1 ELSE Local]
=============================================================================
