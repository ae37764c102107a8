------------------------------ MODULE MCLogin -------------------------------
(* Values of Auth for TLC: logins r1 and r2 use one authenticator, the others  *)
(* one that has a wrong password.                                              *)
EXTENDS Login

CONSTANTS r1, r2, right, wrong

Owner == [l \in Logins |-> IF l \in {r1, r2} THEN right ELSE wrong]
=============================================================================
