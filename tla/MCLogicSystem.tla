---------------------------- MODULE MCLogicSystem ----------------------------
(* Two workers and three sessions.                                         *)
EXTENDS LogicSystem

CONSTANTS s1, s2, s3

MCSessions == {s1, s2, s3}

\* Two devices of user 2 and one of user -1; both users are served by queue 0.
\* A uid that is not positive is one the code can meet: GateServer asks for a
\* token for the uid its lookup returned, -1 when the lookup failed.
MCSharedByThree == [s \in MCSessions |-> IF s = s3 THEN -1 ELSE 2]
=============================================================================
