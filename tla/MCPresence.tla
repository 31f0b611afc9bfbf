----------------------------- MODULE MCPresence -----------------------------
(* Two connections: of two users, or of one.                               *)
EXTENDS Presence

CONSTANTS c1, c2, u1, u2

MCConns == {c1, c2}

\* A second connection that is another user's or the same user's: a second
\* device or a reconnect.
MCTwoConns == [c \in MCConns |-> IF c = c1 THEN {u1} ELSE {u1, u2}]

\* The second connection is the same user's: a second device or a reconnect.
MCOneUser == [c \in MCConns |-> {u1}]
=============================================================================
