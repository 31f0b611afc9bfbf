---------------------------- MODULE MCRelations ----------------------------
(* Two users on two servers, and lists that name a user once or twice.      *)
EXTENDS Relations, TLC

CONSTANTS u1, u2, h1, h2

\* The two users in both orders, and one of them twice.
Lists == {<<u1, u2>>, <<u2, u1>>, <<u1, u1>>, <<u2, u2>>}

\* Three requests or a group: no operation concerns both.
TableSizes == {<<0, 0>>, <<1, 0>>, <<2, 0>>, <<3, 0>>, <<0, 1>>}

Symmetry == Permutations({h1, h2}) \cup Permutations({u1, u2})
=============================================================================
