---------------------------- MODULE MCLoginToken ----------------------------
EXTENDS LoginToken, TLC

CONSTANTS u1, u2, k1, k2, k3

\* Calls differ in nothing, and neither do users.
Symmetry == Permutations({k1, k2, k3}) \cup Permutations({u1, u2})
=============================================================================
