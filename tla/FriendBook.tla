----------------------------- MODULE FriendBook -----------------------------
(***************************************************************************)
(* What the ChatServer promises about friends, whatever its handlers do at *)
(* the same time and whichever of their statements fail: two users become  *)
(* friends only after one asked the other and the other accepted, and      *)
(* nobody is told so before it is stored.  Nothing is ever taken back: the *)
(* server has no operation that ends a friendship.                         *)
(***************************************************************************)
CONSTANT Pairs         \* the pairs of users, as sets of two

VARIABLES asked,       \* the pairs of which one asked the other
          agreed,      \* those of which the other accepted
          friends,     \* those entered as friends
          announced    \* those told that they are

vars == <<asked, agreed, friends, announced>>

Init == asked = {} /\ agreed = {} /\ friends = {} /\ announced = {}

Ask(p) == asked' = asked \cup {p} /\ UNCHANGED <<agreed, friends, announced>>

Agree(p) ==
  /\ p \in asked
  /\ agreed' = agreed \cup {p}
  /\ UNCHANGED <<asked, friends, announced>>

Befriend(p) ==
  /\ p \in agreed
  /\ friends' = friends \cup {p}
  /\ UNCHANGED <<asked, agreed, announced>>

Announce(p) ==
  /\ p \in friends
  /\ announced' = announced \cup {p}
  /\ UNCHANGED <<asked, agreed, friends>>

Next == \E p \in Pairs : Ask(p) \/ Agree(p) \/ Befriend(p) \/ Announce(p)

Spec == Init /\ [][Next]_vars

\* Nobody is told of a friendship that is not stored, and none is stored that was
\* not asked for and agreed to.
InOrder == announced \subseteq friends /\ friends \subseteq agreed /\ agreed \subseteq asked
=============================================================================
