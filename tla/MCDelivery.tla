----------------------------- MODULE MCDelivery -----------------------------
(* Users a and b on servers s1 and s2; b may have a session on each.        *)
EXTENDS Delivery

CONSTANTS s1, s2, a, b, c, a1, b1, b2

MCHome == [x \in Sessions |-> IF x = b2 THEN s2 ELSE s1]

MCUser == [x \in Sessions |-> IF x = a1 THEN a ELSE b]

\* For GroupAtMostOnce: all but a are on the other server, and b2 is c's.
MCHomeAway == [x \in Sessions |-> IF x = a1 THEN s1 ELSE s2]
MCUserEach == [x \in Sessions |-> IF x = a1 THEN a ELSE IF x = b1 THEN b ELSE c]

\* a writes to b and to the group, and b answers from the other server.
MCTraffic == {<<a1, b>>, <<a1, Group>>, <<b2, a>>}
=============================================================================
