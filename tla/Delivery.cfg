\* Two messages: of a to b or to the group, or of b to a from the other server; b comes
\* and goes on two servers, joins and leaves the group, and c never logs in.
CONSTANTS
  s1 = s1
  s2 = s2
  a = a
  b = b
  c = c
  a1 = a1
  b1 = b1
  b2 = b2
  Group = Group
  None = None
  Subscriber = Subscriber
  Servers = {s1, s2}
  Users = {a, b, c}
  Sessions = {a1, b1, b2}
  Home <- MCHome
  User <- MCUser
  Traffic <- MCTraffic
  MaxMsgs = 2
  MaxToGroup = 1
  Movers = {b}
  Leavers = {b1}
  Present = {a1, b1}
  Fragile = {s1}
  MaxFaults = 1
SPECIFICATION Spec
INVARIANTS OnlyAddressees PrivateAtMostOnce InOrderAcrossServers 
CHECK_DEADLOCK FALSE
