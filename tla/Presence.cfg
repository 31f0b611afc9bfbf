\* Two connections, of two users or of one.
CONSTANTS
  c1 = c1
  c2 = c2
  u1 = u1
  u2 = u2
  None = None
  Conns <- MCConns
  Users = {u1, u2}
  LoginAs <- MCTwoConns
  OneLogin = TRUE
  Unlucky = {c1}
SPECIFICATION Spec
INVARIANTS OnlineIsSubscribed SoleSessionReachable DeadNotRouted
CHECK_DEADLOCK FALSE
