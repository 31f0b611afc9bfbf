\* A second connection of a user while the first one ends.
CONSTANTS
  c1 = c1
  c2 = c2
  u1 = u1
  u2 = u2
  None = None
  Conns <- MCConns
  Users = {u1}
  LoginAs <- MCOneUser
  OneLogin = TRUE
  Unlucky = {c1}
SPECIFICATION Spec
INVARIANT ReachableWhileConnected
CHECK_DEADLOCK FALSE
