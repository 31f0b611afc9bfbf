\* Two users, three tokens, three calls that may overlap.
CONSTANTS
  u1 = u1
  u2 = u2
  k1 = k1
  k2 = k2
  k3 = k3
  NoToken = NoToken
  Users = {u1, u2}
  Calls = {k1, k2, k3}
  MaxTokens = 3
SPECIFICATION Spec
SYMMETRY Symmetry
INVARIANTS NoSupersededToken UsedUpOnReturn NewestStaysValid
CHECK_DEADLOCK FALSE
