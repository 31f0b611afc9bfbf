\* Two nested operations and a plain one, a session and room for one too many;
\* a session breaks, and the pool is closed at any moment or never.
CONSTANTS
  o1 = o1
  o2 = o2
  o3 = o3
  s1 = s1
  s2 = s2
  NoSession = NoSession
  Ops = {o1, o2, o3}
  Nested = {o1, o2}
  PoolSize = 1
  Sessions = {s1, s2}
  MaxBreaks = 1
SPECIFICATION PoolFairSpec
INVARIANTS Exclusive NoSleepOverSession
PROPERTIES CloseFreesAll WaitsOnlyWhenExhausted
CHECK_DEADLOCK FALSE
