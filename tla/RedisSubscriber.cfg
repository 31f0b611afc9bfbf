\* Two calling threads, two channels, three calls, two messages.
CONSTANTS
  i1 = i1
  i2 = i2
  x = x
  y = y
  Loop = Loop
  Nobody = Nobody
  Callers = {i1, i2}
  Channels = {x, y}
  MaxCalls = 3
  MaxMessages = 2
SPECIFICATION FairSpec
INVARIANTS TypeOK LossesAreStrays
PROPERTIES ImplementsFeed StuckOnlyInBuffer
CHECK_DEADLOCK FALSE
