\* Frames of three pieces, a queue that overflows, a connection that may fail.
CONSTANTS
  QueueMaxSize = 3
  Pieces = 3
  MaxSends = 10
SPECIFICATION FairSpec
INVARIANT SilentAfterClose
PROPERTIES ImplementsChannel AcceptedIsReceived
CHECK_DEADLOCK FALSE
