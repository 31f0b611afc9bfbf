\* Two connections, two workers, a queue that is full with one task; one of the
\* requests may be malformed or of a method that is not served.
CONSTANTS
  w1 = w1
  w2 = w2
  Nobody = Nobody
  MaxConns = 2
  Asks <- AnyThenServed
  Workers = {w1, w2}
  QueueMaxSize = 0
SPECIFICATION FairSpec
INVARIANT OnlyDeadlineSilences
PROPERTIES EveryRequestEnds ImplementsExchange
CHECK_DEADLOCK FALSE
