\* Two workers; two devices of one user and one of another, who share a queue.
CONSTANTS
  s1 = s1
  s2 = s2
  s3 = s3
  Sessions <- MCSessions
  Uid <- MCSharedByThree
  WorkerCount = 2
  QueueMaxSize = 1
  MaxPosts = 2
SPECIFICATION FairSpec
INVARIANT NoSleepOverWork
PROPERTIES ImplementsMailbox AcceptedIsHandled
CHECK_DEADLOCK FALSE
