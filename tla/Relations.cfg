\* Two users, two servers, two requests, one group.
CONSTANTS
  u1 = u1
  u2 = u2
  h1 = h1
  h2 = h2
  Users = {u1, u2}
  Handlers = {h1, h2}
  MemberLists <- Lists
  MaxRequests = 3
  MaxGroups = 1
  Sizes <- TableSizes
SPECIFICATION Spec
SYMMETRY Symmetry
INVARIANTS TypeOK RepliesAreTrue HalfDoneOnlyByFailure RacesAreBounded
PROPERTY ImplementsFriendBook
CHECK_DEADLOCK FALSE
