SPECIFICATION FairSpec
CONSTANTS
  c1 = c1
  r1 = r1
  r2 = r2
  r3 = r3
  Requests = {r1, r2, r3}
  Clients = {c1}
  ClientOf <- Submitters
  BodyOf <- Bodies
  Limit = 1
  Window = 2
  Horizon = 5
  Processes = {"api", "seed"}
  Files <- TwoFiles
  Streams = 1
  Boots = 2
CHECK_DEADLOCK FALSE
INVARIANTS
  TypeOK
  RecordedIsApplied
  MigratedIsComplete
  AtMostLimit
  RejectedLeavesLog
  NothingRemembered
  AnswersAreTrue
PROPERTIES
  RetryAfterServes
  StopsUnlessWatched
