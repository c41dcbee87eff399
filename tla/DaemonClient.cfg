SPECIFICATION FairSpec
CONSTANTS
  cli = cli
  other = other
  Client <- Clients
  Steps = 2
  RateMax = 2
  WindowMs = 1
  Faults = {"slow", "crash", "refuse", "throw", "plan"}
  MaxTime = 2
INVARIANTS TypeOK WrittenOnce StepsInOrder SuccessIsComplete RateBounded
PROPERTY OnlyACutAnswerHangs
CHECK_DEADLOCK FALSE
