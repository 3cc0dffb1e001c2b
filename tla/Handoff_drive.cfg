SPECIFICATION FairSpec
CONSTANTS
  Runtimes <- MCRuntimes
  Executors <- MCExecutors
  Serves <- MCServes
  Strict <- MCStrict
  Registered <- MCQueued
  Code <- Mixed
  MaxCrashes = 1
  None = None
CHECK_DEADLOCK FALSE
INVARIANTS TypeOK AtMostOnce GivenUpIsUnserved
PROPERTIES NoneSkipped AnswerMovesPc WatchEnds Moves
