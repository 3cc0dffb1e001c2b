SPECIFICATION FairSpec
CONSTANTS
  Funcs <- MCFuncs
  Main <- MCMain
  Code <- Entry
  MaxDepth = 2
  MaxVids = 5
  MaxCrashes = 1
  None = None
CHECK_DEADLOCK FALSE
INVARIANTS TypeOK ChainKept ParkCoherent
PROPERTIES RunBlocks SpawnedOnce EachIsACallStack Ends
