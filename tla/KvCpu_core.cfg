SPECIFICATION FairSpec
CONSTANTS
  Funcs <- MCFuncs
  Main <- MCMain
  Code <- MCCode
  Locals <- MCLocals
  None = None
  Parkable <- MCFuncs
  MaxDepth = 3
  AsyncPause = FALSE
  MaxCrashes = 2
CHECK_DEADLOCK FALSE
INVARIANTS TypeOK ChainIntact ArgsMatchCall RunsFramesLib ParkCoherent DoneIsClean
PROPERTIES LiveFramesKept PausedStaysPut ImplementsCallStack Halts
