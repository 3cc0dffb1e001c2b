SPECIFICATION Spec
CONSTANTS
  Funcs <- MCFuncs
  Main <- MCMain
  Code <- MCCode
  Locals <- MCLocals
  None = None
  Parkable <- MCFuncs
  MaxDepth = 3
  AsyncPause = TRUE
  MaxCrashes = 0
CHECK_DEADLOCK FALSE
INVARIANTS PausedIsResumable
