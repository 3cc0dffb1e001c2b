SPECIFICATION Spec
CONSTANTS
  Funcs <- MCFuncs
  Main <- MCMain
  Code <- MCCode
  Locals <- MCLocals
  None = None
  Parkable <- WideG
  MaxDepth = 3
  AsyncPause = FALSE
  MaxCrashes = 0
CHECK_DEADLOCK FALSE
INVARIANTS RunsFramesLib
