SPECIFICATION Spec
CONSTANTS
  Funcs <- MCFuncs
  Main <- MCMain
  Code <- Called
  MaxDepth = 2
  MaxVids = 5
  MaxCrashes = 1
  None = None
CHECK_DEADLOCK FALSE
INVARIANT ChainKept
