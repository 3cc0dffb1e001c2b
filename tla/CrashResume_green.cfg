SPECIFICATION Spec
CONSTANTS
  Ops = {"add", "set"}
  Permitting = {"set"}
  Operands = {"i", "1", "p", "*p", "/g"}
  NoName = ""
  Trim <- MCTrim
  Globals = {"/g"}
  Slots = {"i", "1", "p", "t", "/g"}
  Key <- MCKey
  Functions <- Unsafe
  MaxCrashes = 1
CHECK_DEADLOCK FALSE
INVARIANT NoFalseGreen
