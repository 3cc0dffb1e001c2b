SPECIFICATION Spec
CONSTANTS
  Ops = {"new", "add", "copy", "set"}
  Permitting = {"copy", "set"}
  Operands = {"a", "b", "p", "*p", "/g"}
  NoName = ""
  Trim <- MCTrim
  Globals = {"/g"}
  Slots = {"a", "b", "p", "t", "/g"}
  Key <- MCKey
  Functions <- MCFunctions
  MaxCrashes = 1
CHECK_DEADLOCK FALSE
INVARIANTS WalksUp Resumable Anchored ReplaySound
