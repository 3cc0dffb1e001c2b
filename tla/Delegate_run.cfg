SPECIFICATION FairSpec
CONSTANTS
  Ops <- MCOps
  Backends <- MCBackends
  Knows <- MCKnows
  Local = {"mul"}
  Routed = {}
  Slots = {"x", "y"}
  Code <- MCCode
  MaxCrashes = 1
  None = None
CHECK_DEADLOCK FALSE
INVARIANTS TypeOK NoCollision NothingRunsBehind RoutedByDuty
PROPERTIES OwnResult Ends
