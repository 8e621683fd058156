SPECIFICATION Spec
CONSTANTS
  MaxQueue = 3
  Batch = 2
  Flushers = {f1, f2}
  Faults = {"overlap"}
  MaxEvents = 3
  MaxFailures = 0
  MaxKills = 0
  None = None
INVARIANTS NothingLost
CHECK_DEADLOCK FALSE
