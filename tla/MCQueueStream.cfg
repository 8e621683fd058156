SPECIFICATION FairSpec
CONSTANTS
  MaxQueue = 3
  Batch = 2
  Flushers = {f1, f2}
  Faults = {"browser", "crash"}
  MaxEvents = 4
  MaxFailures = 2
  MaxKills = 1
  None = None
INVARIANTS TypeOK NothingLost
PROPERTIES StreamSpec EventuallySent
CHECK_DEADLOCK FALSE
