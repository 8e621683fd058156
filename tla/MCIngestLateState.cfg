SPECIFICATION MCSpec
CONSTANTS
  ann = ann
  bob = bob
  cem = cem
  Players = {ann, bob, cem}
  Slots <- MCSlots
  LegIds <- ThreeLegs
  Reports <- StreamReports
  Courses <- MCCourses
  InitialClaim <- MCClaim
  Guests = {0}
  None = None
  Bot = Bot
  Ignored = Ignored
  Waiting = Waiting
  Scenarios = {"orders"}
  MaxAdminSteps = 0
CHECK_DEADLOCK FALSE
INVARIANTS BookedLegsAreArchived
