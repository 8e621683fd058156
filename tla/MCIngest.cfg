SPECIFICATION MCSpec
CONSTANTS
  ann = ann
  bob = bob
  cem = cem
  Players = {ann, bob, cem}
  Slots <- MCSlots
  LegIds <- ThreeLegs
  Reports <- MCReports
  Courses <- MCCourses
  InitialClaim <- MCClaim
  Guests = {0}
  None = None
  Bot = Bot
  Ignored = Ignored
  Waiting = Waiting
  Scenarios = {"orders", "administrators", "stream"}
  MaxAdminSteps = 2
CHECK_DEADLOCK FALSE
INVARIANTS
  TypeOK OneBookingPerLeg RebuildChangesNothing LegsPlayedExact
  AssignedSlotCounts OneMatchWinner WaitingSlotsDoNotCount RepetitionChangesNothing
PROPERTIES FinishedSticks
