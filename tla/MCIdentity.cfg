SPECIFICATION MCSpec
CONSTANTS
  tim = tim
  tom = tom
  Players = {1, 2, 3}
  Boards = {b1, b2}
  Codes = {k1, k2}
  Chips = {chip}
  Nobody = Nobody
  TTL = 2
  Early = 1
  Hold = 1
  Keep = 2
  Matches = {m1, m2}
  Bases = {tim, tom}
  Accounts = {x, y}
  Variants = 3
  MaxDelay = 1
  None = None
  NoName = NoName
  NoCode = NoCode
  NoAccount = NoAccount
  NoBoard = NoBoard
  Ignored = Ignored
  Scenarios = {"names", "codes", "checkins"}
  MaxAdminSteps = 2
  MaxCodeSteps = 1
  MaxTime = 5
  MaxCheckins = 3
SYMMETRY Alike
CHECK_DEADLOCK FALSE
INVARIANTS TypeOK PromisedCodeWorks BookingStable
PROPERTIES ProtectedNeedsProof
