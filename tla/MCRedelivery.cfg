\* A finished match is delivered again while the next pairing is ready.
CONSTANTS
  Pending = Pending
  Nobody = Nobody
  Players <- TournamentPlayers
  Removable = {}
  Tournaments <- One
  Setups <- TournamentSetups
  Orders = {}
  Sides <- Upper
  MaxMatches = 2
  Outcomes <- TournamentOutcomes
  MaxTime = 3
  MaxDelay = 1
  MaxManual = 0
  MaxUpsets = 1
  Skew = 1
SPECIFICATION Spec
PROPERTIES
  ReadinessKept
CHECK_DEADLOCK FALSE
