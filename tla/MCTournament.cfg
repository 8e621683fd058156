\* A tournament with a lucky loser and a second one for two of its players, recorded
\* matches that are delivered again, rebuilt and deleted.
CONSTANTS
  Pending = Pending
  Nobody = Nobody
  Players <- TournamentPlayers
  Removable = {}
  Tournaments <- Two
  Setups <- TournamentSetups
  Orders = {}
  Sides <- Upper
  MaxMatches = 2
  Outcomes <- TournamentOutcomes
  MaxTime = 1
  MaxDelay = 0
  MaxManual = 1
  MaxUpsets = 1
  Skew = 0
SPECIFICATION Spec
INVARIANTS
  TypeOK MatchUsedOnce DetachedStaysDetached LinkedResultsAgree
PROPERTIES
  SyncSettles
CHECK_DEADLOCK FALSE
