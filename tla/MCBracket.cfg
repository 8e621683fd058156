\* Every tree of up to five players with and up to seven without a lucky loser; results are
\* entered, corrected and cleared by hand, and players deleted and merged.
CONSTANTS
  Pending = Pending
  Nobody = Nobody
  Players <- BracketPlayers
  Removable = {1}
  Tournaments <- One
  Setups <- BracketSetups
  Orders = {}
  Sides <- Both
  MaxMatches = 0
  Outcomes = {}
  MaxTime = 0
  MaxDelay = 0
  MaxManual = 20
  MaxUpsets = 1
  Skew = 1
SPECIFICATION Spec
INVARIANTS
  NeverStuck OnePlaceAtATime OutIsFinal PlacesAddUp NoQuickRematch LegsOnTheirSide RecordsFitPlaces NoStaleResult StatusTracksTree
CHECK_DEADLOCK FALSE
