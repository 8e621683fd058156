SPECIFICATION MCSpec
CONSTANTS
  None = None
  Bot = Bot
  tim = tim
  tom = tom
  jan = jan
  m1 = m1
  m2 = m2
  Players = {tim, tom, jan}
  Matches = {m1, m2}
  DayLength = 2
  Base = 301
  Menu <- MCMenu
  MaxTurns = 4
  MaxTime = 3
  Targets = {1, 2}
  Variants = {"X01", "Cricket"}
  Pairings <- MCPairings
  Sources <- MCSources
  Scenarios = {"leg", "legs", "season"}
INVARIANTS TypeOK LegRowsAreTheLeg ResultSurvives PagesAgree QuotientsAreTrue PeriodsAddUp
CHECK_DEADLOCK FALSE
