SPECIFICATION Spec
CONSTANTS
  Events = {e1, e2}
  Cap = 2
  Posters = {p1, p2}
  Reprocessors = {r1}
  Together = {"post"}
  BoardDeletion = FALSE
  MaxId = 3
  MaxRestarts = 1
  None = None
CHECK_DEADLOCK FALSE
INVARIANTS NothingForgotten
