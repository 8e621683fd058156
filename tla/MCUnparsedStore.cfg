SPECIFICATION Spec
CONSTANTS
  Events = {e1, e2, e3}
  Cap = 2
  Posters = {p1, p2}
  Reprocessors = {r1}
  Together = {}
  BoardDeletion = TRUE
  MaxId = 4
  MaxRestarts = 1
  None = None
CHECK_DEADLOCK FALSE
INVARIANTS TypeOK NothingForgotten StoringResumes
