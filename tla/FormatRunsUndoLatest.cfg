SPECIFICATION Spec
CONSTANTS
  d1 = d1
  d2 = d2
  Files = {f1}
  MaxRuns = 2
  MaxEdits = 1
  Dirs = {d1, d2}
  DirsOf <- OwnDir
  Overlap = FALSE
INVARIANT UndoRestoresLatestRun
CHECK_DEADLOCK FALSE
