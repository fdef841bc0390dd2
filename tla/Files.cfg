SPECIFICATION FilesSpec
CONSTANTS
  d1 = d1
  d2 = d2
  Files = {f1, f2}
  MaxRuns = 2
  MaxEdits = 1
  Dirs = {d1, d2}
  DirsOf <- AnyDir
  Overlap = FALSE
  c1 = c1
  c2 = c2
  c3 = c3
  Calls = {c1, c2, c3}
  Target <- TwoPaths
  Owner <- TwoProcesses
  MaxClock = 1
  CoarseClock = TRUE
INVARIANTS Recoverable UndoComplete TargetIntact
PROPERTIES ListedBackupsStay ReplacementSpec
SYMMETRY FileSymmetry
CHECK_DEADLOCK FALSE
