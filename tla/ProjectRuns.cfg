CONSTANTS
  header = header
  user = user
  a = a
  b = b
  Files <- FilesMC
  Symbols <- SymbolsMC
  MaxNodes = 5
  MaxEdges = 6
  Retention = 1
  TombstoneRetention = 1
  Hops = 1
  StablePasses = 2
  ConfiguredLevel = 0
  Runs = {1, 2}
  Projects <- ProjectsMC
  Edits <- EditsMC
  InitialText <- InitialTextMC
  LearnOnCheck = TRUE
SPECIFICATION Spec
INVARIANTS
  GraphConsistent
  LearnedOnce
  MovedByEvidence
  ClosedByEvidence
  JournalIsTrue
CHECK_DEADLOCK FALSE
