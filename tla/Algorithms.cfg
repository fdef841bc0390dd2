CONSTANTS
  MinSamples = 3
  MaxUnits = 2
  MaxPaths = 3
  FuzzyMin = 3
  MaxSets = 2
  MinScore = 12
  TargetSize = 2
  MinShards = 2
  MaxShards = 3
  Parity = 2
SPECIFICATION Spec
INVARIANTS
  PlanIsFair
  ChoiceIsBest
  ConsensusIsMajority
  FrameIsTrue
  PoliciesSettle
  ProfileIsTrue
CHECK_DEADLOCK FALSE
