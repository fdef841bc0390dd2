SPECIFICATION Spec
CONSTANTS
  f1 = f1
  f2 = f2
  Files = {f1, f2}
  Scenarios <- PassScenarios
  SynthesisCap = 2
  IdentityShift = 1
  ErrorWeight = 6
  RatioTolerance = 1
  NoResult = NoResult
  NoParse = NoParse
CHECK_DEADLOCK FALSE
INVARIANTS LostOnlyToRaces RemovalInUseIsReported LayoutKeepsSymbols
