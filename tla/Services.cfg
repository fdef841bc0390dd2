CONSTANTS
  header = header
  batch = batch
  ahead = ahead
  first = first
  second = second
  Records = 4
  Capacity = 2
  Buffer = 1
  Pipe = 1
  file = file
  other = other
  Options = {"lax", "strict"}
  Changes = 1
  Calls <- CallsMC
  Given <- GivenMC
  Lanes <- LanesMC
SPECIFICATION SpecBoth
INVARIANTS
  AnswersMatch
  ReportAccounts
  HitIsTrue
PROPERTIES
  ServicesReturn
CHECK_DEADLOCK FALSE
