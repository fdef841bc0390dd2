SPECIFICATION Spec
CONSTANTS
  End = End
  Words = {a, b}
  MaxBefore = 3
  MaxAfter = 4
  MaxStrips = 1
SYMMETRY WordSymmetry
INVARIANTS ReplayInvertsRecording RecordedEditsExplain ForbiddenLinesSurvive
