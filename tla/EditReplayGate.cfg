SPECIFICATION Spec
CONSTANTS
  End = End
  Words = {a}
  MaxBefore = 5
  MaxAfter = 2
  MaxStrips = 1
INVARIANTS ErrorLinesAreNotEdited
