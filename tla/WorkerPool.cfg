SPECIFICATION Spec
CONSTANTS
  Slots = {s1, s2}
  NumBatches = 2
  MaxRestarts = 1
INVARIANTS NeverMismatch DeliveredOnce NoWorkerOutlivesSuccess CleanPassLearnsOnce
PROPERTIES PassEnds LedgerSpec
