SPECIFICATION Spec
CONSTANTS
  MaxSeeds = 4
  MaxWorkers = 2
  MaxTail = 1
  MaxIter = 4
  NumBits = 1
  MaxDisabled = 0
  MaxNotSync = 0
  OldNums = {0, 2}
  OldLabels <- LastLabels
  OldCenters = {0, 4}
  Matrices <- TraceMatrices
INVARIANTS EnoughSeedsToDivide
