SPECIFICATION Spec
CONSTANTS
  MaxSeeds = 5
  MaxWorkers = 3
  MaxTail = 1
  MaxIter = 4
  NumBits = 2
  MaxDisabled = 1
  MaxNotSync = 1
  OldNums = {0, 2}
  OldLabels <- LastLabels
  OldCenters = {0, 4}
  Matrices <- TraceMatrices
INVARIANTS TypeOK DiesOnlyForLackOfSeeds CentersConsistent ConvergesToLocalOptimum SubdomainsPartitionTheSeeds LabelsFollowSubdomains
PROPERTIES CostNeverIncreases
