SPECIFICATION Spec
CONSTANTS
  a = a
  b = b
  c = c
  Worker = {a, b, c}
  Early = {a, b}
  NumSeeds = 3
  FACTOR = 5
  WIDTH = 16
  MaxDivisions = 2
  MaxMeasured = 3
  MaxImports = 1
  MaxSends = 1
  MaxReports = 0
SYMMETRY Symmetry
INVARIANT
  SenderHasItems
