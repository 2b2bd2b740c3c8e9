SPECIFICATION Spec
CONSTANTS
  a = a
  b = b
  c = c
  Worker = {a, b, c}
  Early = {a, b}
  NumSeeds = 3
  FACTOR = 1
  WIDTH = 16
  MaxDivisions = 3
  MaxMeasured = 3
  MaxImports = 2
  MaxSends = 0
  MaxReports = 0
SYMMETRY Symmetry
INVARIANTS
  PairExists
  TablesAreExact
