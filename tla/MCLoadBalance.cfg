SPECIFICATION Spec
CONSTANTS
  a = a
  b = b
  c = c
  Worker = {a, b}
  Early = {a, b}
  NumSeeds = 3
  FACTOR = 1
  WIDTH = 16
  MaxDivisions = 2
  MaxMeasured = 3
  MaxImports = 2
  MaxSends = 3
  MaxReports = 1
SYMMETRY Symmetry
INVARIANTS
  TypeOK
  CreditsAddUp
PROPERTIES
  RoundsAreComplete
