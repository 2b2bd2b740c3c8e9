SPECIFICATION Spec
CONSTANTS
  MaxSeeds = 3
  MaxDivisions = 1
  Ids = {0, 1}
INVARIANT SeedStateIsTheMasters
