SPECIFICATION Spec
CONSTANTS
  a = a
  b = b
  c = c
  Worker = {a, b, c}
  Early = {a, b}
  MaxDivisions = 1
  MaxFinds = 0
  MaxBalance = 0
  MaxRestarts = 0
INVARIANTS
  DirectoriesAreCounted
