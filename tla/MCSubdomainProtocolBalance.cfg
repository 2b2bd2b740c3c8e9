SPECIFICATION Spec
CONSTANTS
  a = a
  b = b
  c = c
  Worker = {a, b}
  Early = {a, b}
  MaxDivisions = 2
  MaxFinds = 0
  MaxBalance = 1
  MaxRestarts = 0
INVARIANTS
  NoAssertionFails
