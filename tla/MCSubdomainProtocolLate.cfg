SPECIFICATION Spec
CONSTANTS
  a = a
  b = b
  c = c
  Worker = {a, b, c}
  Early = {a, b}
  MaxDivisions = 1
  MaxFinds = 1
  MaxBalance = 1
  MaxRestarts = 0
SYMMETRY Symmetry
INVARIANTS
  NoSharedSubdomain
  LateReadersKnowAll
