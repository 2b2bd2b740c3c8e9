SPECIFICATION Spec
CONSTANTS
  a = a
  b = b
  c = c
  d = d
  NULL = NULL
  Entry = {a, b, c, d}
  MaxLen = 2
  MAX_SIZE = 5
  ENTRIES = 4
  SLACK = 1
  W32 = 8
  W64 = 64
SYMMETRY Symmetry
INVARIANT SizeIsExact
