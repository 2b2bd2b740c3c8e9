SPECIFICATION Spec
CONSTANTS
  NumBits = 3
  MaxDist = 3
  NoPoint = NoPoint
  MaxQueue = 3
  MaxDivisions = 2
  Point <- Traces
  Dist <- Hamming
  Assignments <- ScanOrder
INVARIANTS MarksMatchRadius DeviationsAreCurrent
PROPERTIES SeedsStayInSubdomain OnlyOwnPlaceIsMissed
