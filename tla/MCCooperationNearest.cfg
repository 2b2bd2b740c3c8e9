SPECIFICATION Spec
CONSTANTS
  NumBits = 3
  MaxDist = 3
  NoPoint = NoPoint
  MaxQueue = 3
  MaxDivisions = 1
  Point <- Traces
  Dist <- Hamming
  Assignments <- ScanOrder
PROPERTIES SentToNearestMedoid
