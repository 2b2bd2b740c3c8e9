SPECIFICATION FairSpec
CONSTANTS
  MaxSeeds = 3
  MaxDivisions = 2
  Ids = {0, 1}
INVARIANTS NothingMissed InitialSeedsStayHome
PROPERTIES EverySeedArrives
