SPECIFICATION FairSpec
CONSTANTS
  MaxSeeds = 4
  Dist <- MCDist
INVARIANTS ReadyPairsComputed SnapshotIsQueuePrefix
PROPERTIES RefinesPublishedMatrix EverySeedGetsItsRow
