\* Blocks of up to three items, so that a slave fills its result cache in the
\* middle of its block and flushes a rest at the end.
CONSTANTS
  i1 = i1
  i2 = i2
  NrSlaves = 2
  Ids = {i1, i2}
  MaxIndexes = 1
  NrBuckets = 3
  MaxItems = 5
  ResultCacheSize = 2
SPECIFICATION FairSpec
INVARIANTS IndInv PreparedFirst BuffersApart ItemsOnce ResultsWhole
PROPERTY LaunchEnds
