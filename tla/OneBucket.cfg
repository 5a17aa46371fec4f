\* Two slaves at one bucket, of which a second mutex would keep nobody away.
SPECIFICATION FairSpec
CONSTANTS
  k1 = k1
  k2 = k2
  k3 = k3
  NoKey = NoKey
  JunkKey = JunkKey
  NoId = NoId
  Hash <- MCHash
  NrSlaves = 2
  Ids = {0}
  Keys = {k1, k2}
  Vals = {1}
  MaxIndexes = 1
  NrBuckets = 1
  NrNodes = 2
  NrMutexes = 2
  UsedModulus = 1
INVARIANTS MissMeansAbsent FoundStaysFound FullInv
PROPERTIES ImplementsPrimaryIndex MutexReleased
