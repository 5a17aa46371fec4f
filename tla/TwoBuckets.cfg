\* Two slaves at two buckets under two mutexes: they share the nodes, and their updates
\* of the counter overlap.
SPECIFICATION SpecH
CONSTANTS
  k1 = k1
  k3 = k3
  NoKey = NoKey
  JunkKey = JunkKey
  NoId = NoId
  Hash <- MCHash
  NrSlaves = 2
  Ids = {0}
  Keys = {k1, k3}
  Vals = {1}
  MaxIndexes = 1
  NrBuckets = 2
  NrNodes = 2
  NrMutexes = 2
  UsedModulus = 3
INVARIANTS BucketExclusive NoUninitialisedRead FullInv UsedFollowsEntries IndInvH
