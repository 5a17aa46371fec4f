SPECIFICATION Spec
CONSTANTS
  k1 = k1
  k2 = k2
  k3 = k3
  NoKey = NoKey
  JunkKey = JunkKey
  NoId = NoId
  Hash <- MCHash
  NrSlaves = 2
  Ids = {0, 1}
  Keys = {k1}
  Vals = {0, 1}
  MaxIndexes = 2
  NrBuckets = 1
  NrNodes = 1
  NrMutexes = 1
  UsedModulus = 1
PROPERTY
  ImplementsPrimaryIndex
