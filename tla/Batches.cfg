\* Two DPUs with one key each, batches of up to two keys, and pull buffers for one
\* result of each DPU: a lookup of both keys fits, one of the same key twice does not.
CONSTANTS
  i1 = i1
  i2 = i2
  a = a
  b = b
  c = c
  Keys = {a, b}
  NoKey = NoKey
  Hash <- Two
  NrDpus = 2
  Vals = {1, 2}
  Ids = {i1, i2}
  MaxBatch = 2
  MaxIndexes = 1
  PullCapacity = 1
  MaxPairs = 2
  MaxCalls = 4
  Unset = Unset
SPECIFICATION Spec
INVARIANTS IndInv OneTable
PROPERTY ImplementsBatches
