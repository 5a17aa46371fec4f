\* Three DPUs with one key each, and a pull buffer for one result of each.
CONSTANTS
  i1 = i1
  i2 = i2
  a = a
  b = b
  c = c
  Keys = {a, b, c}
  NoKey = NoKey
  Hash <- Three
  NrDpus = 3
  Vals = {1}
  Ids = {i1}
  MaxBatch = 3
  MaxIndexes = 1
  PullCapacity = 1
  MaxPairs = 0
  MaxCalls = 3
  Unset = Unset
SPECIFICATION Spec
INVARIANT RowsOfBatch
