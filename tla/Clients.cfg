\* Two threads and five calls, two ids in one bucket of the map, two
\* sets with one slot each: a create may find the first set or both full.
CONSTANTS
  i1 = i1
  i2 = i2
  t1 = t1
  t2 = t2
  Threads = {t1, t2}
  Nobody = Nobody
  Ids = {i1, i2}
  Vals = {1}
  NrSets = 2
  MaxPerSet = 1
  MaxIndexes = 2
  DpuTable = 1
  Hash <- OneBucket
  MaxCalls = 5
SPECIFICATION FairSpec
INVARIANTS IndInv TableNeverFull OneHome SlotsSuffice LateCallsFindIndex OwnResults
PROPERTY CallsReturn
