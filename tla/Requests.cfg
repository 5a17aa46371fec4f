\* Three tasklets, sizes that are and are not multiples of 8, and a region that
\* one request fills to the last byte and others overflow.
CONSTANTS
  t1 = t1
  t2 = t2
  t3 = t3
  Tasklets = {t1, t2, t3}
  NoTasklet = NoTasklet
  Sizes = {8, 12, 16}
  Start = 8
  RegionSize = 40
SPECIFICATION Spec
INVARIANTS BlocksApart NullMeansFull IndInv
PROPERTY ImplementsArena
