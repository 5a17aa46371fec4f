\* Room for the sum of matrices of capacities 2 and 1, and for that of one with itself.
SPECIFICATION Spec
CONSTANTS
  m1 = m1
  m2 = m2
  m3 = m3
  Matrices = {m1, m2, m3}
  Null = Null
  Elems <- MCElems
  Capacities = {0, 1, 2}
  Lists <- MCLists
  MaxMemory = 6
  MaxElements = 2
SYMMETRY SomeOrder
INVARIANTS
  IndInv
  CallsRight
PROPERTIES
  ImplementsBags
