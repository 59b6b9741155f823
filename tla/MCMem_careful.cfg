CONSTANTS
  n1 = n1
  n2 = n2
  n3 = n3
  n4 = n4
  n5 = n5
  Node = {n1, n2, n3, n4, n5}
  FreeHead = FreeHead
  Null = Null
  MemBot = 4
  MemTop = 20
  JarSize = 3
  Sizes = {0, 3, 7, 12}
  Addrs <- WordAddrs
SYMMETRY NodeSymmetry
SPECIFICATION CarefulSpec
INVARIANTS
  DistinctAddresses
  MaxIsLongestStretch
PROPERTY KeepsPromise
CHECK_DEADLOCK FALSE
