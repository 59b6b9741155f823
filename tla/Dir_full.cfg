CONSTANTS
  n1 = n1
  n2 = n2
  n3 = n3
  n4 = n4
  n5 = n5
  s1 = s1
  s2 = s2
  Node = {n1, n2, n3, n4, n5}
  FreeHead = FreeHead
  Null = Null
  MemBot = 4
  MemTop = 20
  Stream = {s1, s2}
  NoStream = NoStream
  Entries = 1
  HandleSize = 4
  Sizes = {4, 8}
SPECIFICATION Spec
PROPERTIES
  CloseCloses
CHECK_DEADLOCK FALSE
