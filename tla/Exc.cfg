CONSTANTS
  Depth = 11
  Steps = 2
  Levels = {0, 4, 7}
  Masks = {0, 5}
  Traps = {0, 1}
  Installed = {4, 7, 8, 14, 15, 31, 32}
  MaxNesting = 2
SPECIFICATION Spec
INVARIANTS
  UnwindsInOrder
  
PROPERTIES
  EntersByVector
  StacksApart
CHECK_DEADLOCK FALSE
