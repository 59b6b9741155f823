CONSTANTS
  MAX_TOS_ARG = 5
  Texts <- SomeTexts
  MaxArgs = 3
  Paths <- ThePaths
  TosPaths <- ThePrograms
  MaxHops = 2
SPECIFICATION CarefulSpec
INVARIANTS
  ArraysFit
  ArgsArrive
CHECK_DEADLOCK FALSE
