CONSTANTS
  MaxIno = 3
  MaxFd = 3
  Name <- Names
  CaseKey <- TheCaseKeys
  Key83 <- TheKeys83
  Short <- ShortNames
  Aliases <- HashNames
  Paths <- SomePaths
  Modes <- SomeModes
  Handles = {0, 3}
VIEW view
SPECIFICATION CarefulSpec
INVARIANTS
  TreeSound
PROPERTIES
  FopenAnswers
  ActsAsTos
CHECK_DEADLOCK FALSE
