CONSTANTS
  MaxPid = 3
  PidMod = 6
  Codes = {7}
  Flags = {0, 3}
  Stoppable = {2}
  CodeMod = 4
SPECIFICATION FairSpec
INVARIANTS
  PidMapSound
  KidsWaitable
  DispositionRestored
PROPERTIES
  
  WaitEnds
  PexecEnds
CHECK_DEADLOCK FALSE
