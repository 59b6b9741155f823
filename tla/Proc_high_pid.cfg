CONSTANTS
  MaxPid = 3
  PidMod = 6
  Codes = {7}
  Flags = {0}
  Stoppable = {}
  CodeMod = 4
SPECIFICATION Spec
PROPERTIES
  ForkAnswers
CHECK_DEADLOCK FALSE
