CONSTANTS
  a = a
  b = b
  Proc = {a, b}
  First = a
  Masks <- SomeMasks
  Sent <- SomeSent
SPECIFICATION SigSpec
PROPERTIES
  
  BlockedIsSafe
  PendingReported
CHECK_DEADLOCK FALSE
