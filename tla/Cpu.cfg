CONSTANTS
  BB = 3
  Org = 32
  Programs <- AllPrograms
  Starts <- AllStarts
SPECIFICATION Spec
INVARIANTS
  ChainsAreWide
  DecisionsRight
  ShiftsRepeat
  BitsExact
  DivisionInverts
  SwapsAllOrNothing
  MovesLand
  CallsBalance
