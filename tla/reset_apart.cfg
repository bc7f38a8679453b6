SPECIFICATION Spec
CONSTANTS
  p1 = p1
  p2 = p2
  Tools = {p1, p2}
  TakeTurns = TRUE
  MaxFaults = 1
  Uses <- TurnsAtAll
INVARIANTS
  TypeOK
  ResetIsAPulse
  ClearHoldsConfig
  
PROPERTIES
  OnlyItsBit
  ResetReleased
