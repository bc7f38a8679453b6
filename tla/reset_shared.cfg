SPECIFICATION Spec
CONSTANTS
  p1 = p1
  p2 = p2
  Tools = {p1, p2}
  TakeTurns = FALSE
  MaxFaults = 1
  Uses <- TwoBridges
INVARIANTS
  ResetIsAPulse
