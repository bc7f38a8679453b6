SPECIFICATION Spec
CONSTANTS
  p1 = p1
  p2 = p2
  Tools = {p1}
  TakeTurns = FALSE
  MaxFaults = 1
  Uses <- ClearOnly
INVARIANTS
  ClearMeansReset
