CONSTANTS
  Offsets <- EdgeOffsets
  Ends <- EdgeEnds
  Refreshes = 300
  Files <- NoFiles
SPECIFICATION Spec
INVARIANTS
  ShowsItsAddress
