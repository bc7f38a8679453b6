CONSTANTS
  Offsets <- EdgeOffsets
  Ends <- EdgeEnds
  Refreshes = 300
  Files <- SingleFiles
SPECIFICATION Spec
INVARIANTS
  TypeOK
  AccessInWindow
  AccessesAreMapped
  ReportsWhatItDid
  ShowsTheRegisters
PROPERTIES
  RunsEnd
