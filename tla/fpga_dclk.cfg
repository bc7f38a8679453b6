SPECIFICATION Spec
CONSTANTS
  Tools = {p1}
  Jobs <- FileJobs
  StreamReturns <- SoleReturns
  MselPins <- SoleMsel
  ImageWords = 2
  ChunkSize = 8
  DataLimit = 12
  StateTimeout = 0
  ConfigTimeout = 1
  DclkTimeout = 1
  MaxCalls = 2
PROPERTIES
  DclkWaitIsFresh
