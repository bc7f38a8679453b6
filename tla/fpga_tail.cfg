SPECIFICATION Spec
CONSTANTS
  Tools = {p1}
  Jobs <- TailJobs
  StreamReturns <- SoleReturns
  MselPins <- SoleMsel
  ImageWords = 2
  ChunkSize = 8
  DataLimit = 12
  StateTimeout = 0
  ConfigTimeout = 1
  DclkTimeout = 1
  MaxCalls = 1
PROPERTIES
  SuccessMeansConfigured
