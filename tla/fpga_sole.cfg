SPECIFICATION FairSpec
CONSTANTS
  Tools = {p1}
  Jobs <- ResetJobs
  StreamReturns <- SoleReturns
  MselPins <- SoleMsel
  ImageWords = 2
  ChunkSize = 8
  DataLimit = 12
  StateTimeout = 2
  ConfigTimeout = 1
  DclkTimeout = 1
  MaxCalls = 2
INVARIANTS
  TypeOK
  DataPathOpen
  NoMixedImage
  WithinDataLimit
PROPERTIES
  HandsBackFabric
  SuccessMeansConfigured
  KeepsContract
  CallsReturn
  ReleasesReset
