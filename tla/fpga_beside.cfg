SPECIFICATION BesideSpec
CONSTANTS
  Tools = {p1}
  Jobs <- BesideJobs
  StreamReturns <- BesideReturns
  MselPins = {9}
  ImageWords = 2
  ChunkSize = 8
  DataLimit = 12
  StateTimeout = 1
  ConfigTimeout = 0
  DclkTimeout = 0
  MaxCalls = 2
INVARIANTS
  NoMixBesideClear
  DisturbedOnly
PROPERTIES
  SuccessSurvivesClear
