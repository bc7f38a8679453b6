CONSTANTS
  AddrSpace = 1048576
  I2cFifo = 64
  Requests <- AllRequests
SPECIFICATION Spec
INVARIANTS
  TypeOK
  RightPlace
  EndsWhole
  NoOverrun
  FramedOnce
  ReadsFitFifo
  EventAfterData
  TwoLoops
PROPERTY TransferEnds
