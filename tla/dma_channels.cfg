CONSTANTS
  LastChannel = 1
  Programs = {p, q}
  Configs = {k, l}
  Polls = 2
SPECIFICATION Spec
INVARIANTS
  TypeOK
  FreeIsQuiet
PROPERTIES
  WholeConfig
  CommandsOwnChannel
  EccWhileQuiet
  CallsReturn
