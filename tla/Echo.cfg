SPECIFICATION FairSpec
CONSTANTS
  Clients = {a, b}
  MsgMax = 2
  MsgsMax = 2
  BUF_SIZE = 1
  PipeMax = 1
  LogReads = 1
  ServedMax = 2
INVARIANTS
  TypeOK
  LogIsEchoed
  InStep
  KilledByTwoPieces
  ReaderGetsAll
PROPERTY
  EchoComes
