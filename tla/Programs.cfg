SPECIFICATION FairSpec
CONSTANTS
  None = None
  Clients = {a, b}
  Counts = {0, 1, 2, 3}
  Sizes = {0, 1, 2, 3, 4, 5}
  BUF_SIZE = 2
  WireMax = 3
  Receivers = {r, s}
  PieceMax = 2
  MsgMax = 2
  DupMax = 1
  Rounds = 5
  Inputs = {1, 2}
  Handlers = {h1, h2}
  Operands <- OperandCounts
  CalcMax = 2
INVARIANTS
  TypeOK
  AnswerIsOwn
  CopyIsFile
  PrintedAsReceived
  SentIsFile
  InStep
  LockedIsExact
  LostUpdatesBounded
  OwnTokens
PROPERTIES
  OnlySilentHoldUp
  BothEnd
  AnsweredOrLost
  ThreadsEnd
