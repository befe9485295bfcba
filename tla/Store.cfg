SPECIFICATION FairSpec
CONSTANTS
  c1 = c1
  c2 = c2
  c3 = c3
  x = x
  y = y
  Conns <- ThreeConns
  Fds <- ThreeFds
  Ids = {x}
  DATA_MAX = 2
  ResultMax = 2
  PipeMax = 2
  Modes = {"save", "load"}
  Resets = {c1}
  Splits = {c2}
  None = None
INVARIANTS
  TypeOK
  PipeIsFramed
  CopiesAgree
  AnswerIsAwaited
PROPERTIES
  RequestsAnswered
