SPECIFICATION FairSpec
CONSTANTS
  c1 = c1
  c2 = c2
  c3 = c3
  Conns <- ThreeConns
  ProcMax = 2
  PipeMax = 2
  Kinds <- OneLong
  None = None
INVARIANTS
  TypeOK
  LinesWhole
  OneLinePerAnswer
  HoldersWillClose
PROPERTIES
  RequestsAnswered
  ClientReturns
  AnsweredIsLogged
