SPECIFICATION FairSpec
CONSTANTS
  c1 = c1
  c2 = c2
  c3 = c3
  Conns <- TwoConns
  ProcMax = 2
  PipeMax = 3
  Kinds <- NoLong
  None = None
PROPERTIES
  ZombiesRemoved
