SPECIFICATION Spec
CONSTANTS
  c1 = c1
  c2 = c2
  c3 = c3
  x = x
  y = y
  Conns <- ThreeConns
  Fds <- ThreeFds
  Ids = {x, y}
  DATA_MAX = 3
  ResultMax = 3
  PipeMax = 4
  Modes = {"save", "load", "quit"}
  Resets = {}
  Splits = {}
  None = None
PROPERTIES
  ImplementsLog
CHECK_DEADLOCK FALSE
