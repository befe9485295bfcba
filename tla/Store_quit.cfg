SPECIFICATION FairSpec
CONSTANTS
  c1 = c1
  c2 = c2
  c3 = c3
  x = x
  y = y
  Conns <- TwoConns
  Fds <- TwoFds
  Ids = {x}
  DATA_MAX = 3
  ResultMax = 3
  PipeMax = 2
  Modes = {"load", "quit"}
  Resets = {}
  Splits = {}
  None = None
PROPERTIES
  LoadReturns
CHECK_DEADLOCK FALSE
