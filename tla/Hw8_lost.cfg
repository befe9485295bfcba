SPECIFICATION Spec
CONSTANTS
  c1 = c1
  c2 = c2
  c3 = c3
  Conns <- TwoConns
  Fds <- TwoFds
  MAX_CLNT = 2
  MaxReq = 1
  None = None
SYMMETRY Symmetry
INVARIANTS
  EveryClientListed
