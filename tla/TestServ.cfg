SPECIFICATION FairSpec
CONSTANTS
  c1 = c1
  c2 = c2
  c3 = c3
  Conns <- TwoConns
  Fds <- TwoFds
  MAX_CLNT = 2
  MaxReq = 2
  None = None
INVARIANTS
  HandlerOwnsItsConnection
  TableIsTheConnected
  FullInv
PROPERTIES
  ImplementsGroup
  RequestsAnswered
  GoneAreCollected
