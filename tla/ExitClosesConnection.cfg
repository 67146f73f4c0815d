SPECIFICATION FairSpec
CONSTANTS
  c1 = c1
  c2 = c2
  Clients <- MCOneClient
  Procs = {p1}
  Main = main
  NoSocket = nosock
  Policy = policy
  Nil = nil
  MAX_CONNECT = 2
  TIME_OUT = 0
  MaxFds = 2
  MaxRequests = 1
  NumClauses = 1
  FirstMessages <- MCAllMessages
  Grants <- MCGrants
CHECK_DEADLOCK FALSE
PROPERTY
  ExitClosesConnection
