SPECIFICATION FairSpec
CONSTANTS
  f1 = f1
  f2 = f2
  f3 = f3
  None = None
  Fds = {f1, f2, f3}
  MAX_WS_CLIENTS = 2
  Wrap = 5
  MaxPause = 2
  MaxConns = 3
  StartFails = TRUE
INVARIANTS TableTracksClients AddressIsHeard
PROPERTIES ClientsKept ServerComesBack
