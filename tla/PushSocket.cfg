CONSTANTS
  s1 = s1
  s2 = s2
  s3 = s3
  k1 = k1
  k2 = k2
  k3 = k3
  Sockets = {s1, s2, s3}
  Calls = {k1, k2}
  Accounts = {"ann", "bob", "odd"}
  Unusable = {"odd"}
  None = None
  MaxCommands = 3
  MaxDrops = 2
SPECIFICATION FairSpec
INVARIANTS TypeOK SocketIsCurrent NeverStranded
PROPERTIES Reconnects
CHECK_DEADLOCK FALSE
