CONSTANTS
  a = a
  a1 = a1
  a2 = a2
  Clients = {a}
  Workers = {a1,a2}
  ClientOf <- TwoInOneWindow
  LastId = 2
  BatchSize = 1
  MaxRetries = 1
  MaxTroubles = 1
SPECIFICATION FairSpec
INVARIANTS TypeOK NoMessageLost RetryBudget OverlooksOnlyMoved WaitersWait
PROPERTIES EveryMessageSettles
