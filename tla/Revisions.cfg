CONSTANTS
  p = p
  q = q
  ann = ann
  External = External
  System = System
  None = None
  Paths = {p, q}
  Initial = {p}
  Accounts = {ann}
  MaxChanges = 2
  Capacity = 1
  Flood = 1
  MaxTroubles = 1
  MaxCalls = 1
SPECIFICATION FairSpec
INVARIANTS TypeOK NothingForgotten ParkedMeansIdle CreditIsEarned
PROPERTIES EverythingCommitted
