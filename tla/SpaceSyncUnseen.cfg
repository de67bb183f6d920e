SPECIFICATION Spec
CONSTANTS
  a = a
  b = b
  None = None
  Edits <- TwoEdits
  Silent <- OnlyB
  MaxTime = 1
  MaxDeletes = 1
  MaxTroubles = 1
  MaxWithheld = 1
INVARIANTS UnseenRevisionHarmless
