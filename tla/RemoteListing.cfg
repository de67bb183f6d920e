CONSTANTS
  Paths = {"a", "b"}
  Runs = {r1, r2}
  MaxChanges = 2
SYMMETRY Symmetry
SPECIFICATION Spec
INVARIANTS TypeOK CacheMatchesCursor
PROPERTIES ListsOneInstant
