CONSTANTS
  d1 = d1
  d2 = d2
  Devices = {d1, d2}
  Paths = {"a"}
  Binary = {}
  MaxEdits = 2
  Runs <- OneRunEach
  FreshRevs = TRUE
  EtagInPut = TRUE
  OverlapDevices = TRUE
  EditDuringSync = FALSE
  FaultKinds = {}
  MaxUserOps = 3
  MaxFaults = 0
  CheckpointBatch = 20
  Owner <- RunOwner
SPECIFICATION Spec
INVARIANTS NoEditLost
