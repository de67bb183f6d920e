CONSTANTS
  d1 = d1
  d2 = d2
  Devices = {d1, d2}
  Paths = {"a", "b"}
  Binary = {}
  MaxEdits = 3
  Runs <- OneRunEach
  FreshRevs = FALSE
  EtagInPut = FALSE
  OverlapDevices = FALSE
  EditDuringSync = FALSE
  FaultKinds = {"crash", "error", "timeout", "stateRead"}
  MaxUserOps = 3
  MaxFaults = 1
  CheckpointBatch = 2
  Owner <- RunOwner
SPECIFICATION Spec
INVARIANTS NoEditLost
SYMMETRY DeviceSymmetry
