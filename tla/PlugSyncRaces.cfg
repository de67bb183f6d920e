CONSTANTS
  d1 = d1
  d2 = d2
  Devices = {d1, d2}
  Paths = {"a"}
  Binary = {}
  MaxEdits = 2
  Runs <- OneRunEach
  FreshRevs = TRUE
  EtagInPut = TRUE
  OverlapDevices = TRUE
  EditDuringSync = TRUE
  FaultKinds = {"crash", "error", "timeout"}
  MaxUserOps = 3
  MaxFaults = 1
  CheckpointBatch = 20
  Owner <- RunOwner
SPECIFICATION FairSpec
INVARIANTS TypeOK BaseInv BaseAgreement
PROPERTIES RemoteKeepsEdits Convergence
