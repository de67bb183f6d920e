CONSTANTS
  r1 = r1
  r2 = r2
  r3 = r3
  r4 = r4
  r5 = r5
  Requests = {r1, r2, r3, r4, r5}
  max = 2
  maxQueueLength = 3
SPECIFICATION FairSpec
INVARIANTS TypeOK AtMostMax NoIdleSlot SlotInv
PROPERTIES EveryWaiterRuns
