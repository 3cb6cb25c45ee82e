SPECIFICATION FairSpec
CONSTANTS
  Jobs = {j1}
  Intervals = {0, 2, 3}
  Hash <- ThreeHash
  Heavy <- OneHeavy
  LightSlots = 1
  HeavySlots = 1
  MaxRestarts = 2
  None = None
INVARIANTS NoConcurrentRuns
PROPERTIES DispatchTerminates PolledForEver RemovedJobStops
