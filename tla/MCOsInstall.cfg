CONSTANTS
    i1 = i1
    i2 = i2
    c1 = c1
    c2 = c2
    Instances = {i1, i2}
    Collectors = {c1, c2}
    Requests <- MixedJobs
    Nobody = Nobody
    MaxFaults <- FaultsOf
SPECIFICATION Spec
CHECK_DEADLOCK FALSE
INVARIANTS
    OneLeasedDriver
    JobInvariant
    OneStepAtATime
PROPERTIES
    CancelHolds
    JobEnds
