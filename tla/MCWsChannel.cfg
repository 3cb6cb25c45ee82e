CONSTANTS
    Nodes = {n1, n2}
    NoNode = NoNode
    Commands = {r1}
    MaxSockets = 2
    MaxCrashes = 1
SPECIFICATION Spec
CHECK_DEADLOCK FALSE
INVARIANTS
    ChannelInvariant
    RegisteredUnlessEvicted
PROPERTIES
    CommandEnds
    EventuallyReachable
