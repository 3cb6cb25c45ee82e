CONSTANTS
    c1 = c1
    c2 = c2
    skewed = skewed
    Equal = equal
    Collectors = {c1, c2}
    SharedSecret = {c2}
    Reloaded = {c1}
    Jobs = {j1}
    Weights = {equal, skewed}
    Rank <- MCRank
    FullEvery = 2
    MaxDef = 2
    MaxChanges = 1
    MaxFaults = 1
SPECIFICATION Spec
INVARIANTS
    ListsItsShare
    StoreInvariant
    ExactlyOneLists
PROPERTIES
    EventuallyShared
