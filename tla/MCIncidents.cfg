SPECIFICATION FairSpec
CONSTANTS
  Nodes = {n1, n2}
  Entities = {e1}
  RawKey <- EmptyKeys
  Companions = {}
  Mode = "any"
  Tiers = {1, 2}
  Threshold = 2
  Ladder <- ThreeSteps
  TopSeverity = 3
  Guard = 1
  Slots = {1, 2}
INVARIANTS OneOpenPerEntity ToldRightly
PROPERTY DemotesOnlyWhenStale
