SPECIFICATION FairSpec
CONSTANTS
  Nodes = {n1, n2}
  Entities = {e1}
  RawKey <- EmptyKeys
  Companions = {c1}
  Mode = "any"
  Tiers = {1}
  Threshold = 1
  Ladder <- NoLadder
  TopSeverity = 1
  Guard = 1
  Slots = {1, 2}
PROPERTIES ResolvedIsCleared FiringIsTracked
