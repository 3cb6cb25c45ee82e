SPECIFICATION Spec
CONSTANTS
  Nodes = {n1}
  Entities = {e1, e2}
  RawKey <- EmptyKeys
  Companions = {c1}
  Mode = "any"
  Tiers = {1}
  Threshold = 1
  Ladder <- NoLadder
  TopSeverity = 1
  Guard = 1
  Slots = {1, 2, 3}
PROPERTY CompanionClearsOwnEntity
