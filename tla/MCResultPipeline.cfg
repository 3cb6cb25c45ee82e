SPECIFICATION Spec
CONSTANTS
  RowLimit = 2
  Slots = {1, 2}
  BatchSize = 2
  BufferCap = 2
  MarkerLife = 1
  Nodes = {n1}
  Tables = {"t1", "t2"}
  TableOf <- AlternatingTables
  Malformed = {}
  Unowned = {}
  Empty = {}
CHECK_DEADLOCK FALSE
INVARIANTS PipelineInvariant DuplicateHasCause
