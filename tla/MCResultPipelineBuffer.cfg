SPECIFICATION FairSpec
CONSTANTS
  RowLimit = 3
  Slots = {1}
  BatchSize = 2
  BufferCap = 2
  MarkerLife = 1
  Nodes = {n1}
  Tables = {"t1"}
  TableOf <- OneTable
  Malformed = {3}
  Unowned = {2}
  Empty = {}
CHECK_DEADLOCK FALSE
INVARIANTS PipelineInvariant ForwardedInOrder
PROPERTIES FullBatchRetriesUnchanged EventuallyForwarded
