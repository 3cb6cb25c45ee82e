SPECIFICATION FairSpec
CONSTANTS
  Tables = {t1}
  Requests = {r1, r2}
  FlushThreshold = 2
  MaxBufferRows = 2
  MaxRequestRows = 2
  RowLimit = 4
INVARIANTS NoSilentLoss SingleCustody DuplicateOnlyAfterAmbiguousError BufferBounded
PROPERTIES ImplementsRowSink EventuallySettled
