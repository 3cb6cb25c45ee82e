SPECIFICATION LeaderFairSpec
CONSTANTS
  Nodes = {n1, n2}
  TTL = 3
  Period = 1
  Nobody = Nobody
INVARIANTS LeaseHolds OverlapOnlyAfterLease
PROPERTY AlwaysLedAgain
