SPECIFICATION Spec
CONSTANTS
  n1 = n1  n2 = n2  p1 = p1  p2 = p2  p3 = p3  p4 = p4
  None = None
  Nodes = {n1, n2}
  Sids = {1, 2}
  Procs = {p1, p2, p3, p4}
  Jobs <- Workloads
  Offset <- Ahead
  CacheTtl = 2
  IdleLimit = 8
  Lifespan = 12
  SeenInterval = 6
  SkewAllowance = 1
  ResetMargin = 1
  Batch = 1
INVARIANTS CacheKept ResetRefusesOldSessions RealmSweepComplete
PROPERTY UsedSessionsKept
CHECK_DEADLOCK FALSE
