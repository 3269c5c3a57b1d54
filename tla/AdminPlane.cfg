SPECIFICATION MCSpec
CONSTANTS
  p1 = p1  p2 = p2  p3 = p3  requester = requester  o1 = o1  o2 = o2
  w1 = w1  w2 = w2  j1 = j1  j2 = j2
  None = None  NoOne = NoOne
  Approvals = {1, 2}
  Accounts = {requester, o1, o2}
  Requester = requester
  Procs = {p1, p2, p3}
  Required = {1, 2}
  Skews <- Behind
  Lifetime = 1
  Loads <- ApprovalLoads
  Writers = {w1, w2}
  Batches = {j1, j2}
  Limit = 2
  MaxSeq = 4
  MaxPerTx = 2
INVARIANTS UsedRightly AuditKept ChainSound EvidenceKept
SYMMETRY Alike
CHECK_DEADLOCK FALSE
