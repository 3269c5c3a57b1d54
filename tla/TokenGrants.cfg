SPECIFICATION Spec
CONSTANTS
  c1 = c1  c2 = c2
  t1 = t1  t2 = t2  t3 = t3  t4 = t4
  r1 = r1  r2 = r2  r3 = r3
  None = None
  s1 = s1  s2 = s2
  Sessions = {s1, s2}
  Codes = {c1}
  Tokens = {t1, t2, t3, t4}
  Requests = {r1, r2, r3}
  Loads <- GrantLoads
SYMMETRY RowSymmetry
INVARIANTS GrantsStayEnded OneLiveToken RedeemedOnce ReplayDeniesAccess CodesKept NoLockCycle
CHECK_DEADLOCK FALSE
