SPECIFICATION Spec
CONSTANTS
  p1 = p1  p2 = p2  u1 = u1  u2 = u2
  None = None
  Ids = {1, 2, 3}
  Sids = {1, 2, 3}
  Users = {u1, u2}
  Procs = {p1, p2}
  Unanswered = 2
  Lifetime = 4
  Grace = 1
  Jobs <- Workloads
INVARIANTS SessionsKept OneOutcome AnsweredOnce LiveIsAnswerable SwitchSignsOut
PROPERTY NoFinishUnderEndedSession
SYMMETRY Alike
CHECK_DEADLOCK FALSE
