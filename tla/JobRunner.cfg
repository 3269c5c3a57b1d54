SPECIFICATION Spec
CONSTANTS
  n1 = n1  n2 = n2
  None = None
  Nodes = {n1, n2}
  Interval = 5
  Window = 2
  Timeout = 3
  Lags <- AgreeOrLag
  Faults = {"crash", "lost", "stop", "error"}
  From = 4
  Until = 11
  MaxFaults = 1
INVARIANTS LockDiscipline OncePerSlot NoSlotSkipped
CHECK_DEADLOCK FALSE
