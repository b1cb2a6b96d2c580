SPECIFICATION Spec
CONSTANTS
  Proc = {p1, p2}
  NoProc = NoProc
INVARIANTS
  UniqueRunning
CHECK_DEADLOCK FALSE
