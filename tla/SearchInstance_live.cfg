SPECIFICATION StartSpec
CONSTANTS
  Proc = {p1, p2}
  NoProc = NoProc
PROPERTIES
  HostSettles
  TimerSettles
CHECK_DEADLOCK FALSE
