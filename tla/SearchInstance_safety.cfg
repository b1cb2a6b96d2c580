SPECIFICATION Spec
CONSTANTS
  Proc = {p1, p2, p3}
  NoProc = NoProc
SYMMETRY Symmetry
INVARIANTS
  OneFrame
  FrameIsReachable
  GrantReachesReceiver
  InstanceInv
  RequestInv
PROPERTIES
  LaunchPromise
CHECK_DEADLOCK FALSE
