SPECIFICATION UMutexSpec
CONSTANTS
  Thread = {"t1", "t2", "t3"}
  Waiter = {"t1", "t2", "t3"}
  Error = {"e1", "e2"}
  Ok = "ok"
  Nobody = "nobody"
INVARIANTS
  RunsOnce
  CountInv
  NobodyStranded
PROPERTIES
  EveryoneTold
  CallsEnd
  ImplementsCondVar
  BroadcastWakes
