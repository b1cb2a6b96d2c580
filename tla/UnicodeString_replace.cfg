SPECIFICATION Spec
CONSTANTS
  Thread = {t1, t2}
  Array = {a1, a2, a3, a4}
  Text <- Texts
  US_STACKBUF_SIZE = 1
  kGrowSize = 1
  MaxLength = 3
  MaxCalls = 3
SYMMETRY Symmetry
INVARIANTS
  OldArrayAlive
CHECK_DEADLOCK FALSE
