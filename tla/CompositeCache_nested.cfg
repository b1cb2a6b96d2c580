SPECIFICATION CompositeSpec
CONSTANTS
  Slots = 3
  Unused = {0, 1}
  SLOT_ITERATIONS = 2
INVARIANTS
  ElementFound
CHECK_DEADLOCK FALSE
