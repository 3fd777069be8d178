SPECIFICATION Spec
CONSTANTS
  N = 1
  Uploads = {}
  Batch = 1
  Worker = {w1}
  Cleaner = {c1}
  Nobody = Nobody
  MaxFaults = 0
  Zombies = FALSE
INVARIANTS
  MemoryReceiptIsTrue
CHECK_DEADLOCK FALSE
