SPECIFICATION Spec
CONSTANTS
  N = 1
  Uploads = {1}
  Batch = 1
  Worker = {w1}
  Cleaner = {c1, c2}
  Nobody = Nobody
  MaxFaults = 0
  Zombies = FALSE
INVARIANTS
  ExpiredRowIsScrubbed
CHECK_DEADLOCK FALSE
