SPECIFICATION CleanupsSpec
CONSTANTS
  Callers = {c1, c2, c3}
  Nobody = Nobody
  Storms = 3
  MaxFaults = 2
PROPERTIES
  KeepsOneDispatch
  RetryEnds
  RunEnds
  GrantEnds
  ParseIsKept
CHECK_DEADLOCK FALSE
