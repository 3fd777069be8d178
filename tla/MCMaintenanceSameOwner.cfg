SPECIFICATION FairSpec
CONSTANTS
  r1 = r1
  r2 = r2
  p1 = p1
  Runs <- TwoRuns
  Stuck <- NobodyStuck
  Owned <- TwoRuns
  OwnerOf <- SameOwner
  Passes <- OnePass
  Batch = 2
PROPERTY PendingRunsEnd
CHECK_DEADLOCK FALSE
