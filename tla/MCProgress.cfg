SPECIFICATION ProgressSpec
CONSTANTS
  r1 = r1
  r2 = r2
  p1 = p1
  Runs <- BothRuns
  Stuck <- OneStuck
  Owned <- BothRuns
  OwnerOf <- OwnOwner
  Passes <- OnePass
  Batch = 2
PROPERTIES
  ExpiryWins
  RunsAreCleaned
  EveryCallIsAnswered
  PageMovesOn
CHECK_DEADLOCK FALSE
