SPECIFICATION RowsSpec
CONSTANTS
  release = release
  receipt = receipt
  expiry = expiry
  Writers <- ThreeKinds
  Claimed <- OfTheWorker
  Final <- OfTheWorker
  Expiring <- Conditional
  Attempts = 2
  MaxTime = 3
  MaxVersion = 2
  Posts <- Requests
  NoRun = "nobody"
  Owner <- OwnerOf
  Key <- KeyOf
  QuotaKey <- OneQuota
  Hashes <- SameOrOther
  NoKey = "unkeyed"
  RunsPerDay = 1
  Price = 2
  DailyCap = 3
  Costs = {1, 2}
  LastDay = 1
  Invocations = {"i1", "i2"}
  Budget = 2
  MaxAge = 2
  Skew = 1
  LastTime = 6
  Runs = {"r1", "r2"}
  Purgers <- TwoPurges
  RunOf <- RunOfPurge
  Sweepers = {"s1", "s2"}
  Nobody = "nobody"
  MaxPuts = 1
  MaxFaults = 1
INVARIANTS
  LosesOnlyToOthers
  RepeatsAgree
  LimitsHold
PROPERTIES
  RefinesAtomicUpdate
  HeartbeatIsTrue
  GrantIsKept
CHECK_DEADLOCK FALSE
