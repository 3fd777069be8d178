SPECIFICATION VerdictsSpec
CONSTANTS
  N = 3
  Batch = 2
  ParseReserve = 2
  ParseCharges <- WithinReserve
  InputTokens <- TwoBatches
  OutputFloors <- TwoFloors
  LaterFloors <- TwoLaterFloors
  OutputTokens = 3
  ExcessTokens = 0
  ModelReserve = 17
  Infra = 1
  Reserved = 24
  MaxRunCost = 24
  MaxFaults = 2
  BeyondReserve = {0, 2, 3, 40}
  BeyondTokens = 1
  Contracts = {"k1", "k2"}
  Installed = "k1"
  Lifetimes = {1, 2}
  MaxAge = 2
  Skew = 1
  MinRemaining = 1
  Deadline = 1
  LastTime = 3
  BucketFaults = 1
  Cases = {"uploaded", "linked"}
  Order <- InOrder
  Signed = {"uploaded"}
  Cap = 2
  Budget = 4
  MaxInvocations = 3
  MaxPosts = 2
  MaxCrashes = 2
  CampaignSlips = {}
  Invocations = {"i1", "i2"}
  MaxRetries = 1
  ProbeFaults = 3
  Channels = {"portal", "email"}
  Modalities = {"required", "permitted", "prohibited"}
  Length = 3
  Core = 2
  Halo = 1
  MaxQuote = 2
  MaxUnits = 4
  MaxRelations = 2
  MaxStatements = 2
  MaxSlips = 1
  GroupKinds = {"sourced", "deadline", "horizon", "annex", "topic"}
  Values <- FourValues
  MaxStage = 2
  MaxFacts = 3
  MaxCalls = 2
  MaxEdits = 1
  PageFaults = 1
INVARIANTS
  RowCoversSpend
  BudgetCoversSpend
  AcceptedPlanIsNeverRefused
  OverchargeIsCaught
  PaidContractWasChecked
  AttestedBucketIsClean
  CampaignIsHonest
  PassesAreCompared
  RedeliveryIsTrue
  ChannelIsTrue
  FactsAreReconciled
  PageIsSound
CHECK_DEADLOCK FALSE
