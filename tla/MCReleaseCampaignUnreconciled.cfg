SPECIFICATION Spec
CONSTANTS
  uploaded = uploaded
  linked = linked
  Cases <- BothCases
  Order <- InOrder
  Signed <- UploadedCase
  Cap = 2
  Budget = 4
  MaxInvocations = 3
  MaxPosts = 2
  MaxCrashes = 2
  Slips = {}
INVARIANT PassIsReconciled
CHECK_DEADLOCK FALSE
