SPECIFICATION Spec
CONSTANTS
  Name = {a}
  AutoApprove = TRUE
  MaxPending = 1
  MaxApproved = 1
  MaxQueued = 2
  Faults = {"remove"}
  MaxRequests = 3
  MaxCrashes = 0
  MaxFaults = 2
  MaxExpired = 0
INVARIANT ReplaysAreIdempotent
CHECK_DEADLOCK FALSE
