SPECIFICATION Spec
SYMMETRY Names
CONSTANTS
  Name = {a, b}
  AutoApprove = TRUE
  MaxPending = 1
  MaxApproved = 1
  MaxQueued = 2
  Faults = {"apply", "result", "remove"}
  MaxRequests = 4
  MaxCrashes = 1
  MaxFaults = 1
  MaxExpired = 1
INVARIANTS KeysFollowTable TableBounded NeverAppliedTwice EffectsReported
CHECK_DEADLOCK FALSE
