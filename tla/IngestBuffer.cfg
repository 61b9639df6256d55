CONSTANTS
    Source = {"a", "b"}
    RequestedCapacity = 2
    MaxSent = 2
SPECIFICATION FairSpec
CHECK_DEADLOCK FALSE
INVARIANT GracefulStop
PROPERTIES AcceptedJobsRun 
