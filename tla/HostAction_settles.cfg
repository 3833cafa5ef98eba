SPECIFICATION FairHostSpec
CONSTANTS
  Jobs = 1
  Mutating <- One
  Confirmed <- None
  Deliveries <- Twice
  QueryFailures = 2
  MaxRestarts = 1
  Faults <- SettleFaults
INVARIANT EffectOnce
PROPERTY HostJobsSettle
CHECK_DEADLOCK FALSE
