SPECIFICATION HostSpec
CONSTANTS
  Jobs = 1
  Mutating <- One
  Confirmed <- One
  Deliveries <- Once
  QueryFailures = 2
  MaxRestarts = 0
  Faults <- Oversize
INVARIANT NotStartedIsTrue
CHECK_DEADLOCK FALSE
