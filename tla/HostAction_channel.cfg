SPECIFICATION HostSpec
CONSTANTS
  Jobs = 2
  Mutating <- Two
  Confirmed <- One
  Deliveries <- Once
  QueryFailures = 2
  MaxRestarts = 1
  Faults <- ChannelFaults
INVARIANT HostTypeOK
INVARIANT ChangesSerialized
INVARIANT OutcomeIsRecorded
INVARIANT NotStartedIsTrue
CHECK_DEADLOCK FALSE
