CONSTANTS
  MaxJobs = 2
  w1 = w1
  w2 = w2
  Workspaces = {w1}
  StepUps = {}
  Policies = {}
  None = None
  MaxQueuedJobs = 2
  MaxRunningJobs = 2
  Faults = {"write", "check", "timeout", "revoke", "stop", "crash"}
SPECIFICATION ExecSpec
INVARIANTS
  AcceptedCancelNeverSucceeds
  OperationsOnceInOrder
  EventsAgreeWithStatus
  HalfDoneIsFenced
PROPERTIES
  Spec
CHECK_DEADLOCK FALSE
