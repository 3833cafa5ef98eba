CONSTANTS
  MaxJobs = 1
  w1 = w1
  w2 = w2
  Workspaces = {w1}
  StepUps = {}
  Policies = {}
  None = None
  MaxQueuedJobs = 2
  MaxRunningJobs = 1
  Faults = {}
SPECIFICATION ExecSpec
INVARIANTS
  AcceptedCancelIsChecked
CHECK_DEADLOCK FALSE
