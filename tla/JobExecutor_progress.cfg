CONSTANTS
  MaxJobs = 3
  w1 = w1
  w2 = w2
  Workspaces = {w1, w2}
  StepUps = {}
  Policies = {}
  None = None
  MaxQueuedJobs = 2
  MaxRunningJobs = 1
  Faults = {}
SPECIFICATION FairExecSpec
PROPERTIES
  JobsFinish
CHECK_DEADLOCK FALSE
