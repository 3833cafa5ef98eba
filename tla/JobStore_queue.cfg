CONSTANTS
  MaxJobs = 3
  w1 = w1
  s1 = s1
  Workspaces = {w1}
  StepUps = {s1}
  Policies = {"queue"}
  None = None
  MaxQueuedJobs = 2
  MaxRunningJobs = 2
SPECIFICATION Spec
INVARIANTS
  TypeOK
  OneMutatorPerWorkspace
  NoMutatorBesideCompensation
  EqualActionsInOrder
  WithinCapacity
  ConfirmationSpentOnce
PROPERTIES
  NoStartBesideLostAction
  EveryWriteReplays
CHECK_DEADLOCK FALSE
