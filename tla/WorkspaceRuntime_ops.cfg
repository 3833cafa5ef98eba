SPECIFICATION FairSpec
CONSTANTS
  m1 = m1
  m2 = m2
  Order <- MCOrder
  Cred = {m1}
  Pg = {m2}
  Barrier = {m2}
  MaxDep = 3
  MaxSnap = 3
  KeepAuto = 1
  MaxOps = 2
  MaxFaults = 2
  Faults = {"write", "start", "stop", "query", "hook", "crash"}
  Ops = {"rotate", "backup", "restore", "apply", "rollback", "start", "stop", "restart", "snapshot"}
INVARIANTS TypeOK HalfRestoredStaysDown RunningCredentialsMatchStore ActiveMatchesStore
  RotationFollowsStore PausedIsRecorded MaintenanceHoldsBack ReplacedDataIsCaptured
CHECK_DEADLOCK FALSE
PROPERTIES RotationSettles PausedComeBack StoreOnlyAdvances
