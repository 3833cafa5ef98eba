SPECIFICATION FairSpec
CONSTANTS
  c1 = c1
  Clients = {c1}
  d1 = d1
  d2 = d2
  Docs = {d1, d2}
  s1 = s1
  Stores = {s1}
  HandEdit = HandEdit
  None = None
  MaxValidators = 3
  Faults = {"write", "sync", "crash", "power", "edit"}
  MaxFaults = 1
INVARIANT RecoveryCanFinish
PROPERTY ImplementsStore
PROPERTY EditKept
PROPERTY TransactionEnds
CHECK_DEADLOCK FALSE
