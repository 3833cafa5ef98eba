SPECIFICATION Spec
CONSTANTS
  m1 = m1
  m2 = m2
  Order <- MCOrder
  Cred = {m1}
  Pg = {m2}
  Barrier = {}
  MaxDep = 2
  MaxSnap = 2
  KeepAuto = 1
  MaxOps = 1
  MaxFaults = 0
  Faults = {}
  Ops = {"backup"}
INVARIANT CopyReadsStoppedServices
CHECK_DEADLOCK FALSE
