SPECIFICATION RetrySpec
CONSTANTS
  m1 = m1
  m2 = m2
  Order <- MCOrder
  Cred = {m1}
  Pg = {m2}
  Barrier = {}
  MaxDep = 3
  MaxSnap = 3
  KeepAuto = 1
  MaxOps = 2
  MaxFaults = 1
  Faults = {"crash"}
  Ops = {"rotate", "restore"}
PROPERTY UncertainDataCanBeCrossed
CHECK_DEADLOCK FALSE
