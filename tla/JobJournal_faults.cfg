SPECIFICATION JournalSpec
CONSTANTS
  a = a  b = b  p1 = p1  p2 = p2  k1 = k1
  Handles = {a, b}
  Processes = {p1, p2}
  Keys = {k1}
  Operations = {"start", "finish", "cancel", "reject"}
  MaxGeneration = 2
  MaxAttempts = 2
  MaxFaults = 2
  Faults = {"write", "sync", "rename", "crash", "power"}
SYMMETRY Symmetric
INVARIANTS JournalTypeOK InsideIsCurrent OneJobPerKey RefusesOnlyRejected AcknowledgedIsDurable
