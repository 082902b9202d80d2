CONSTANTS
  t1 = t1  t2 = t2  t3 = t3
  Transfers <- TwoTransfers
  Faults <- NoFaults
  MaxRestarts = 0
SPECIFICATION Spec
INVARIANTS ClearedStaysCleared
