CONSTANTS
  t1 = t1  t2 = t2  t3 = t3
  Transfers <- TwoTransfers
  Faults <- AllFaults
  MaxRestarts = 1
SPECIFICATION ModeSpec
INVARIANTS AtMostOncePerRun ReappearsOnlyFromFlight CalmHidesNoLoss
PROPERTIES ImplementsLedger CalmRecords
