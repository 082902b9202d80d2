CONSTANTS
  Watches = {}
  Rates = {0, 1}
  Width = 2
  RawRetention = 2
  RollupRetention = 4
  PruneEvery = 2
  EvictRaw = 1
  EvictRollups = 1
  MaxTime = 6
  MaxMishaps = 0
  None = None
SPECIFICATION Spec
CHECK_DEADLOCK FALSE
INVARIANTS HistoryReadable
