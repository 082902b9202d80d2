CONSTANTS
  a1 = a1  a2 = a2  p1 = p1  p2 = p2  disk = disk  cpu = cpu  w1 = w1  w2 = w2
  Admins <- MCAdmins
  Processes <- MCProcesses
  Switches <- MCSwitches
  Disk = disk
  Bodies <- MCBodies
  None = None
  MaxIO = 2
  MaxPatches = 2
  MaxMishaps = 1
  Watches <- MCWatches
  Rates = {0}
  Width = 2
  RawRetention = 2
  RollupRetention = 7
  PruneEvery = 3
  EvictRaw = 1
  EvictRollups = 1
  MaxTime = 13
  MetricMishaps = 2
  WatchTime = 3
  WatchMishaps = 1
SPECIFICATION HistoriesSpec
CHECK_DEADLOCK FALSE
SYMMETRY MCSymmetry
INVARIANTS CountedOnce OffIsNotCounted SwitchesKept SampleShownOnce WatchSamplesKept
