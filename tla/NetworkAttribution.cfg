CONSTANTS
  th1 = th1  th2 = th2  k1 = k1  k2 = k2  t1 = t1  t2 = t2  t3 = t3  s1 = s1
  so1 = so1  so2 = so2
  Threads <- MCThreads
  Keys <- MCKeys
  Transfers <- MCTransfers
  Slots <- MCSlots
  Sockets <- MCSockets
  MaxCalls = 1
  MaxBytes = 3
  None = None
  NoKey = NoKey  NoSlot = NoSlot  NoTransfer = NoTransfer
SPECIFICATION AttributionSpec
INVARIANTS LossIsNamed NoStaleCalls EpochIsFresh SocketBytesOnce
SYMMETRY Interchangeable
