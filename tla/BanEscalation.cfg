CONSTANTS
  ip1 = ip1  h1 = h1  h2 = h2
  Addresses <- OneAddress
  Handlers <- TwoHandlers
  Window = 2
  Threshold = 2
  MaxStrikes = 2
  FailureRetention = 3
  MaxTime = 5
  MaxPerTick = 5
  MaxMishaps = 0
SPECIFICATION Spec
PROPERTIES BansEscalate
