CONSTANTS
  ip1 = ip1  ip2 = ip2  h1 = h1  h2 = h2  h3 = h3  k1 = k1  r1 = r1  r2 = r2  s1 = s1
  Addresses <- OneAddress
  Handlers <- ThreeHandlers
  Window = 2
  Threshold = 2
  MaxStrikes = 2
  FailureRetention = 3
  MaxTime = 5
  MaxPerTick = 5
  MaxMishaps = 1
  Tokens <- OneToken
  Peers <- TwoPeers
  Requests <- TwoRequests
  Streams <- OneStream
  Idle = 1
  Absolute = 2
  Retention = 3
  LoginUntil = 1
  MaxSessionTime = 4
SPECIFICATION AuthenticationSpec
INVARIANTS FailuresMeanBan BoundedGuessing NoEntryAfterEnd
PROPERTIES BanRunsItsTime ServedWhileActive StreamsEnd
