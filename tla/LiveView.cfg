CONSTANTS
  v1 = v1  v2 = v2
  Values <- MCValues
  Nothing = Nothing
  Expired = Expired
  Closed = Closed
  MaxMishaps = 1
SPECIFICATION FairSpec
INVARIANTS NewestIsOnItsWay
PROPERTIES EndedIsCleared EventuallyShown
