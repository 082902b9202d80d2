CONSTANTS
  r1 = r1  r2 = r2  a1 = a1  a2 = a2  a3 = a3
  Rules <- OneRule
  Ids <- ThreeIds
  ForTicks = 1
  MaxMishaps = 1
SPECIFICATION FairSpec
INVARIANTS OneActiveAlert ToldOnce RecoveryFollowsFiring FiresAfterHolding
PROPERTIES AcknowledgementLostInFlight AlertsSettle
