CONSTANTS
  t1 = t1  t2 = t2  d1 = d1  d2 = d2
  Targets <- MCTargets
  TargetIDs <- MCTargetIDs
  Deleters <- MCDeleters
  Jobs = {j1, j2}
  Requests = {r1, r2, r3}
  None = None
SPECIFICATION PartSpec
CHECK_DEADLOCK FALSE
INVARIANTS RowsHaveSecrets OrphansComeFromFailures NoticesAccountedFor MissingSecretMeansDeleted
           AnswersHold RunningIsWhole
SYMMETRY Interchangeable
