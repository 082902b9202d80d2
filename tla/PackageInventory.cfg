CONSTANTS
  p1 = p1  p2 = p2  v1 = v1  v2 = v2
  Packages <- MCPackages
  Versions <- MCVersions
  Absent = Absent
  Unknown = Unknown
  MaxInstances = 1
  MaxChanges = 2
  MaxMishaps = 1
SPECIFICATION FairSpec
INVARIANTS RefreshingIsTrue ChangesAddUp StaleAdviceIsMarked
PROPERTIES AcceptedIsServed EventuallyAccurate
