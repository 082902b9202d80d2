CONSTANTS
  p1 = p1  p2 = p2  v1 = v1  v2 = v2
  Packages <- MCPackages
  Versions <- MCVersions
  Absent = Absent
  Unknown = Unknown
  MaxInstances = 2
  MaxChanges = 0
  MaxMishaps = 0
SPECIFICATION Spec
INVARIANTS ChangesAddUp
