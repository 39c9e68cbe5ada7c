SPECIFICATION Spec
CONSTANTS
  r1 = r1
  r2 = r2
  r3 = r3
  None = None
  Requests <- ThreeRequests
  Ttl = 1
  MaxTime = 3
  MaxFailures = 1
PROPERTIES CacheAgeIsHonest ReadsDoNotGoBack
SYMMETRY RequestSymmetry
CHECK_DEADLOCK FALSE
