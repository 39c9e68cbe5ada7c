SPECIFICATION Spec
CONSTANTS
  r1 = r1
  r2 = r2
  None = None
  Job = Job
  Requests <- TwoRequests
  JobRequest = r1
  Hour = 2
  Retention = 2
  KeyTtl = 3
  MaxTime = 4
  MaxFailures = 1
INVARIANTS NoForesight OnePointPerHourAlone PointsAreKept StabilityIsOfTheSeries
CHECK_DEADLOCK FALSE
