SPECIFICATION Spec
CONSTANTS
  w1 = w1
  c1 = c1
  c2 = c2
  p1 = p1
  p2 = p2
  Watches <- OneWatch
  Clients <- OneClient
  Pollers <- OnePoller
  TtlSeconds = 2
  LockSeconds = 1
  TicksPerSecond = 1
  NoRecord = NoRecord
  NoWatch = NoWatch
  MaxTime = 4
  MaxOps = 3
  MaxActive = 2
  MaxErrors = 0
INVARIANT PaidExtensionKept
CHECK_DEADLOCK FALSE
