SPECIFICATION FairSpec
CONSTANTS
  r1 = r1
  r2 = r2
  r3 = r3
  Requests <- ThreeRequests
  Concurrency = 2
  DelayMs = 1
  MaxRetries = 1
  BaseDelayMs = 1
  NoTimer = NoTimer
  MaxTime = 0
INVARIANTS TypeOK WithinBudget StartsSpaced StartedInOrder NeverStalled

CHECK_DEADLOCK FALSE
PROPERTY EveryRequestSettles
