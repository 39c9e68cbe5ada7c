SPECIFICATION FairSpec
CONSTANTS
  s1 = s1
  s2 = s2
  s3 = s3
  i1 = i1
  i2 = i2
  Sessions <- MCManySessions
  Instances <- MCInstances
  Budget <- MCSmallBudget
  TtlSeconds = 1
  TicksPerSecond = 3
  NoRecord = NoRecord
  NoSession = NoSession
  MaxTime = 3
  MaxCalls = 3
  MaxDrops = 1
CONSTRAINT DrawnInOrder
INVARIANTS NoOverspend PaidWindowHonoured
PROPERTIES NoResurrection KeepsPromise EveryCallAnswered
CHECK_DEADLOCK FALSE
