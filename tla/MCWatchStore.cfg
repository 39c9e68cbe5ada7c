SPECIFICATION Spec
CONSTANTS
  w1 = w1
  c1 = c1
  c2 = c2
  p1 = p1
  p2 = p2
  Watches <- OneWatch
  Clients <- TwoClients
  Pollers <- TwoPollers
  TtlSeconds = 1
  LockSeconds = 1
  TicksPerSecond = 2
  NoRecord = NoRecord
  NoWatch = NoWatch
  MaxTime = 3
  MaxOps = 4
  MaxActive = 2
  MaxErrors = 1
INVARIANTS NoUnpaidTime LockIsExclusive PaidWatchIntact
SYMMETRY ProcessSymmetry
CHECK_DEADLOCK FALSE
