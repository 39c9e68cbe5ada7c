SPECIFICATION FairHarvestSpec
CONSTANTS
  i1 = i1
  i2 = i2
  s1 = s1
  Instances <- TwoInstances
  Clis = {}
  Sweeps <- OneSweep
  Unit = 2
  LockTtl = 1
  Week = 2
  Amounts = {7}
  MaxPayments = 2
  MaxFailures = 2
INVARIANT FairShares
PROPERTY FeesAreDistributed
