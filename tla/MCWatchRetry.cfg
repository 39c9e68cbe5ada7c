SPECIFICATION FairSpec
CONSTANTS
  BelowLevels <- Health
  AboveLevels = {}
  Venues = {}
  Markets <- Market
  SignalOrder <- HealthOrder
  Threshold <- MCThreshold
  MinSlots = 1
  MinRoom = 1
  NoSample = NoSample
  HasWebhook = TRUE
  Samples <- RetrySamples
  Watchlists <- HealthWatch
  MaxFirings = 2
  MaxEpisodes = 2
  MaxWrites = 1
  MaxCrashes = 0
INVARIANT ReceiptTellsTheTruth
 
CHECK_DEADLOCK FALSE
