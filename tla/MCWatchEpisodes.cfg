SPECIFICATION EpisodeSpec
CONSTANTS
  BelowLevels <- Health
  AboveLevels <- Claimable
  Venues <- Venue
  Markets <- Market
  SignalOrder <- AllSignals
  Threshold <- MCThreshold
  MinSlots = 1
  MinRoom = 1
  NoSample = NoSample
  HasWebhook = FALSE
  Samples <- MCSamples
  Watchlists <- EveryWatchlist
  MaxFirings = 2
  MaxEpisodes = 2
  MaxWrites = 1
  MaxCrashes = 1
INVARIANTS OneKeyPerCrossing NewKeyAfterRecovery EveryCrossingFires
PROPERTY EveryDropIsPosted
CHECK_DEADLOCK FALSE
