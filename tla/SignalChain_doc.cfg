SPECIFICATION ChainSpec
CONSTANTS
  Request = {r1, r2, r3}
  CAPACITY = 2
  ScrapeInterval = 2
  CacheTTL = 2
  LongestTTL = 2
  PollingInterval = 4
  QueueThreshold = 0
  KVThreshold = 1
  NoEntry = NoEntry
SYMMETRY RequestSymmetry
INVARIANT
  SignalAgeAsDocumented
