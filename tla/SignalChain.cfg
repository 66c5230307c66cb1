SPECIFICATION ChainSpec
CONSTANTS
  Request = {r1, r2, r3}
  CAPACITY = 2
  ScrapeInterval = 2
  CacheTTL = 1
  LongestTTL = 2
  PollingInterval = 3
  QueueThreshold = 0
  KVThreshold = 1
  NoEntry = NoEntry
SYMMETRY RequestSymmetry
INVARIANTS
  ChainTypeOK
  GaugesAreTrue
  NoLostWakeup
  MetricFollowsLoad
PROPERTY
  ScaleInIsReal
