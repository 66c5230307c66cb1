SPECIFICATION Spec
CONSTANTS
  Caller = {c1, c2, c3}
  Key = {k}
  TTL = {0, 1}
  MaxTTL = 1
  Value = {v}
  NoValue = NoValue
  NoCaller = NoCaller
  NoEntry = NoEntry
  Horizon = 2
SYMMETRY CallerSymmetry
INVARIANTS
  TypeOK
  WaitersHaveLeader
  OneFlightPerKey
  BoundedStaleness
  ErrorsNeverPinned
  CacheSparesUpstream
PROPERTIES
  CacheNeverRegresses
  ImplementsReadings
