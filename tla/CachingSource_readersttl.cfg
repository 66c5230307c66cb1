SPECIFICATION Spec
CONSTANTS
  Caller = {c1, c2}
  Key = {k}
  TTL = {1, 2}
  MaxTTL = 2
  Value = {v}
  NoValue = NoValue
  NoCaller = NoCaller
  NoEntry = NoEntry
  Horizon = 2
INVARIANT
  ReadersTTLHonoured
