SPECIFICATION FairSpec
CONSTANTS
  lax = lax
  strict = strict
  Request = {r1, r2}
  Object = {lax}
  Default <- MCDefault
  Metadata <- MCMetadata
  Reply <- MCAbsent
  Key <- MCKey
  Ttl = 0
  TTL = {0}
  MaxTTL = 1
  Value <- MCValue
  NoValue = NoValue
  NoCaller = NoCaller
  NoEntry = NoEntry
  Horizon = 1
VIEW LiveStateNoHistory
PROPERTY
  EveryRequestReplies
