SPECIFICATION Spec
CONSTANTS
  lax = lax
  strict = strict
  Request = {r1, r2}
  Object = {lax, strict}
  Default <- MCDefault
  Metadata <- MCMetadata
  Reply <- MCReply
  Key <- MCKey
  Ttl = 1
  TTL = {1}
  MaxTTL = 1
  Value <- MCValue
  NoValue = NoValue
  NoCaller = NoCaller
  NoEntry = NoEntry
  Horizon = 0
SYMMETRY RequestSymmetry
VIEW LiveState
INVARIANTS
  TypeOK
  NoPartialDecision
  NoGoroutineOutlivesRequest
  ReadingsAreOwn
