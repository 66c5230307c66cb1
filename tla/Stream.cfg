SPECIFICATION FairSpec
CONSTANTS
  Default <- MCDefault
  Metadata <- MCMetadata
  MaxInt = 127
INVARIANTS
  TypeOK
  BackoffLaw
  NeverSpins
PROPERTIES
  StreamEndsAfterItsClient
  FailingStreamEnds
  PushesResume
