SPECIFICATION Spec
CONSTANTS
  Default <- MCDefault
  Metadata <- MCMetadata
  Reply <- MCReply
INVARIANT
  ActiveIffADimensionIsOver
PROPERTY
  MoreLoadNeverScoresLess
