SPECIFICATION Spec
CONSTANTS
  Default <- MCDefault
  Metadata <- MCMetadata
  Reply <- MCReply
INVARIANT
  SaturatedDimensionScalesOut
