CONSTANTS
  FieldSizes <- MCFieldSizes
  RecPerPage = 2
  Bytes = {0, 1}
SPECIFICATION Spec
INVARIANT TypeOK
INVARIANT RoundTrip
INVARIANT ChunkOfFullSchema
