CONSTANTS
  FieldSizes <- MCFieldSizes
  RecPerPage = 2
  Bytes = {0, 1}
SPECIFICATION Spec
INVARIANT ChunkOfProjection
