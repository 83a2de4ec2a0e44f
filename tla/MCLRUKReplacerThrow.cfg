CONSTANTS
  PoolSize = 3
  K = 2
  MaxTs = 5
  NoFrame = NoFrame
SPECIFICATION Spec
INVARIANT VictimNeverThrows
