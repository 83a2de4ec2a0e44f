CONSTANTS
  PoolSize = 3
  K = 2
  MaxTs = 5
  NoFrame = NoFrame
  RepinAllowed = FALSE
SPECIFICATION Spec
INVARIANT TypeOK
INVARIANT SizeCountsEvictable
PROPERTY ReplacerRefinement
PROPERTY VictimFollowsPolicy
