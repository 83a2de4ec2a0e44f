CONSTANTS
  PoolSize = 2
  K = 2
  MaxTs = 5
  REPLACERS = {"LRUKReplacer"}
  Files = {1, 2}
  PageIds = {0, 1}
  C1 = C1
  C2 = C2
  Clients <- MCClients
  MaxPin = 2
  MaxVersion = 1
  NoFrame = NoFrame
  NoPage = NoPage
SPECIFICATION Spec
CONSTRAINT ClockBound
SYMMETRY ClientSymmetry
INVARIANT PinnedFrameKeepsPage
