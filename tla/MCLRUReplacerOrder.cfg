CONSTANTS
  Frames = {0, 1, 2}
  NoFrame = NoFrame
  RepinAllowed = FALSE
SPECIFICATION Spec
PROPERTY LeastRecentlyUnpinnedFirst
