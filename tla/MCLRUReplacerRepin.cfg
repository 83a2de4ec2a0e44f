CONSTANTS
  Frames = {0, 1, 2}
  NoFrame = NoFrame
  RepinAllowed = TRUE
SPECIFICATION Spec
PROPERTY ReplacerRefinement
