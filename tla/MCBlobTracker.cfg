\* Two blobs at most, on three columns: a step of one column is within reach
\* and too short to report, a step of two is out of reach, so that a report
\* needs a drift over two frames.
CONSTANTS
  Positions = {0, 1, 2}
  Places = {0, 1, 2}
  Dist <- MCDist
  MaxBlobs = 2
  RejectDistanceThreshold = 1
  MinimumDisplacementThreshold = 2
  GhostFrames = 2
  IdLimit = 5
SPECIFICATION MCSpec
INVARIANTS TypeOK IdsDistinct DriftIsReported
PROPERTIES IdNeverJumps NoSwap StillFloorKeepsIds ImplementsLifecycle
