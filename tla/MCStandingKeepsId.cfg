\* Two blobs: one stands still while the other jumps out of reach.
CONSTANTS
  Positions = {0, 2, 4}
  Places = {0, 2, 4}
  Dist <- MCDist
  MaxBlobs = 2
  RejectDistanceThreshold = 1
  MinimumDisplacementThreshold = 2
  GhostFrames = 2
  IdLimit = 6
SPECIFICATION MCSpec
PROPERTY StandingKeepsId
