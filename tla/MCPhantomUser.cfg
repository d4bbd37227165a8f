\* Two users on a play area that is the whole image.
CONSTANTS
  Positions = {1, 2}
  Places = {1, 2}
  Dist <- MCDist
  MaxBlobs = 2
  RejectDistanceThreshold = 0
  MinimumDisplacementThreshold = 1
  GhostFrames = 1
  IdLimit = 5
  HardLimit = 4
  NonMoodFrames = 0
  TopLeft = 1
  LowRight = 2
  Clicks = {}
  OffsetLimit = 0
SPECIFICATION MCAppSpec
INVARIANT NoPhantomUsers
