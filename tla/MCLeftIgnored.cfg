\* One user; column 1 is outside the play area, on its left.
CONSTANTS
  Positions = {1, 2, 4}
  Places = {1, 2, 4}
  Dist <- MCDist
  MaxBlobs = 1
  RejectDistanceThreshold = 2
  MinimumDisplacementThreshold = 2
  GhostFrames = 1
  IdLimit = 4
  HardLimit = 3
  NonMoodFrames = 1
  TopLeft = 2
  LowRight = 4
  Clicks = {}
  OffsetLimit = 0
  ChannelLimit = 2
SPECIFICATION FloorSpec
INVARIANT NobodyStays
