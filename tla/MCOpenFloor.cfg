\* One user, and a play area that is the whole image, as both are by default,
\* with no user in the first column, where a coordinate is zero.
CONSTANTS
  Positions = {1, 2, 4}
  Places = {1, 2, 4}
  Dist <- MCDist
  MaxBlobs = 1
  RejectDistanceThreshold = 2
  MinimumDisplacementThreshold = 2
  GhostFrames = 1
  IdLimit = 4
  HardLimit = 3
  NonMoodFrames = 0
  TopLeft = 0
  LowRight = 4
  Clicks = {}
  OffsetLimit = 0
  ChannelLimit = 2
SPECIFICATION FairFloorSpec
INVARIANTS ListenerAgrees NoPhantomUsers ScreenShowsPresent
PROPERTIES ScreenClears MoodIsReported
