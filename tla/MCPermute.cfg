\* Up to two contours against up to five blobs, more than the four closest that
\* permute considers, some of them out of reach, with ties; up to five contours,
\* so that permute considers the three closest only, against four; and up to two
\* contours in one call after the other, with ghosts of one frame and ids that wrap.
CONSTANTS
  Positions = {0, 1, 3}
  Places = {0, 1, 3}
  Dist <- MCDist
  MaxBlobs = 5
  Inputs <- MCInputs
  Later <- MCLater
  RejectDistanceThreshold = 2
  MinimumDisplacementThreshold = 2
  GhostFrames = 1
  IdLimit = 7
SPECIFICATION MCSpec
CHECK_DEADLOCK FALSE
INVARIANTS PermuteTypeOK PermuteIsMatrix BestIsMatches RowsAreFull
PROPERTY CallIsTrackBlobs
