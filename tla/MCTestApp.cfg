\* One user, as maxUsers is by default; column 1 is outside the play area of
\* the settings, and the operator selects others and shifts the users.  Columns
\* 1, 4 and 7 are out of reach of each other, so that the vector gets full; one
\* slot less would not be enough.
CONSTANTS
  Positions = {1, 2, 4, 7}
  Places = {1, 2, 4, 7}
  Dist <- MCDist
  MaxBlobs = 1
  RejectDistanceThreshold = 2
  MinimumDisplacementThreshold = 2
  GhostFrames = 1
  IdLimit = 4
  HardLimit = 3
  NonMoodFrames = 0
  TopLeft = 2
  LowRight = 4
  Clicks = {2, 3}
  OffsetLimit = 1
SPECIFICATION AppSpec
INVARIANTS AppTypeOK SlotInBounds VectorBounded InsideIsShown
PROPERTY MovesOnlyWhilePresent
