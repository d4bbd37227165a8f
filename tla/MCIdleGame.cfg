\* The same instance; the countdown ends in the frame in which a player moves.
SPECIFICATION Spec
CONSTANTS
  u1 = u1
  u2 = u2
  UserId <- MCUserId
  NumUsers <- MCNumUsers
  HistoryLength <- MCHistory
PROPERTY StartsWithPlayers
