\* Two users, a game that starts with one: the other may come late.
SPECIFICATION FairSpec
CONSTANTS
  u1 = u1
  u2 = u2
  UserId <- MCUserId
  NumUsers <- MCNumUsers
  HistoryLength <- MCHistory
INVARIANTS GameTypeOK NobodyLeftMeditating WinnerHasLeast
PROPERTIES LateComersStayOut PlayersAreSettled MeditationEnds
