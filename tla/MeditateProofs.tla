--------------------------- MODULE MeditateProofs ---------------------------
(***************************************************************************)
(* What the game guarantees for any number of users, however the reader    *)
(* thread and the drawing thread are interleaved.                          *)
(***************************************************************************)
EXTENDS Meditate, FiniteSetTheorems, TLAPS

UserStatus == {"wander", "ready", "meditating", "ended"}

\* What is needed of the types.
TypesOK ==
  /\ users \subseteq UserId /\ todo \subseteq users
  /\ message \in [user : UserId, late : BOOLEAN]
  /\ userStatus \in [UserId -> UserStatus]

\* Where the drawing thread is goes with the status of the game.
PhaseOK ==
  /\ drawing \in {"count", "meditate"} => status \in {"waiting", "ready"}
  /\ drawing \in {"announce", "end"} => status = "running"

\* Who meditates is in the table, and when the meditation ends those still to
\* be told are all who meditate.
MeditatorsOK ==
  /\ \A u \in UserId : userStatus[u] = "meditating" => u \in users
  /\ drawing = "end" => \A u \in UserId : userStatus[u] = "meditating" => u \in todo
  /\ NobodyLeftMeditating

\* A message that came too late does not get to the creation of a user.
LateOK ==
  /\ message.late => readerStatus = "meditating"
  /\ reading = "create" => ~message.late

\* The drawing thread never meets a user who is not in the table any more.
NoNullUser == drawing # "null"

IInv == TypesOK /\ PhaseOK /\ MeditatorsOK /\ LateOK /\ NoNullUser

-----------------------------------------------------------------------------
LEMMA NoMessageOK == NoMessage \in [user : UserId, late : BOOLEAN]
  BY MeditateAssumption DEF NoMessage

\* The message in hand remains one, and none that is late.
LEMMA GotoOK ==
  ASSUME NEW place, Goto(place), message \in [user : UserId, late : BOOLEAN]
  PROVE  /\ message' \in [user : UserId, late : BOOLEAN]
         /\ message'.late => message.late
         /\ reading' = place
<1>1. CASE place = "idle"
  BY <1>1, NoMessageOK DEF Goto, NoMessage
<1>2. CASE place # "idle"
  BY <1>2 DEF Goto
<1> QED BY <1>1, <1>2

LEMMA Initial == Init => IInv
<1> SUFFICES ASSUME Init PROVE IInv
  OBVIOUS
<1>1. TypesOK
  BY NoMessageOK DEF Init, TypesOK, UserStatus
<1>2. PhaseOK
  BY DEF Init, PhaseOK
<1>3. MeditatorsOK
  BY DEF Init, MeditatorsOK, NobodyLeftMeditating
<1>4. LateOK
  BY DEF Init, LateOK, NoMessage
<1> QED BY <1>1, <1>2, <1>3, <1>4 DEF IInv, Init, NoNullUser

-----------------------------------------------------------------------------
(* The reader thread.                                                      *)

LEMMA ReceiveStep == ASSUME IInv, NEW u \in UserId, Receive(u) PROVE IInv'
<1> USE DEF Receive, userVars, gameVars, frameVars
<1>1. TypesOK'
  BY DEF IInv, TypesOK
<1>2. PhaseOK'
  BY DEF IInv, PhaseOK
<1>3. MeditatorsOK'
  BY DEF IInv, MeditatorsOK, NobodyLeftMeditating
<1>4. LateOK'
  BY DEF IInv, LateOK
<1> QED BY <1>1, <1>2, <1>3, <1>4 DEF IInv, NoNullUser

\* Steps that leave the table, the statuses and the drawing thread alone.
LEMMA MovesOn ==
  ASSUME IInv, NEW place, Goto(place), place # "create",
         UNCHANGED <<users, todo, userStatus, status, readerStatus, drawing>>
  PROVE  IInv'
<1>1. TypesOK'
  BY GotoOK DEF IInv, TypesOK
<1>2. PhaseOK'
  BY DEF IInv, PhaseOK
<1>3. MeditatorsOK'
  BY DEF IInv, MeditatorsOK, NobodyLeftMeditating
<1>4. LateOK'
  BY GotoOK DEF IInv, LateOK, TypesOK
<1> QED BY <1>1, <1>2, <1>3, <1>4 DEF IInv, NoNullUser

LEMMA CheckStatusStep == ASSUME IInv, CheckStatus PROVE IInv'
<1> USE DEF CheckStatus, userVars, gameVars, frameVars
<1>1. CASE readerStatus = "meditating"
  BY <1>1, MovesOn
<1>2. CASE readerStatus # "meditating"
  <2>1. Goto("create")
    BY <1>2
  <2>2. TypesOK'
    BY <2>1, GotoOK DEF IInv, TypesOK
  <2>3. PhaseOK'
    BY DEF IInv, PhaseOK
  <2>4. MeditatorsOK'
    BY DEF IInv, MeditatorsOK, NobodyLeftMeditating
  <2>5. LateOK'
    BY <1>2, <2>1, GotoOK DEF IInv, LateOK, TypesOK
  <2> QED BY <2>2, <2>3, <2>4, <2>5 DEF IInv, NoNullUser
<1> QED BY <1>1, <1>2

LEMMA CreateUserStep == ASSUME IInv, CreateUser PROVE IInv'
<1> USE DEF CreateUser, gameVars
<1>1. TypesOK'
  BY GotoOK DEF IInv, TypesOK
<1>2. PhaseOK'
  BY DEF IInv, PhaseOK
<1>3. MeditatorsOK'
  BY DEF IInv, MeditatorsOK, NobodyLeftMeditating
<1>4. LateOK'
  BY GotoOK DEF IInv, LateOK, TypesOK
<1> QED BY <1>1, <1>2, <1>3, <1>4 DEF IInv, NoNullUser

LEMMA SetReadyStep == ASSUME IInv, SetReady PROVE IInv'
<1> USE DEF SetReady, gameVars, frameVars
<1>1. userStatus' \in [UserId -> UserStatus]
  BY DEF IInv, TypesOK, UserStatus
<1>2. \A u \in UserId : userStatus'[u] = "meditating" => userStatus[u] = "meditating"
  BY DEF IInv, TypesOK
<1>3. TypesOK'
  BY <1>1, GotoOK DEF IInv, TypesOK
<1>4. PhaseOK'
  BY DEF IInv, PhaseOK
<1>5. MeditatorsOK'
  BY <1>2 DEF IInv, MeditatorsOK, NobodyLeftMeditating
<1>6. LateOK'
  BY GotoOK DEF IInv, LateOK, TypesOK
<1> QED BY <1>3, <1>4, <1>5, <1>6 DEF IInv, NoNullUser

\* Steps on variables the invariant does not read, or only reading' for.
LEMMA NotReading ==
  ASSUME IInv, UNCHANGED <<users, todo, message, userStatus, status, readerStatus, drawing>>,
         reading' # "create" \/ reading' = reading
  PROVE  IInv'
BY DEF IInv, TypesOK, PhaseOK, MeditatorsOK, NobodyLeftMeditating, LateOK, NoNullUser

LEMMA ReaderStep == ASSUME IInv, Reader PROVE IInv'
<1>1. CASE \E u \in UserId : Receive(u)
  BY <1>1, ReceiveStep
<1>2. CASE \E u \in UserId : Ignore(u)
  BY <1>2, NotReading DEF Ignore, meditateVars, readerVars, userVars, gameVars, frameVars
<1>3. CASE CheckStatus
  BY <1>3, CheckStatusStep
<1>4. CASE CreateUser
  BY <1>4, CreateUserStep
<1>5. CASE UpdateUser
  BY <1>5, MovesOn DEF UpdateUser, gameVars, frameVars
<1>6. CASE RemoveFirst
  BY <1>6, NotReading DEF RemoveFirst, gameVars, frameVars
<1>7. CASE AddLast
  BY <1>7, NotReading DEF AddLast, gameVars, frameVars
<1>8. CASE CheckStill
  BY <1>8, MovesOn DEF CheckStill, userVars, gameVars, frameVars
<1>9. CASE SetReady
  BY <1>9, SetReadyStep
<1> QED BY <1>1, <1>2, <1>3, <1>4, <1>5, <1>6, <1>7, <1>8, <1>9 DEF Reader

-----------------------------------------------------------------------------
(* The drawing thread.                                                     *)

\* Steps that go on to another part of draw, with an enumeration of all users
\* or of those that are left.
LEMMA DrawsOn ==
  ASSUME IInv, UNCHANGED <<readerVars, users, userStatus>>, readerStatus' = readerStatus,
         todo' \subseteq users, drawing' # "null",
         drawing' = "end" => \A u \in UserId : userStatus[u] = "meditating" => u \in todo',
         PhaseOK', status' = "complete" => status = "complete"
  PROVE  IInv'
BY DEF IInv, TypesOK, MeditatorsOK, NobodyLeftMeditating, LateOK, NoNullUser, readerVars

LEMMA LookStep == ASSUME IInv, Look PROVE IInv'
<1> USE DEF Look, userVars, gameVars
<1>1. drawing' = drawing
  BY DEF IInv, TypesOK
<1>2. PhaseOK'
  BY <1>1 DEF IInv, PhaseOK
<1> QED BY <1>1, <1>2, DrawsOn DEF IInv, TypesOK

LEMMA JudgeStep == ASSUME IInv, Judge PROVE IInv'
<1> USE DEF Judge, userVars, gameVars
<1>1. drawing' \in {drawing, "thrown"}
  OBVIOUS
<1>2. PhaseOK'
  BY <1>1 DEF IInv, PhaseOK
<1> QED BY <1>1, <1>2, DrawsOn DEF IInv, TypesOK, MeditatorsOK, NoNullUser

LEMMA UpdateStatusStep == ASSUME IInv, UpdateStatus PROVE IInv'
<1> USE DEF UpdateStatus, Enumerate, userVars, gameVars
<1>1. /\ todo' = users /\ drawing' \in {"count", "end", "draw"}
      /\ drawing' = "count" => status \in {"waiting", "ready"}
      /\ drawing' = "end" => status = "running"
  OBVIOUS
<1>2. PhaseOK'
  BY <1>1 DEF PhaseOK
<1> QED BY <1>1, <1>2, DrawsOn DEF IInv, TypesOK, MeditatorsOK

LEMMA UpdateWaitingStep == ASSUME IInv, UpdateWaiting PROVE IInv'
<1> USE DEF UpdateWaiting, Enumerate, userVars
<1>1. PhaseOK'
  BY DEF PhaseOK
<1> QED BY <1>1, DrawsOn

LEMMA UpdateReadyStep == ASSUME IInv, UpdateReady PROVE IInv'
<1> USE DEF UpdateReady, Enumerate, userVars
<1>1. /\ todo' = users /\ drawing' \in {"meditate", "draw"}
      /\ status' \in {"waiting", "ready"}
  OBVIOUS
<1>2. PhaseOK'
  BY <1>1 DEF PhaseOK
<1> QED BY <1>1, <1>2, DrawsOn

LEMMA SetMeditatingStep == ASSUME IInv, SetMeditating PROVE IInv'
<1> USE DEF SetMeditating, gameVars, readerVars
<1>1. PICK u \in todo : /\ todo' = todo \ {u}
                        /\ userStatus' = [userStatus EXCEPT ![u] = "meditating"]
  OBVIOUS
<1>2. /\ userStatus' \in [UserId -> UserStatus]
      /\ \A v \in UserId : userStatus'[v] = "meditating" => v = u \/ userStatus[v] = "meditating"
  BY <1>1 DEF IInv, TypesOK, UserStatus
<1>3. TypesOK'
  BY <1>1, <1>2 DEF IInv, TypesOK
<1>4. PhaseOK'
  BY DEF IInv, PhaseOK
<1>5. MeditatorsOK'
  BY <1>1, <1>2 DEF IInv, TypesOK, PhaseOK, MeditatorsOK, NobodyLeftMeditating
<1>6. LateOK'
  BY DEF IInv, LateOK
<1> QED BY <1>3, <1>4, <1>5, <1>6 DEF IInv, NoNullUser

LEMMA StartRunningStep == ASSUME IInv, StartRunning PROVE IInv'
<1> USE DEF StartRunning, userVars
<1>1. PhaseOK'
  BY DEF PhaseOK
<1> QED BY <1>1, DrawsOn DEF IInv, TypesOK

LEMMA AnnounceStep == ASSUME IInv, Announce PROVE IInv'
<1> USE DEF Announce, Enumerate, userVars, readerVars
<1>1. TypesOK'
  BY DEF IInv, TypesOK
<1>2. PhaseOK'
  BY DEF PhaseOK
<1>3. MeditatorsOK'
  BY DEF IInv, MeditatorsOK, NobodyLeftMeditating
<1>4. LateOK'
  BY DEF IInv, LateOK
<1> QED BY <1>1, <1>2, <1>3, <1>4 DEF NoNullUser, IInv

LEMMA SetEndedStep == ASSUME IInv, SetEnded PROVE IInv'
<1> USE DEF SetEnded, gameVars, readerVars
<1>1. PICK u \in todo :
        /\ todo' = todo \ {u}
        /\ userStatus' = [userStatus EXCEPT ![u] = IF @ = "meditating" THEN "ended" ELSE @]
  OBVIOUS
<1>2. /\ userStatus' \in [UserId -> UserStatus]
      /\ \A v \in UserId : userStatus'[v] = "meditating" => v # u /\ userStatus[v] = "meditating"
  BY <1>1 DEF IInv, TypesOK, UserStatus
<1>3. TypesOK'
  BY <1>1, <1>2 DEF IInv, TypesOK
<1>4. PhaseOK'
  BY DEF IInv, PhaseOK
<1>5. MeditatorsOK'
  BY <1>1, <1>2 DEF IInv, MeditatorsOK, NobodyLeftMeditating
<1>6. LateOK'
  BY DEF IInv, LateOK
<1> QED BY <1>3, <1>4, <1>5, <1>6 DEF IInv, NoNullUser

LEMMA CompleteStep == ASSUME IInv, Complete PROVE IInv'
<1> USE DEF Complete, Enumerate, userVars, readerVars
<1>1. TypesOK'
  BY DEF IInv, TypesOK
<1>2. PhaseOK'
  BY DEF PhaseOK
<1>3. MeditatorsOK'
  BY DEF IInv, TypesOK, MeditatorsOK, NobodyLeftMeditating
<1>4. LateOK'
  BY DEF IInv, LateOK
<1> QED BY <1>1, <1>2, <1>3, <1>4 DEF NoNullUser, IInv

LEMMA DrawingStep == ASSUME IInv, Drawing PROVE IInv'
BY LookStep, JudgeStep, UpdateStatusStep, UpdateWaitingStep, UpdateReadyStep, SetMeditatingStep,
   StartRunningStep, AnnounceStep, SetEndedStep, CompleteStep DEF Drawing

-----------------------------------------------------------------------------
LEMMA Inductive == ASSUME IInv, [Next]_meditateVars PROVE IInv'
<1>1. CASE Reader
  BY <1>1, ReaderStep
<1>2. CASE Drawing
  BY <1>2, DrawingStep
<1>3. CASE PositionsAge
  BY <1>3, NotReading DEF PositionsAge, readerVars, gameVars, frameVars
<1>4. CASE TimeIsUp
  BY <1>4, NotReading DEF TimeIsUp, readerVars, userVars, frameVars
<1>5. CASE UNCHANGED meditateVars
  BY <1>5, NotReading DEF meditateVars, readerVars, userVars, gameVars, frameVars
<1> QED BY <1>1, <1>2, <1>3, <1>4, <1>5 DEF Next

LEMMA Invariant == Spec => []IInv
BY Initial, Inductive, PTL DEF Spec

\* When the meditation is over nobody is left meditating, with any number of
\* users, who may be created and updated while setAllMeditating and setAllEnded
\* go over the table.
THEOREM NobodyLeftCorrect == Spec => []NobodyLeftMeditating
<1>1. IInv => NobodyLeftMeditating
  BY DEF IInv, MeditatorsOK
<1> QED BY <1>1, Invariant, PTL

\* Who comes when the meditation has been announced stays out, with any number
\* of users.
THEOREM LateComersCorrect == Spec => LateComersStayOut
<1>1. ASSUME IInv, [Next]_meditateVars PROVE [users' # users => ~message.late]_meditateVars
  <2>1. CASE CreateUser
    BY <2>1, <1>1 DEF CreateUser, IInv, LateOK
  <2>2. CASE Next /\ ~CreateUser
    <3>1. UNCHANGED users
      BY <2>2 DEF Next, Reader, Receive, Ignore, CheckStatus, UpdateUser, RemoveFirst, AddLast,
        CheckStill, SetReady, Drawing, Look, Judge, UpdateStatus, UpdateWaiting, UpdateReady,
        SetMeditating, StartRunning, Announce, SetEnded, Complete, PositionsAge, TimeIsUp,
        meditateVars, userVars
    <3> QED BY <3>1
  <2> QED BY <1>1, <2>1, <2>2
<1> QED BY <1>1, Invariant, PTL DEF Spec, LateComersStayOut

-----------------------------------------------------------------------------
(* Who plays.                                                              *)

\* The window in which the meditation runs, and who is settled in it.
Runs == status = "running" /\ drawing # "end"
Settled(u) == userStatus[u] = "meditating" /\ ~Overtaken(u)

\* The drawing thread changes the statuses of users before and after it.
LEMMA DrawingKeepsPlayers ==
  ASSUME IInv, Runs, Drawing \/ PositionsAge \/ TimeIsUp \/ UNCHANGED meditateVars
  PROVE  UNCHANGED <<userStatus, reading, message>>
<1>1. CASE Drawing
  <2>1. ~SetMeditating /\ ~SetEnded
    BY DEF IInv, PhaseOK, Runs, SetMeditating, SetEnded
  <2> QED BY <1>1, <2>1 DEF Drawing, Look, Judge, UpdateStatus, UpdateWaiting, UpdateReady,
        StartRunning, Announce, Complete, userVars, readerVars
<1>2. CASE PositionsAge \/ TimeIsUp \/ UNCHANGED meditateVars
  BY <1>2 DEF PositionsAge, TimeIsUp, meditateVars, userVars, readerVars
<1> QED BY <1>1, <1>2

\* A step of the reader with which it comes to no place after update's look.
LEMMA ReaderKeepsPlayers ==
  ASSUME UNCHANGED userStatus, NEW u \in UserId,
         reading' \notin {"remove", "add", "still", "ready"}
  PROVE  (userStatus'[u] = "meditating" => userStatus[u] = "meditating")
         /\ (Settled(u) => Settled(u)')
BY DEF Settled, Overtaken

\* A step of the reader with which it goes on after that look with the user in hand.
LEMMA ReaderGoesOn ==
  ASSUME UNCHANGED <<userStatus, message>>, NEW u \in UserId,
         reading \in {"remove", "add", "still", "ready"}
           \/ userStatus[message.user] # "meditating"
  PROVE  (userStatus'[u] = "meditating" => userStatus[u] = "meditating")
         /\ (Settled(u) => Settled(u)')
BY DEF Settled, Overtaken

LEMMA ReaderSettles ==
  ASSUME IInv, Reader, NEW u \in UserId
  PROVE  (userStatus'[u] = "meditating" => userStatus[u] = "meditating")
         /\ (Settled(u) => Settled(u)')
<1>1. CASE (\E v \in UserId : Receive(v)) \/ CheckStatus \/ CreateUser
  BY <1>1, ReaderKeepsPlayers DEF Receive, CheckStatus, CreateUser, Goto, userVars
<1>2. CASE \E v \in UserId : Ignore(v)
  BY <1>2 DEF Ignore, meditateVars, userVars, readerVars, Settled, Overtaken
<1>3. CASE UpdateUser
  <2>1. CASE userStatus[message.user] = "meditating"
    BY <1>3, <2>1, ReaderKeepsPlayers DEF UpdateUser, Goto
  <2>2. CASE userStatus[message.user] # "meditating"
    <3>1. message' = message /\ userStatus' = userStatus
      BY <1>3, <2>2 DEF UpdateUser, Goto
    <3> QED BY <2>2, <3>1, ReaderGoesOn
  <2> QED BY <2>1, <2>2
<1>4. CASE RemoveFirst \/ AddLast
  BY <1>4, ReaderGoesOn DEF RemoveFirst, AddLast
<1>5. CASE CheckStill
  <2>1. userStatus' = userStatus /\ reading = "still"
    BY <1>5 DEF CheckStill, userVars
  <2>2. CASE IsStill(message.user)
    BY <1>5, <2>1, <2>2, ReaderGoesOn DEF CheckStill, Goto
  <2>3. CASE ~IsStill(message.user)
    BY <1>5, <2>1, <2>3, ReaderKeepsPlayers DEF CheckStill, Goto
  <2> QED BY <2>2, <2>3
<1>6. CASE SetReady
  <2>1. /\ userStatus' = [userStatus EXCEPT ![message.user] = "ready"]
        /\ reading = "ready" /\ reading' = "idle"
    BY <1>6 DEF SetReady, Goto
  <2>2. u # message.user => userStatus'[u] = userStatus[u]
    BY <2>1 DEF IInv, TypesOK
  <2>3. u = message.user => userStatus'[u] = "ready" /\ ~Settled(u)
    BY <2>1 DEF IInv, TypesOK, Settled, Overtaken
  <2> QED BY <2>1, <2>2, <2>3 DEF Settled, Overtaken
<1> QED BY <1>1, <1>2, <1>3, <1>4, <1>5, <1>6 DEF Reader

\* Who plays is settled when the meditation runs, with any number of users: nobody
\* is added, and only the one in the reader's hand can be lost.
THEOREM PlayersCorrect == Spec => PlayersAreSettled
<1> DEFINE Keeps(u) == /\ userStatus'[u] = "meditating" => userStatus[u] = "meditating"
                       /\ userStatus[u] = "meditating" /\ ~Overtaken(u) =>
                            userStatus'[u] = "meditating" /\ ~Overtaken(u)'
<1>1. ASSUME IInv, [Next]_meditateVars
      PROVE  [Runs => \A u \in UserId : Keeps(u)]_meditateVars
  <2> SUFFICES ASSUME Runs, NEW u \in UserId PROVE Keeps(u)
    OBVIOUS
  <2>1. CASE Reader
    BY <1>1, <2>1, ReaderSettles DEF Settled
  <2>2. CASE Drawing \/ PositionsAge \/ TimeIsUp \/ UNCHANGED meditateVars
    BY <1>1, <2>2, DrawingKeepsPlayers DEF Overtaken
  <2> QED BY <1>1, <2>1, <2>2 DEF Next
<1> QED BY <1>1, Invariant, PTL DEF Spec, PlayersAreSettled, Runs

-----------------------------------------------------------------------------
(* The winner.                                                             *)

\* Between the look into the table and the new user's place in it nobody else
\* puts that user there: there is one reader.
NewcomerOK == reading \in {"absent", "create"} => message.user \notin users

\* There is one winner so far, of those who have been told; who meditated to
\* the end has been told, in the only meditation there is, and has no less.
WinnerOK ==
  /\ best \subseteq users /\ \A b, c \in best : b = c
  /\ drawing = "end" => best \cap todo = {}
  /\ \A u \in UserId : userStatus[u] = "ended" =>
       /\ u \in users /\ (drawing = "end" \/ status = "complete")
       /\ drawing = "end" => u \notin todo
       /\ best # {} /\ \A b \in best : score[b] <= score[u]

ScoresOK == away \in [UserId -> 0 .. 1] /\ score \in [UserId -> 0 .. 1]

\* isStill is under way only in the enumerations of drawAll and countStill.
LookOK == look # {} => drawing \in {"draw", "count"}

WinnerInv == IInv /\ NewcomerOK /\ ScoresOK /\ LookOK /\ WinnerOK

\* Only the reader puts users into the table, and only into it.
LEMMA UsersStay ==
  ASSUME [Next]_meditateVars, ~CreateUser PROVE users' = users
BY DEF Next, Reader, Receive, Ignore, CheckStatus, UpdateUser, RemoveFirst, AddLast,
  CheckStill, SetReady, Drawing, Look, Judge, UpdateStatus, UpdateWaiting, UpdateReady,
  SetMeditating, StartRunning, Announce, SetEnded, Complete, PositionsAge, TimeIsUp,
  meditateVars, userVars

\* Only the reader creates users, one at a time.
LEMMA NewcomerStep ==
  ASSUME IInv, NewcomerOK, [Next]_meditateVars PROVE NewcomerOK'
<1>1. CASE CreateUser
  BY <1>1 DEF CreateUser, Goto, NewcomerOK
<1>2. CASE \E u \in UserId : Receive(u)
  BY <1>2 DEF Receive, NewcomerOK, userVars
<1>3. CASE CheckStatus
  BY <1>3 DEF CheckStatus, Goto, NewcomerOK, userVars
<1>4. CASE ~CreateUser /\ ~(\E u \in UserId : Receive(u)) /\ ~CheckStatus
  <2>1. reading' \notin {"absent", "create"} \/ UNCHANGED readerVars
    BY <1>4 DEF Next, Reader, Ignore, UpdateUser, RemoveFirst, AddLast, CheckStill, SetReady, Goto,
      Drawing, Look, Judge, UpdateStatus, UpdateWaiting, UpdateReady, SetMeditating, StartRunning,
      Announce, SetEnded, Complete, PositionsAge, TimeIsUp, meditateVars
  <2>2. users' = users
    BY <1>4, UsersStay
  <2> QED BY <2>1, <2>2 DEF NewcomerOK, readerVars
<1> QED BY <1>1, <1>2, <1>3, <1>4

\* Scores stay within their bound.
LEMMA ScoresStep ==
  ASSUME IInv, ScoresOK, [Next]_meditateVars PROVE ScoresOK'
<1>1. CASE UpdateUser
  <2>1. message.user \in UserId
    BY DEF IInv, TypesOK
  <2> QED BY <1>1, <2>1 DEF UpdateUser, ScoresOK, frameVars
<1>2. CASE SetMeditating
  <2>1. PICK u \in todo : away' = [away EXCEPT ![u] = 0]
    BY <1>2 DEF SetMeditating
  <2>2. score' = score /\ u \in UserId
    BY <1>2 DEF SetMeditating, IInv, TypesOK
  <2>3. away' \in [UserId -> 0 .. 1]
    BY <2>1, <2>2 DEF ScoresOK
  <2> QED BY <2>2, <2>3 DEF ScoresOK
<1>3. CASE SetEnded
  <2>1. PICK u \in todo : score' = [score EXCEPT ![u] = Ended(u)]
    BY <1>3 DEF SetEnded
  <2>2. away' = away /\ u \in UserId
    BY <1>3 DEF SetEnded, IInv, TypesOK
  <2>3. Ended(u) \in 0 .. 1
    BY <2>2 DEF ScoresOK, Ended
  <2> QED BY <2>1, <2>2, <2>3 DEF ScoresOK
<1>4. CASE ~UpdateUser /\ ~SetMeditating /\ ~SetEnded
  <2>1. UNCHANGED <<away, score>>
    BY <1>4 DEF Next, Reader, Receive, Ignore, CheckStatus, CreateUser, RemoveFirst, AddLast,
      CheckStill, SetReady, Drawing, Look, Judge, UpdateStatus, UpdateWaiting, UpdateReady,
      StartRunning, Announce, Complete, PositionsAge, TimeIsUp, meditateVars, userVars
  <2> QED BY <2>1 DEF ScoresOK
<1> QED BY <1>1, <1>2, <1>3, <1>4

\* isStill ends before its enumeration does.
LEMMA LookOKStep ==
  ASSUME LookOK, [Next]_meditateVars PROVE LookOK'
BY DEF LookOK, Next, Reader, Receive, Ignore, CheckStatus, CreateUser, UpdateUser, RemoveFirst,
  AddLast, CheckStill, SetReady, Drawing, Look, Judge, UpdateStatus, UpdateWaiting, UpdateReady,
  Enumerate, SetMeditating, StartRunning, Announce, SetEnded, Complete, PositionsAge, TimeIsUp,
  meditateVars, frameVars

\* Steps that end nobody's meditation and name no other winner.
LEMMA WinnerKept ==
  ASSUME WinnerOK, UNCHANGED <<score, best>>, users \subseteq users',
         \A u \in UserId : userStatus'[u] = "ended" => userStatus[u] = "ended",
         drawing = "end" \/ status = "complete" => drawing' = "end" \/ status' = "complete",
         drawing' = "end" => drawing = "end" /\ todo' \subseteq todo \cup (users' \ users)
  PROVE  WinnerOK'
BY DEF WinnerOK

\* setEnded of one user, with the comparison in setAllEnded.
LEMMA WinnerSetEnded ==
  ASSUME WinnerInv, SetEnded PROVE WinnerOK'
<1>1. PICK u \in todo :
        /\ todo' = todo \ {u}
        /\ score' = [score EXCEPT ![u] = Ended(u)]
        /\ userStatus' = [userStatus EXCEPT ![u] = IF @ = "meditating" THEN "ended" ELSE @]
        /\ best' = IF Better(u) THEN {u} ELSE best
  BY DEF SetEnded
<1>2. /\ drawing = "end" /\ drawing' = "end" /\ users' = users /\ status' = status
      /\ u \in users /\ u \in UserId /\ u \notin best /\ best \subseteq UserId
  BY DEF SetEnded, gameVars, WinnerInv, IInv, TypesOK, WinnerOK
<1>3. /\ Ended(u) \in 0 .. 1 /\ score'[u] = Ended(u)
      /\ \A v \in UserId : v # u => score'[v] = score[v]
      /\ \A v \in UserId : score[v] \in 0 .. 1
  BY <1>1, <1>2 DEF WinnerInv, ScoresOK, Ended
<1>4. \A v \in UserId : userStatus'[v] = "ended" => v = u \/ (userStatus[v] = "ended" /\ v \notin todo)
  BY <1>1, <1>2 DEF WinnerInv, IInv, TypesOK, WinnerOK
<1>5. CASE Better(u)
  <2>1. best' = {u} /\ \A b \in best : Ended(u) < score[b]
    BY <1>1, <1>5 DEF Better
  <2>2. \A v \in UserId : userStatus[v] = "ended" => Ended(u) <= score[v]
    BY <2>1, <1>2, <1>3 DEF WinnerInv, WinnerOK
  <2> QED BY <1>1, <1>2, <1>3, <1>4, <2>1, <2>2 DEF WinnerInv, WinnerOK
<1>6. CASE ~Better(u)
  <2>1. best' = best /\ \E b \in best : score[b] <= Ended(u)
    BY <1>1, <1>2, <1>3, <1>6 DEF Better
  <2>2. \A b \in best : score'[b] = score[b] /\ score[b] <= Ended(u)
    BY <2>1, <1>2, <1>3 DEF WinnerInv, WinnerOK
  <2> QED BY <1>1, <1>2, <1>3, <1>4, <2>1, <2>2 DEF WinnerInv, WinnerOK
<1> QED BY <1>5, <1>6

\* Each step of the two threads keeps the winner.
LEMMA WinnerStep ==
  ASSUME WinnerInv, [Next]_meditateVars PROVE WinnerOK'
<1>1. CASE CreateUser
  <2>1. /\ todo' \subseteq todo \cup (users' \ users) /\ users \subseteq users'
        /\ UNCHANGED <<userStatus, drawing, status, score, best>>
    BY <1>1 DEF CreateUser, gameVars, WinnerInv, NewcomerOK
  <2> QED BY <2>1, WinnerKept DEF WinnerInv
<1>2. CASE SetReady
  <2>1. \A u \in UserId : userStatus'[u] = "ended" => userStatus[u] = "ended"
    BY <1>2 DEF SetReady, WinnerInv, IInv, TypesOK
  <2> QED BY <1>2, <2>1, WinnerKept DEF SetReady, gameVars, frameVars, WinnerInv
<1>3. CASE Reader /\ ~CreateUser /\ ~SetReady
  <2>1. UNCHANGED <<users, userStatus, todo, drawing, status, score, best>>
    BY <1>3 DEF Reader, Receive, Ignore, CheckStatus, UpdateUser, RemoveFirst, AddLast, CheckStill,
      meditateVars, userVars, gameVars, frameVars
  <2> QED BY <2>1, WinnerKept DEF WinnerInv
<1>4. CASE Look \/ Judge
  <2>1. /\ UNCHANGED <<users, userStatus, status, score, best>>
        /\ drawing # "end" /\ drawing' # "end"
    BY <1>4 DEF Look, Judge, userVars, gameVars, WinnerInv, LookOK
  <2> QED BY <2>1, WinnerKept DEF WinnerInv
<1>5. CASE UpdateStatus
  <2>1. /\ UNCHANGED <<users, userStatus, status, score>> /\ drawing = "draw"
        /\ drawing' = "end" => status = "running" /\ best' = {}
        /\ drawing' # "end" => best' = best
    BY <1>5 DEF UpdateStatus, Enumerate, userVars, gameVars
  <2>2. CASE drawing' = "end"
    BY <2>1, <2>2 DEF WinnerInv, WinnerOK
  <2>3. CASE drawing' # "end"
    BY <2>1, <2>3, WinnerKept DEF WinnerInv
  <2> QED BY <2>2, <2>3
<1>6. CASE UpdateWaiting \/ UpdateReady
  <2>1. /\ UNCHANGED <<users, userStatus, score, best>>
        /\ drawing # "end" /\ drawing' # "end" /\ status # "complete"
    BY <1>6 DEF UpdateWaiting, UpdateReady, Enumerate, userVars
  <2> QED BY <2>1, WinnerKept DEF WinnerInv
<1>7. CASE SetMeditating
  <2>1. PICK u \in todo : userStatus' = [userStatus EXCEPT ![u] = "meditating"]
    BY <1>7 DEF SetMeditating
  <2>2. /\ UNCHANGED <<users, drawing, status, score, best>> /\ drawing = "meditate"
        /\ \A v \in UserId : userStatus'[v] = "ended" => userStatus[v] = "ended"
    BY <1>7, <2>1 DEF SetMeditating, gameVars, WinnerInv, IInv, TypesOK
  <2> QED BY <2>2, WinnerKept DEF WinnerInv
<1>8. CASE StartRunning \/ Announce
  <2>1. /\ UNCHANGED <<users, userStatus, score, best>>
        /\ drawing \in {"meditate", "announce"} /\ drawing' # "end"
    BY <1>8 DEF StartRunning, Announce, Enumerate, userVars
  <2> QED BY <2>1, WinnerKept DEF WinnerInv, IInv, PhaseOK
<1>9. CASE SetEnded
  BY <1>9, WinnerSetEnded
<1>10. CASE Complete
  BY <1>10, WinnerKept DEF Complete, Enumerate, userVars, WinnerInv
<1>11. CASE PositionsAge \/ TimeIsUp \/ UNCHANGED meditateVars
  <2>1. UNCHANGED <<users, userStatus, todo, drawing, status, score, best>>
    BY <1>11 DEF PositionsAge, TimeIsUp, meditateVars, userVars, gameVars, frameVars
  <2> QED BY <2>1, WinnerKept DEF WinnerInv
<1> QED BY <1>1, <1>2, <1>3, <1>4, <1>5, <1>6, <1>7, <1>8, <1>9, <1>10, <1>11 DEF Next, Drawing

LEMMA WinnerInit == Init => WinnerInv
<1> SUFFICES ASSUME Init PROVE WinnerInv
  OBVIOUS
<1>1. NewcomerOK /\ ScoresOK /\ LookOK /\ WinnerOK
  BY DEF Init, NewcomerOK, ScoresOK, LookOK, WinnerOK
<1> QED BY <1>1, Initial DEF WinnerInv

LEMMA WinnerInductive == ASSUME WinnerInv, [Next]_meditateVars PROVE WinnerInv'
BY Inductive, NewcomerStep, ScoresStep, LookOKStep, WinnerStep DEF WinnerInv

LEMMA WinnerInvariant == Spec => []WinnerInv
BY WinnerInit, WinnerInductive, PTL DEF Spec

\* Of any number of users nobody who meditates to the end has moved less than the
\* winner, also when some are created while setAllEnded goes over the table, and
\* others are moved to ready under it by the reader.
THEOREM WinnerCorrect == Spec => []WinnerHasLeast
<1>1. WinnerInv => WinnerHasLeast
  BY DEF WinnerInv, IInv, TypesOK, WinnerOK, WinnerHasLeast
<1> QED BY <1>1, WinnerInvariant, PTL

-----------------------------------------------------------------------------
(* The types.                                                              *)

\* A movement is full only until its oldest position is removed.
MovementOK ==
  /\ movement \in [UserId -> [size : 0 .. HistoryLength, near : BOOLEAN,
                              origOld : BOOLEAN, posOld : BOOLEAN]]
  /\ reading = "add" => movement[message.user].size < HistoryLength

\* The places the two threads can be at.
PlacesOK ==
  /\ readerStatus \in {"waiting", "meditating"}
  /\ reading \in {"idle", "absent", "create", "update", "remove", "add", "still", "ready"}
  /\ status \in {"waiting", "ready", "running", "complete"} /\ timer \in BOOLEAN
  /\ drawing \in {"draw", "count", "meditate", "announce", "end", "null", "thrown"}

\* countStill counts a user at most once: who is counted, looked at or still to
\* be met is in the table.
TallyOK ==
  /\ look \subseteq [user : UserId, size : 0 .. HistoryLength]
  /\ \A k, l \in look : k = l
  /\ still \in Nat /\ still <= Cardinality(UserId)
  /\ drawing = "count" => still + Cardinality(todo) + Cardinality(look) <= Cardinality(users)

TypeInv == WinnerInv /\ MovementOK /\ PlacesOK /\ TallyOK

\* Both threads stay at places they have.
LEMMA PlacesStep ==
  ASSUME IInv, PlacesOK, [Next]_meditateVars PROVE PlacesOK'
BY DEF IInv, NoNullUser, PlacesOK, Next, Reader, Receive, Ignore, CheckStatus, CreateUser, UpdateUser,
  RemoveFirst, AddLast, CheckStill, SetReady, Goto, Drawing, Look, Judge, UpdateStatus, UpdateWaiting,
  UpdateReady, Enumerate, SetMeditating, StartRunning, Announce, SetEnded, Complete, PositionsAge,
  TimeIsUp, meditateVars, readerVars, gameVars, frameVars

\* A movement holds at most HistoryLength positions.
LEMMA MovementStep ==
  ASSUME IInv, MovementOK, [Next]_meditateVars PROVE MovementOK'
<1>0. message.user \in UserId
  BY DEF IInv, TypesOK
<1>1. CASE RemoveFirst
  <2>1. movement' = IF movement[message.user].size = HistoryLength
                    THEN [movement EXCEPT ![message.user].size = @ - 1] ELSE movement
    BY <1>1 DEF RemoveFirst
  <2>2. /\ movement' \in [UserId -> [size : 0 .. HistoryLength, near : BOOLEAN,
                                     origOld : BOOLEAN, posOld : BOOLEAN]]
        /\ movement'[message.user].size < HistoryLength
    BY <1>0, <2>1, MeditateAssumption DEF MovementOK
  <2> QED BY <1>1, <2>2 DEF RemoveFirst, MovementOK
<1>2. CASE AddLast
  <2>1. PICK near \in BOOLEAN :
          movement' = [movement EXCEPT ![message.user] =
            [size |-> @.size + 1, near |-> near /\ @.size > 0, origOld |-> @.posOld, posOld |-> FALSE]]
    BY <1>2 DEF AddLast
  <2> DEFINE m == movement[message.user]
  <2>2. m.size + 1 \in 0 .. HistoryLength /\ m.posOld \in BOOLEAN
    BY <1>0, <1>2, MeditateAssumption DEF AddLast, MovementOK
  <2>3. [size |-> m.size + 1, near |-> near /\ m.size > 0, origOld |-> m.posOld, posOld |-> FALSE]
          \in [size : 0 .. HistoryLength, near : BOOLEAN, origOld : BOOLEAN, posOld : BOOLEAN]
    BY <2>2
  <2> QED BY <1>0, <1>2, <2>1, <2>3 DEF AddLast, MovementOK
<1>3. CASE PositionsAge
  <2>1. movement' = [u \in UserId |-> [movement[u] EXCEPT
                      !.origOld = movement[u].size >= 2, !.posOld = movement[u].size >= 1]]
    BY <1>3 DEF PositionsAge
  <2>2. ASSUME NEW u \in UserId
        PROVE  /\ movement'[u] \in [size : 0 .. HistoryLength, near : BOOLEAN,
                                   origOld : BOOLEAN, posOld : BOOLEAN]
               /\ movement'[u].size = movement[u].size
    <3>1. /\ movement[u] \in [size : 0 .. HistoryLength, near : BOOLEAN,
                              origOld : BOOLEAN, posOld : BOOLEAN]
          /\ (movement[u].size >= 2) \in BOOLEAN /\ (movement[u].size >= 1) \in BOOLEAN
      BY DEF MovementOK
    <3>2. movement'[u] = [movement[u] EXCEPT !.origOld = movement[u].size >= 2,
                                             !.posOld = movement[u].size >= 1]
      BY <2>1
    <3> QED BY <3>1, <3>2
  <2>3. UNCHANGED <<reading, message>>
    BY <1>3 DEF PositionsAge, readerVars
  <2>4. movement' \in [UserId -> [size : 0 .. HistoryLength, near : BOOLEAN,
                                 origOld : BOOLEAN, posOld : BOOLEAN]]
    BY <2>1, <2>2
  <2> QED BY <1>0, <2>2, <2>3, <2>4 DEF MovementOK
<1>4. CASE ~RemoveFirst /\ ~AddLast /\ ~PositionsAge
  <2>1. movement' = movement /\ (reading' # "add" \/ UNCHANGED readerVars)
    BY <1>4 DEF Next, Reader, Receive, Ignore, CheckStatus, CreateUser, UpdateUser, CheckStill, SetReady,
      Goto, Drawing, Look, Judge, UpdateStatus, UpdateWaiting, UpdateReady, SetMeditating,
      StartRunning, Announce, SetEnded, Complete, TimeIsUp, meditateVars, userVars
  <2> QED BY <2>1 DEF MovementOK, readerVars
<1> QED BY <1>1, <1>2, <1>3, <1>4

\* A set with no two elements.
LEMMA AtMostOne ==
  ASSUME NEW S, \A k, l \in S : k = l
  PROVE  IsFiniteSet(S) /\ Cardinality(S) \in Nat /\ Cardinality(S) <= 1
<1>1. CASE S = {}
  BY <1>1, FS_EmptySet
<1>2. CASE S # {}
  <2>1. PICK x : S = {x}
    BY <1>2
  <2> QED BY <2>1, FS_Singleton
<1> QED BY <1>1, <1>2

\* Steps that leave the tally alone, or are not of countStill.
LEMMA TallyKept ==
  ASSUME TallyOK, UNCHANGED <<look, still>>,
         drawing' = "count" => drawing = "count" /\ UNCHANGED <<users, todo>>
  PROVE  TallyOK'
BY DEF TallyOK

\* Steps with which an enumeration begins, or none is of countStill.
LEMMA TallyBegins ==
  ASSUME IsFiniteSet(UserId), IInv, TallyOK, look = {}, UNCHANGED <<users, look>>,
         still' = 0 \/ (still' = still /\ drawing' # "count"), drawing' = "count" => todo' = users
  PROVE  TallyOK'
<1>1. Cardinality(UserId) \in Nat /\ Cardinality(users) \in Nat /\ Cardinality(look) = 0
  BY FS_Subset, FS_CardinalityType, FS_EmptySet DEF IInv, TypesOK
<1> QED BY <1>1 DEF TallyOK

\* A user created while countStill runs is one more to meet.
LEMMA TallyCreateUser ==
  ASSUME IsFiniteSet(UserId), WinnerInv, TallyOK, CreateUser PROVE TallyOK'
<1>1. /\ message.user \notin users /\ message.user \notin todo
      /\ IsFiniteSet(users) /\ IsFiniteSet(todo)
  BY FS_Subset DEF WinnerInv, IInv, TypesOK, NewcomerOK, CreateUser
<1>2. /\ Cardinality(users) \in Nat /\ Cardinality(todo) \in Nat
      /\ Cardinality(users \cup {message.user}) = Cardinality(users) + 1
      /\ Cardinality(todo \cup {message.user}) = Cardinality(todo) + 1
  BY <1>1, FS_AddElement, FS_CardinalityType
<1>3. Cardinality(look) \in Nat
  BY AtMostOne DEF TallyOK
<1> QED BY <1>2, <1>3 DEF TallyOK, CreateUser

\* Who is looked at is not to be met any more.
LEMMA TallyLook ==
  ASSUME IsFiniteSet(UserId), WinnerInv, MovementOK, TallyOK, Look PROVE TallyOK'
<1>1. PICK u \in todo :
        /\ todo' = todo \ {u}
        /\ look' = {[user |-> u, size |-> movement[u].size]} /\ drawing' = drawing
  BY DEF Look, WinnerInv, IInv, TypesOK
<1>2. IsFiniteSet(todo) /\ u \in UserId
  BY FS_Subset DEF WinnerInv, IInv, TypesOK
<1>3. /\ Cardinality(todo) \in Nat /\ Cardinality(todo') = Cardinality(todo) - 1
      /\ Cardinality(look) = 0 /\ Cardinality(look') = 1
  BY <1>1, <1>2, FS_RemoveElement, FS_CardinalityType, FS_EmptySet, FS_Singleton DEF Look
<1>4. look' \subseteq [user : UserId, size : 0 .. HistoryLength]
  BY <1>1, <1>2 DEF MovementOK
<1>5. users' = users /\ still' = still
  BY DEF Look, userVars
<1> QED BY <1>1, <1>3, <1>4, <1>5 DEF TallyOK

\* Who has been looked at may be counted.
LEMMA TallyJudge ==
  ASSUME IsFiniteSet(UserId), WinnerInv, TallyOK, Judge PROVE TallyOK'
<1>1. PICK l \in look : IF l.size >= 2 /\ l.size > movement[l.user].size
        THEN drawing' = "thrown" /\ still' = still
        ELSE /\ still' = IF drawing = "count" /\ l.size >= 2 /\ IsStill(l.user) THEN still + 1 ELSE still
             /\ drawing' = drawing
  BY DEF Judge
<1>2. look = {l} /\ look' = {}
  BY <1>1 DEF Judge, TallyOK
<1>3. Cardinality(look) = 1 /\ Cardinality(look') = 0
  BY <1>2, FS_Singleton, FS_EmptySet
<1>4. UNCHANGED <<users, todo>>
  BY DEF Judge, userVars
<1>5. /\ Cardinality(users) \in Nat /\ Cardinality(users) <= Cardinality(UserId)
      /\ Cardinality(UserId) \in Nat /\ Cardinality(todo) \in Nat
  BY FS_Subset, FS_CardinalityType DEF WinnerInv, IInv, TypesOK
<1>6. CASE drawing = "count"
  BY <1>1, <1>2, <1>3, <1>4, <1>5, <1>6 DEF TallyOK
<1>7. CASE drawing # "count"
  BY <1>1, <1>2, <1>3, <1>4, <1>7 DEF TallyOK
<1> QED BY <1>6, <1>7

\* Each step of the two threads keeps the tally.
LEMMA TallyStep ==
  ASSUME IsFiniteSet(UserId), WinnerInv, MovementOK, TallyOK, [Next]_meditateVars PROVE TallyOK'
<1>1. CASE CreateUser
  BY <1>1, TallyCreateUser
<1>2. CASE Look
  BY <1>2, TallyLook
<1>3. CASE Judge
  BY <1>3, TallyJudge
<1>4. CASE UpdateStatus \/ UpdateWaiting \/ UpdateReady
  <2>1. /\ look = {} /\ UNCHANGED <<users, look>>
        /\ drawing' = "count" => todo' = users
        /\ still' = 0 \/ (still' = still /\ drawing' # "count")
    BY <1>4 DEF UpdateStatus, UpdateWaiting, UpdateReady, Enumerate, userVars
  <2> QED BY <2>1, TallyBegins DEF WinnerInv
<1>5. CASE StartRunning
  <2>1. /\ look = {} /\ UNCHANGED <<users, look>> /\ drawing' = "announce" /\ still' = 0
    BY <1>5 DEF StartRunning, userVars, WinnerInv, LookOK
  <2> QED BY <2>1, TallyBegins DEF WinnerInv
<1>6. CASE Reader /\ ~CreateUser
  <2>1. UNCHANGED <<users, todo, look, still, drawing>>
    BY <1>6 DEF Reader, Receive, Ignore, CheckStatus, UpdateUser, RemoveFirst, AddLast, CheckStill,
      SetReady, meditateVars, userVars, frameVars
  <2> QED BY <2>1, TallyKept
<1>7. CASE SetMeditating \/ Announce \/ SetEnded \/ Complete
  <2>1. UNCHANGED <<look, still>> /\ drawing' # "count"
    BY <1>7 DEF SetMeditating, Announce, SetEnded, Complete, Enumerate
  <2> QED BY <2>1, TallyKept
<1>8. CASE PositionsAge \/ TimeIsUp \/ UNCHANGED meditateVars
  <2>1. UNCHANGED <<users, todo, look, still, drawing>>
    BY <1>8 DEF PositionsAge, TimeIsUp, meditateVars, userVars, frameVars
  <2> QED BY <2>1, TallyKept
<1> QED BY <1>1, <1>2, <1>3, <1>4, <1>5, <1>6, <1>7, <1>8 DEF Next, Drawing

\* The types hold for any number of users: no history outgrows its length, and
\* countStill, with users created while it counts, never counts more users than
\* there are.
THEOREM GameTypesCorrect == ASSUME IsFiniteSet(UserId) PROVE Spec => []GameTypeOK
<1>1. Init => TypeInv
  <2> SUFFICES ASSUME Init PROVE TypeInv
    OBVIOUS
  <2>1. WinnerInv
    BY WinnerInit
  <2>2. MovementOK
    BY MeditateAssumption DEF Init, MovementOK, NoMovement
  <2>3. PlacesOK
    BY DEF Init, PlacesOK
  <2>4. TallyOK
    BY FS_CardinalityType DEF Init, TallyOK
  <2> QED BY <2>1, <2>2, <2>3, <2>4 DEF TypeInv
<1>2. ASSUME TypeInv, [Next]_meditateVars PROVE TypeInv'
  <2>1. WinnerInv /\ WinnerInv'
    BY <1>2, WinnerInductive DEF TypeInv
  <2> QED BY <1>2, <2>1, MovementStep, PlacesStep, TallyStep DEF TypeInv, WinnerInv
<1>3. TypeInv => GameTypeOK
  <2> SUFFICES ASSUME TypeInv PROVE GameTypeOK
    OBVIOUS
  <2>1. Cardinality(look) <= 1 /\ Cardinality(best) <= 1
    BY AtMostOne DEF TypeInv, WinnerInv, WinnerOK, TallyOK
  <2>2. still \in 0 .. Cardinality(UserId)
    BY FS_CardinalityType DEF TypeInv, TallyOK
  <2>3. users \subseteq UserId /\ todo \subseteq UserId /\ best \subseteq UserId
    BY DEF TypeInv, WinnerInv, IInv, TypesOK, WinnerOK
  <2> QED BY <2>1, <2>2, <2>3 DEF TypeInv, MovementOK, PlacesOK, TallyOK, WinnerInv, IInv, TypesOK,
        UserStatus, ScoresOK, NoNullUser, GameTypeOK
<1> QED BY <1>1, <1>2, <1>3, PTL DEF Spec

=============================================================================
