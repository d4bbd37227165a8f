------------------------------ MODULE Meditate ------------------------------
(***************************************************************************)
(* The meditation applet: the thread of PositionReader, which puts users   *)
(* into a table and updates them as messages come, and the drawing thread  *)
(* of the game, which goes over the same table in every frame and moves    *)
(* the game on: waiting, ready, running, complete.  Nothing is locked but  *)
(* each single call of Hashtable and Vector.                               *)
(*                                                                         *)
(* Abstractions.                                                           *)
(*  - A message is a user and two free choices: whether the place is near  *)
(*    the one before, and whether it is away from the place of meditation. *)
(*  - A position is young or old (stillTime); the countdown and the        *)
(*    meditation are over when a timer says so.                            *)
(*  - The score is whether any recorded position was away.                 *)
(*  - drawWaiting's count, which is only shown, is part of drawAll.        *)
(*  - An enumeration of the table may or may not meet a user who is put    *)
(*    into it meanwhile.                                                   *)
(***************************************************************************)
EXTENDS Integers, FiniteSets

CONSTANTS
  UserId,          \* the orders the floor sends
  NumUsers,        \* numUsers: 2 in the program
  HistoryLength    \* the length of User.movement: 5 in the program

ASSUME MeditateAssumption ==
  UserId # {} /\ NumUsers \in Nat \ {0} /\ HistoryLength \in Nat \ {0, 1}

VARIABLES
  users,         \* the keys of PositionReader.users
  movement,      \* each user: how many positions are kept, and what isStill reads
  userStatus,    \* each user: wander, ready, meditating, ended
  away,          \* each user: the score of the history so far
  score,         \* each user: User.score
  readerStatus,  \* PositionReader.status
  message,       \* reader: the user of the message in hand; and, as history, whether
                 \* it came, from a new user, after the meditation was announced
  reading,       \* reader: where it is in add
  status,        \* the game's status
  timer,         \* the time to wait for since readyTime or meditateTime is over
  drawing,       \* drawing thread: where it is in draw
  todo,          \* drawing thread: users its enumeration has still to meet
  look,          \* drawing thread: the user and movement.size() isStill has read
  still,         \* drawing thread: what countStill has counted
  best           \* drawing thread: winner of setAllEnded so far; {} for none

readerVars == <<message, reading>>
userVars == <<users, movement, userStatus, away>>
gameVars == <<status, timer, readerStatus>>
frameVars == <<drawing, todo, look, still, best>>
meditateVars == <<readerVars, userVars, gameVars, frameVars, score>>

NoMovement == [size |-> 0, near |-> FALSE, origOld |-> FALSE, posOld |-> FALSE]

NoMessage == [user |-> CHOOSE u \in UserId : TRUE, late |-> FALSE]

\* User.isStill, for a movement that is not changed meanwhile.
IsStill(u) == movement[u].size >= 2 /\ movement[u].near /\ movement[u].origOld

-----------------------------------------------------------------------------
(* The reader thread: PositionReader.add and User.update.                  *)

\* What is not in hand is forgotten.
Goto(place) ==
  /\ reading' = place
  /\ message' \in IF place = "idle" THEN {NoMessage} ELSE {message}

\* A message with a coordinate of 0.0 changes nothing, nor does LEFT.
Receive(u) ==
  /\ reading = "idle"
  /\ message' = [user |-> u, late |-> u \notin users /\ readerStatus = "meditating"]
  /\ reading' = IF u \in users THEN "update" ELSE "absent"
  /\ UNCHANGED <<userVars, gameVars, frameVars, score>>

\* "users.remove(lastUser)" is commented out.
Ignore(u) == reading = "idle" /\ UNCHANGED meditateVars

\* Mutant of CheckStatus: users may always join.
CheckStatusNot ==
  /\ reading = "absent" /\ Goto("create")
  /\ UNCHANGED <<userVars, gameVars, frameVars, score>>

CheckStatus ==
  /\ reading = "absent"
  /\ Goto(IF readerStatus = "meditating" THEN "idle" ELSE "create")
  /\ UNCHANGED <<userVars, gameVars, frameVars, score>>

CreateUser ==
  /\ reading = "create" /\ Goto("update")
  /\ users' = users \cup {message.user}
  /\ todo' \in {todo, todo \cup {message.user}}
  /\ UNCHANGED <<movement, userStatus, away, gameVars, drawing, look, still, best, score>>

\* Mutant of UpdateUser: update does not look at the status.
UpdateUserAlways ==
  /\ reading = "update" /\ Goto("remove")
  /\ UNCHANGED <<userVars, gameVars, frameVars, score>>

\* A user who meditates is recorded (at most every 100 ms); others are moved.
UpdateUser ==
  /\ reading = "update"
  /\ IF userStatus[message.user] = "meditating"
     THEN /\ \E far \in 0 .. 1 :
               away' = [away EXCEPT ![message.user] = IF far = 1 THEN 1 ELSE @]
          /\ Goto("idle")
     ELSE Goto("remove") /\ UNCHANGED away
  /\ UNCHANGED <<users, movement, userStatus, gameVars, frameVars, score>>

\* Mutant of RemoveFirst: the oldest position stays.
RemoveFirstNot ==
  /\ reading = "remove" /\ Goto("add")
  /\ UNCHANGED <<userVars, gameVars, frameVars, score>>

\* movement.remove(0) and movement.add(pos) are two calls.
RemoveFirst ==
  /\ reading = "remove" /\ reading' = "add"
  /\ movement' = IF movement[message.user].size = HistoryLength
                 THEN [movement EXCEPT ![message.user].size = @ - 1] ELSE movement
  /\ UNCHANGED <<message, users, userStatus, away, gameVars, frameVars, score>>

AddLast ==
  /\ reading = "add" /\ reading' = "still"
  /\ \E near \in BOOLEAN :
       movement' = [movement EXCEPT ![message.user] =
         [size |-> @.size + 1, near |-> near /\ @.size > 0, origOld |-> @.posOld, posOld |-> FALSE]]
  /\ UNCHANGED <<message, users, userStatus, away, gameVars, frameVars, score>>

CheckStill ==
  /\ reading = "still"
  /\ Goto(IF IsStill(message.user) THEN "ready" ELSE "idle")
  /\ UNCHANGED <<userVars, gameVars, frameVars, score>>

\* setReady, whatever the status has become since update looked at it.
SetReady ==
  /\ reading = "ready" /\ Goto("idle")
  /\ userStatus' = [userStatus EXCEPT ![message.user] = "ready"]
  /\ UNCHANGED <<users, movement, away, gameVars, frameVars, score>>

Reader ==
  \/ \E u \in UserId : Receive(u) \/ Ignore(u)
  \/ CheckStatus \/ CreateUser \/ UpdateUser \/ RemoveFirst \/ AddLast \/ CheckStill \/ SetReady

-----------------------------------------------------------------------------
(* The drawing thread: draw, with the enumerations of PositionReader.      *)

\* isStill of the next user begins: users.get, and movement.size.  What an
\* enumeration gives are keys; a user who is gone is null.
Look ==
  /\ drawing \in {"draw", "count"} /\ look = {}
  /\ \E u \in todo :
       /\ todo' = todo \ {u}
       /\ IF u \notin users
          THEN drawing' = "null" /\ UNCHANGED look
          ELSE /\ look' = {[user |-> u, size |-> movement[u].size]}
               /\ UNCHANGED drawing
  /\ UNCHANGED <<still, best, readerVars, userVars, gameVars, score>>

\* It ends with the last two positions; where the reader has removed one in
\* between, movement.get throws, and the drawing thread ends.
Judge ==
  /\ \E l \in look :
       IF l.size >= 2 /\ l.size > movement[l.user].size
       THEN drawing' = "thrown" /\ UNCHANGED still
       ELSE /\ still' = IF drawing = "count" /\ l.size >= 2 /\ IsStill(l.user) THEN still + 1 ELSE still
            /\ UNCHANGED drawing
  /\ look' = {}
  /\ UNCHANGED <<todo, best, readerVars, userVars, gameVars, score>>

\* An enumeration of all users begins, for the part of draw it serves.
Enumerate(part) == drawing' = part /\ todo' = users

\* drawAll is over; updateStatus counts who is still, or ends the meditation.
UpdateStatus ==
  /\ drawing = "draw" /\ todo = {} /\ look = {}
  /\ CASE status \in {"waiting", "ready"} ->
            Enumerate("count") /\ still' = 0 /\ UNCHANGED best
       [] status = "running" /\ timer ->
            Enumerate("end") /\ best' = {} /\ UNCHANGED still
       [] OTHER ->
            Enumerate("draw") /\ UNCHANGED <<still, best>>
  /\ UNCHANGED <<look, readerVars, userVars, gameVars, score>>

UpdateWaiting ==
  /\ drawing = "count" /\ todo = {} /\ look = {} /\ status = "waiting"
  /\ IF still >= NumUsers
     THEN status' = "ready" /\ timer' = FALSE
     ELSE UNCHANGED <<status, timer>>
  /\ Enumerate("draw") /\ still' = 0
  /\ UNCHANGED <<look, best, readerStatus, readerVars, userVars, score>>

\* The game goes back to waiting, but if the countdown is over it starts all
\* the same: there is no else.
UpdateReady ==
  /\ drawing = "count" /\ todo = {} /\ look = {} /\ status = "ready"
  /\ IF still < NumUsers THEN status' = "waiting" ELSE UNCHANGED status
  /\ IF timer THEN Enumerate("meditate") /\ UNCHANGED still ELSE Enumerate("draw") /\ still' = 0
  /\ timer' = FALSE
  /\ UNCHANGED <<look, best, readerStatus, readerVars, userVars, score>>

SetMeditating ==
  /\ drawing = "meditate"
  /\ \E u \in todo :
       /\ todo' = todo \ {u}
       /\ userStatus' = [userStatus EXCEPT ![u] = "meditating"]
       /\ away' = [away EXCEPT ![u] = 0]
  /\ UNCHANGED <<drawing, look, still, best, users, movement, readerVars, gameVars, score>>

\* meditateTime and the game's status; the reader is told last.
StartRunning ==
  /\ drawing = "meditate" /\ todo = {}
  /\ status' = "running" /\ timer' = FALSE /\ still' = 0
  /\ drawing' = "announce"
  /\ UNCHANGED <<readerStatus, todo, look, best, readerVars, userVars, score>>

Announce ==
  /\ drawing = "announce"
  /\ readerStatus' = "meditating"
  /\ Enumerate("draw")
  /\ UNCHANGED <<status, timer, look, still, best, readerVars, userVars, score>>

\* The score User.setEnded gives: only who meditates is scored.
Ended(u) == IF userStatus[u] = "meditating" THEN away[u] ELSE score[u]

\* Mutant of Better: the worst wins.
BetterIsMore(u) == \A b \in best : Ended(u) > score[b]

Better(u) == \A b \in best : Ended(u) < score[b]

\* Mutant of SetEnded: setEnded leaves the status.
SetEndedSilently ==
  /\ drawing = "end"
  /\ \E u \in todo :
       /\ todo' = todo \ {u}
       /\ score' = [score EXCEPT ![u] = Ended(u)]
       /\ best' = IF Better(u) THEN {u} ELSE best
  /\ UNCHANGED <<drawing, look, still, users, movement, userStatus, away, readerVars, gameVars>>

SetEnded ==
  /\ drawing = "end"
  /\ \E u \in todo :
       /\ todo' = todo \ {u}
       /\ score' = [score EXCEPT ![u] = Ended(u)]
       /\ userStatus' = [userStatus EXCEPT ![u] = IF @ = "meditating" THEN "ended" ELSE @]
       /\ best' = IF Better(u) THEN {u} ELSE best
  /\ UNCHANGED <<drawing, look, still, users, movement, away, readerVars, gameVars>>

\* Mutant of Complete: the meditation goes on.
CompleteNot ==
  /\ drawing = "end" /\ todo = {}
  /\ Enumerate("draw")
  /\ UNCHANGED <<status, timer, readerStatus, look, still, best, readerVars, userVars, score>>

\* The winner is named (best), and the game is over for good.
Complete ==
  /\ drawing = "end" /\ todo = {}
  /\ status' = "complete"
  /\ Enumerate("draw")
  /\ UNCHANGED <<timer, readerStatus, look, still, best, readerVars, userVars, score>>

Drawing ==
  \/ Look \/ Judge \/ UpdateStatus \/ UpdateWaiting \/ UpdateReady \/ SetMeditating
  \/ StartRunning \/ Announce \/ SetEnded \/ Complete

-----------------------------------------------------------------------------
(* Time.                                                                   *)

\* All positions kept are older than stillTime.
PositionsAge ==
  /\ movement' = [u \in UserId |-> [movement[u] EXCEPT
                    !.origOld = movement[u].size >= 2, !.posOld = movement[u].size >= 1]]
  /\ UNCHANGED <<users, userStatus, away, readerVars, gameVars, frameVars, score>>

TimeIsUp ==
  /\ status \in {"ready", "running"} /\ timer' = TRUE
  /\ UNCHANGED <<status, readerStatus, readerVars, userVars, frameVars, score>>

-----------------------------------------------------------------------------
Init ==
  /\ users = {} /\ movement = [u \in UserId |-> NoMovement]
  /\ userStatus = [u \in UserId |-> "wander"]
  /\ away = [u \in UserId |-> 0] /\ score = [u \in UserId |-> 0]
  /\ readerStatus = "waiting"
  /\ message = NoMessage /\ reading = "idle"
  /\ status = "waiting" /\ timer = FALSE
  /\ drawing = "draw" /\ todo = {} /\ look = {} /\ still = 0 /\ best = {}

Next == Reader \/ Drawing \/ PositionsAge \/ TimeIsUp

Spec == Init /\ [][Next]_meditateVars

\* Frames go on as long as nothing is thrown, and so does time.
FairSpec == Spec /\ WF_meditateVars(Drawing) /\ WF_meditateVars(TimeIsUp)

-----------------------------------------------------------------------------
(* Properties.                                                             *)

\* An enumeration never meets a user who is not in the table ("null").
GameTypeOK ==
  /\ users \subseteq UserId
  /\ movement \in [UserId -> [size : 0 .. HistoryLength, near : BOOLEAN,
                              origOld : BOOLEAN, posOld : BOOLEAN]]
  /\ userStatus \in [UserId -> {"wander", "ready", "meditating", "ended"}]
  /\ away \in [UserId -> 0 .. 1] /\ score \in [UserId -> 0 .. 1]
  /\ readerStatus \in {"waiting", "meditating"}
  /\ message \in [user : UserId, late : BOOLEAN]
  /\ reading \in {"idle", "absent", "create", "update", "remove", "add", "still", "ready"}
  /\ status \in {"waiting", "ready", "running", "complete"} /\ timer \in BOOLEAN
  /\ drawing \in {"draw", "count", "meditate", "announce", "end", "thrown"}
  /\ todo \subseteq UserId /\ look \subseteq [user : UserId, size : 0 .. HistoryLength]
  /\ still \in 0 .. Cardinality(UserId) /\ best \subseteq UserId
  /\ Cardinality(look) <= 1 /\ Cardinality(best) <= 1

\* Who comes when the meditation has been announced stays out, although the
\* reader looks at its status long before it puts a user into the table.
LateComersStayOut == [][users' # users => ~message.late]_meditateVars

\* The reader is past update's look at the status of a user who meditates since.
Overtaken(u) ==
  /\ userStatus[u] = "meditating" /\ message.user = u
  /\ reading \in {"remove", "add", "still", "ready"}

\* Who plays is settled when the meditation runs.  Whom setAllMeditating missed, or
\* who was made ready again behind it, does not play any more; and of those who
\* play only the one can stop whose update had begun when it came.
PlayersAreSettled ==
  [][status = "running" /\ drawing # "end" => \A u \in UserId :
       /\ userStatus'[u] = "meditating" => userStatus[u] = "meditating"
       /\ userStatus[u] = "meditating" /\ ~Overtaken(u) =>
            userStatus'[u] = "meditating" /\ ~Overtaken(u)'
    ]_meditateVars

\* When the meditation is over nobody is left meditating, also of those who
\* were updated or created while the two enumerations went on.
NobodyLeftMeditating == status = "complete" => \A u \in UserId : userStatus[u] # "meditating"

\* The winner is in the table, and none of those who meditated to the end has
\* moved less.
WinnerHasLeast ==
  status = "complete" => \A b \in best :
    b \in users /\ \A u \in users : userStatus[u] = "ended" => score[b] <= score[u]

\* A meditation that has begun comes to its end, if nothing is thrown.
MeditationEnds == status = "running" ~> (status = "complete" \/ drawing = "thrown")

\* "wait for players at first": the game starts only when the players it has
\* just counted are enough.
StartsWithPlayers ==
  [][status # "running" /\ status' = "running" => still >= NumUsers]_meditateVars

=============================================================================
