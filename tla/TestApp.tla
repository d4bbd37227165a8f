------------------------------- MODULE TestApp -------------------------------
(***************************************************************************)
(* testApp: the application around the tracker.  Every camera frame it     *)
(* reports the mood of the scene, runs the tracker, and turns the          *)
(* tracker's calls blobOn, blobMoved and blobOff into the messages JOINED, *)
(* MOVED and LEFT of the users of a play area; in between the operator     *)
(* learns a new background, selects the corners of the play area or shifts *)
(* the users' positions.                                                   *)
(*                                                                         *)
(* trackBlobs makes its calls synchronously, so a frame is a step Frame    *)
(* followed by one step HandleEvent per call, and nothing else the main    *)
(* thread does comes in between.                                           *)
(*                                                                         *)
(* Abstractions.                                                           *)
(*  - The two axes of the play area are computed alike and independently;  *)
(*    centroids are columns of one image row that is inside vertically.    *)
(*  - A coordinate on the wire is "zero", "one", "middle" or "nan": what   *)
(*    the clamping of blobOn, blobMoved and blobOff tells apart.           *)
(*  - The mood of a frame is above moodSpike or not, as the scene pleases. *)
(***************************************************************************)
EXTENDS BlobTracker

CONSTANTS
  HardLimit,       \* MAX_USERS_HARDLIMIT, the length of usersTracking
  NonMoodFrames,   \* nonMoodFrames: 3 in the program
  TopLeft,         \* TopLeftX of the settings
  LowRight,        \* LowRightX of the settings
  Clicks,          \* the columns the operator clicks on
  OffsetLimit      \* bound of userOffsetX: 100 in the program

ASSUME AppAssumption ==
  /\ HardLimit \in Nat \ {0}
  /\ NonMoodFrames \in Nat
  /\ OffsetLimit \in Nat

ASSUME ColumnsAssumption ==
  /\ Places \subseteq Int
  /\ TopLeft \in Int /\ LowRight \in Int
  /\ Clicks \subseteq Int

VARIABLES
  usersTracking,      \* what the application believes of each order
  bLearnBakground,
  topLeftX, lowRightX, userOffsetX,
  csState,            \* which corner the next click selects
  currNonMoodFrame,
  wire,               \* the messages the last step sent to all clients
  present             \* history: who joined or moved and did not leave since,
                      \* by the messages sent: whom the clients should show

appVars == <<usersTracking, bLearnBakground, topLeftX, lowRightX, userOffsetX,
             csState, currNonMoodFrame, wire, present>>
area == <<topLeftX, lowRightX, userOffsetX, csState>>
vars == <<trackerVars, appVars>>

Slots == 0 .. HardLimit - 1
Status == {"B_DEAD", "B_ALIVE_IN_AREA", "B_ALIVE_OUT_AREA"}
Message == [code : {"JOINED", "MOVED", "LEFT"}, order : Nat,
            x : {"zero", "middle", "one", "nan"}]
Mood == [code |-> "MOOD"]

-----------------------------------------------------------------------------
(* The play area.                                                          *)

\* A coordinate is scaled to From(x) / Width.  With no width that is infinite
\* or, for x on the corner, not a number: neither less than 0 nor greater
\* than 1.
Width == lowRightX - topLeftX
From(x) == userOffsetX + x - topLeftX

Below(x) == IF Width < 0 THEN From(x) > 0 ELSE From(x) < 0
Above(x) == IF Width < 0 THEN From(x) < Width ELSE From(x) > Width

InsideArea(x) == ~Below(x) /\ ~Above(x)

Clamped(x) ==
  CASE Below(x) -> "zero"
    [] Above(x) -> "one"
    [] InsideArea(x) /\ Width = 0 -> "nan"
    [] InsideArea(x) /\ Width # 0 ->
         IF From(x) = 0 THEN "zero" ELSE IF From(x) = Width THEN "one" ELSE "middle"

-----------------------------------------------------------------------------
(* The listener.                                                           *)

\* What a message says of who is there: JOINED and MOVED add the user, LEFT
\* removes the user.
Applied(users, message) ==
  IF message.code = "LEFT" THEN users \ {message.order}
  ELSE users \cup {message.order}

Send(code, e) ==
  LET message == [code |-> code, order |-> e.order, x |-> Clamped(e.at)]
  IN  /\ wire' = {message}
      /\ present' = Applied(present, message)

SendNothing == wire' = {} /\ UNCHANGED present

\* An order beyond the array reads and writes whatever lies behind it.
StatusOf(order) ==
  IF order \in Slots THEN {usersTracking[order]} ELSE Status

Track(order, status) ==
  usersTracking' = [o \in Slots |-> IF o = order THEN status ELSE usersTracking[o]]

BlobOn(e) ==
  IF InsideArea(e.at)
  THEN Send("JOINED", e) /\ Track(e.order, "B_ALIVE_IN_AREA")
  ELSE SendNothing /\ Track(e.order, "B_ALIVE_OUT_AREA")

\* Mutant of BlobMoved: who comes in from outside does not join.
BlobMovedNoJoin(e) ==
  \E status \in StatusOf(e.order) :
    IF InsideArea(e.at)
    THEN Send("MOVED", e) /\ Track(e.order, "B_ALIVE_IN_AREA")
    ELSE /\ IF status = "B_ALIVE_IN_AREA" THEN Send("LEFT", e) ELSE SendNothing
         /\ Track(e.order, "B_ALIVE_OUT_AREA")

BlobMoved(e) ==
  \E status \in StatusOf(e.order) :
    IF InsideArea(e.at)
    THEN /\ Send(IF status = "B_ALIVE_IN_AREA" THEN "MOVED" ELSE "JOINED", e)
         /\ Track(e.order, "B_ALIVE_IN_AREA")
    ELSE /\ IF status = "B_ALIVE_IN_AREA" THEN Send("LEFT", e) ELSE SendNothing
         /\ Track(e.order, "B_ALIVE_OUT_AREA")

\* Mutant of BlobOff: the blob is not marked as dead.
BlobOffAlive(e) ==
  \E status \in StatusOf(e.order) :
    /\ IF status = "B_ALIVE_IN_AREA" THEN Send("LEFT", e) ELSE SendNothing
    /\ UNCHANGED usersTracking

\* Mutant of BlobOff: the blob is marked as dead before the test.
BlobOffDeadFirst(e) == SendNothing /\ Track(e.order, "B_DEAD")

BlobOff(e) ==
  \E status \in StatusOf(e.order) :
    /\ IF status = "B_ALIVE_IN_AREA" THEN Send("LEFT", e) ELSE SendNothing
    /\ Track(e.order, "B_DEAD")

\* The tracker's pending call with the lowest index.
HandleEvent ==
  \E i \in DOMAIN events :
    /\ \A k \in DOMAIN events : i <= k
    /\ \/ events[i].kind = "on" /\ BlobOn(events[i])
       \/ events[i].kind = "moved" /\ BlobMoved(events[i])
       \/ events[i].kind = "off" /\ BlobOff(events[i])
    /\ events' = [k \in DOMAIN events \ {i} |-> events[k]]
    /\ UNCHANGED <<blobs, currentID, bLearnBakground, area, currNonMoodFrame>>

-----------------------------------------------------------------------------
(* update(), for a new frame.                                              *)

Idle == DOMAIN events = {}

\* Mutant of ReportMood: the counter is not reset.
ReportMoodNoReset(aboveSpike) ==
  /\ currNonMoodFrame' = currNonMoodFrame + 1
  /\ IF aboveSpike \/ currNonMoodFrame > NonMoodFrames THEN wire' = {Mood} ELSE wire' = {}

\* Mutant of ReportMood: reset in the wrong branch.
ReportMoodNever(aboveSpike) ==
  IF aboveSpike \/ currNonMoodFrame > NonMoodFrames
  THEN wire' = {Mood} /\ UNCHANGED currNonMoodFrame
  ELSE wire' = {} /\ currNonMoodFrame' = 0

ReportMood(aboveSpike) ==
  IF aboveSpike \/ currNonMoodFrame > NonMoodFrames
  THEN wire' = {Mood} /\ currNonMoodFrame' = 0
  ELSE wire' = {} /\ currNonMoodFrame' = currNonMoodFrame + 1

\* A frame that is learnt as the background does not differ from it, so that
\* the tracker gets no contour.
Frame(c) ==
  /\ Idle
  /\ bLearnBakground => c = << >>
  /\ bLearnBakground' = FALSE
  /\ \E aboveSpike \in BOOLEAN : ReportMood(aboveSpike)
  /\ TrackBlobs(c)
  /\ UNCHANGED <<usersTracking, area, present>>

-----------------------------------------------------------------------------
(* The operator's keys and clicks, between two calls of update().          *)

Operator == Idle /\ wire' = {}
            /\ UNCHANGED <<trackerVars, usersTracking, currNonMoodFrame, present>>

KeyLearnBackground ==
  /\ Operator
  /\ bLearnBakground' = TRUE
  /\ UNCHANGED area

KeyDefineCorners ==
  /\ Operator
  /\ csState = "CO_SELNONE"
  /\ csState' = "CO_SELTOPLEFT"
  /\ UNCHANGED <<bLearnBakground, topLeftX, lowRightX, userOffsetX>>

ClickTopLeft(x) ==
  /\ Operator
  /\ csState = "CO_SELTOPLEFT"
  /\ topLeftX' = x
  /\ csState' = "CO_SELLOWRIGHT"
  /\ UNCHANGED <<bLearnBakground, lowRightX, userOffsetX>>

ClickLowRight(x) ==
  /\ Operator
  /\ csState = "CO_SELLOWRIGHT"
  /\ lowRightX' = x
  /\ csState' = "CO_SELNONE"
  /\ UNCHANGED <<bLearnBakground, topLeftX, userOffsetX>>

KeyUserOffset ==
  /\ Operator
  /\ userOffsetX' \in {Max({-OffsetLimit, userOffsetX - 1}),
                       Min({OffsetLimit, userOffsetX + 1})}
  /\ UNCHANGED <<bLearnBakground, topLeftX, lowRightX, csState>>

-----------------------------------------------------------------------------
AppInit ==
  /\ Init
  /\ usersTracking = [o \in Slots |-> "B_DEAD"]
  /\ bLearnBakground = TRUE
  /\ topLeftX = TopLeft /\ lowRightX = LowRight /\ userOffsetX = 0
  /\ csState = "CO_SELNONE"
  /\ currNonMoodFrame = 0
  /\ wire = {}
  /\ present = {}

NextFrame == \E c \in Contours : Frame(c)

NextOperator ==
  \/ KeyLearnBackground
  \/ KeyDefineCorners
  \/ \E x \in Clicks : ClickTopLeft(x) \/ ClickLowRight(x)
  \/ KeyUserOffset

AppNext == NextFrame \/ HandleEvent \/ NextOperator

AppSpec == AppInit /\ [][AppNext]_vars

\* The camera goes on delivering frames, and a call of the tracker returns.
Fairness == WF_vars(NextFrame) /\ WF_vars(HandleEvent)

FairAppSpec == AppSpec /\ Fairness

-----------------------------------------------------------------------------
(* Correctness.                                                            *)

\* Type invariant; the mood counter stops one past its limit.
AppTypeOK ==
  /\ TypeOK
  /\ usersTracking \in [Slots -> Status]
  /\ bLearnBakground \in BOOLEAN
  /\ topLeftX \in Int /\ lowRightX \in Int
  /\ userOffsetX \in -OffsetLimit .. OffsetLimit
  /\ csState \in {"CO_SELNONE", "CO_SELTOPLEFT", "CO_SELLOWRIGHT"}
  /\ currNonMoodFrame \in 0 .. NonMoodFrames + 1
  /\ wire \subseteq Message \cup {Mood}
  /\ present \subseteq Nat

\* The order of every call the tracker makes is a slot of usersTracking:
\* blobOn, blobMoved and blobOff index the array with it unchecked.
SlotInBounds == \A e \in DOMAIN events : events[e].order \in Slots

\* A user the application holds inside the area is one the clients show: it
\* has joined on the wire and not left.
InsideIsShown == \A o \in Slots : usersTracking[o] = "B_ALIVE_IN_AREA" => o \in present

\* The clients and the application agree: the clients show nobody else.
ListenerAgrees == \A o \in present : o \in Slots /\ usersTracking[o] = "B_ALIVE_IN_AREA"

\* A user moves or leaves only after having joined (and not left since).
MovesOnlyWhilePresent ==
  [][\A m \in wire' : m.code \in {"MOVED", "LEFT"} => m.order \in present]_vars

\* When the floor is empty for the tracker and it has told everything, no
\* client shows a user any more.
NoPhantomUsers == Prev = {} /\ Idle => present = {}

\* The scene's mood is reported again and again, spike or not.
MoodIsReported == []<>(wire = {Mood})

=============================================================================
