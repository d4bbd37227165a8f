---------------------------- MODULE TestAppProofs ----------------------------
(***************************************************************************)
(* Theorems of TestApp.                                                    *)
(***************************************************************************)
EXTENDS TestApp, BlobTrackerProofs

-----------------------------------------------------------------------------
(* The tracker inside the application.                                     *)

\* The steps of the application other than a frame and a call leave the
\* tracker and the users alone.
LEMMA OperatorSteps ==
  ASSUME NextOperator
  PROVE  /\ UNCHANGED <<trackerVars, usersTracking, present>>
         /\ wire' = {}
BY DEF NextOperator, KeyLearnBackground, KeyDefineCorners, ClickTopLeft,
       ClickLowRight, KeyUserOffset, Operator

\* What a frame does to the users: nothing, before its calls are handled.
LEMMA FrameSteps ==
  ASSUME NEW c \in Contours, Frame(c)
  PROVE  /\ TrackBlobs(c)
         /\ DOMAIN events = {}
         /\ UNCHANGED <<usersTracking, present, area>>
         /\ wire' \subseteq {Mood}
BY DEF Frame, Idle, ReportMood

-----------------------------------------------------------------------------
(* Every user the application holds inside the area is shown.              *)

\* Sending a message changes the users by that message.
LEMMA SendShows ==
  ASSUME NEW code, NEW e, Send(code, e)
  PROVE  /\ code = "LEFT" => present' = present \ {e.order}
         /\ code # "LEFT" => present' = present \cup {e.order}
         /\ \A m \in wire' : m.code = code /\ m.order = e.order
BY DEF Send, Applied

\* A call keeps the users inside on the wire.
LEMMA HandleEventInside ==
  ASSUME InsideIsShown, HandleEvent
  PROVE  InsideIsShown'
<1>1. PICK i \in DOMAIN events :
         \/ events[i].kind = "on" /\ BlobOn(events[i])
         \/ events[i].kind = "moved" /\ BlobMoved(events[i])
         \/ events[i].kind = "off" /\ BlobOff(events[i])
  BY DEF HandleEvent
<1> DEFINE e == events[i]
<1> SUFFICES ASSUME NEW o \in Slots, usersTracking'[o] = "B_ALIVE_IN_AREA"
             PROVE  o \in present'
  BY DEF InsideIsShown
<1>2. usersTracking[o] = "B_ALIVE_IN_AREA" => o \in present
  BY DEF InsideIsShown
<1>3. CASE e.kind = "on" /\ BlobOn(e)
  BY <1>2, <1>3, SendShows DEF BlobOn, Track, SendNothing
<1>4. CASE e.kind = "moved" /\ BlobMoved(e)
  BY <1>2, <1>4, SendShows DEF BlobMoved, Track, SendNothing
<1>5. CASE e.kind = "off" /\ BlobOff(e)
  BY <1>2, <1>5, SendShows DEF BlobOff, Track, SendNothing
<1> QED BY <1>1, <1>3, <1>4, <1>5

\* Whatever the tracker calls and in whatever order, and whatever the operator
\* does, a user held inside the area has joined on the wire and not left.
THEOREM InsideIsShownCorrect == AppSpec => []InsideIsShown
<1>1. AppInit => InsideIsShown
  BY DEF AppInit, InsideIsShown
<1>2. InsideIsShown /\ [AppNext]_vars => InsideIsShown'
  <2> SUFFICES ASSUME InsideIsShown, [AppNext]_vars PROVE InsideIsShown'
    OBVIOUS
  <2>1. CASE NextFrame
    BY <2>1, FrameSteps DEF NextFrame, InsideIsShown
  <2>2. CASE HandleEvent
    BY <2>2, HandleEventInside
  <2>3. CASE NextOperator
    BY <2>3, OperatorSteps DEF InsideIsShown
  <2>4. CASE UNCHANGED vars
    BY <2>4 DEF vars, appVars, InsideIsShown
  <2> QED BY <2>1, <2>2, <2>3, <2>4 DEF AppNext
<1> QED BY <1>1, <1>2, PTL DEF AppSpec

-----------------------------------------------------------------------------
(* The tracker keeps its invariants inside the application.                *)

\* A call that is handled is gone; the others stay as they are.
LEMMA HandleEventTypeOK ==
  ASSUME TypeOK, HandleEvent
  PROVE  /\ TypeOK'
         /\ UNCHANGED <<blobs, currentID>>
         /\ DOMAIN events' \subseteq DOMAIN events
         /\ \A k \in DOMAIN events' : events'[k] = events[k]
<1>1. PICK i \in DOMAIN events : events' = [k \in DOMAIN events \ {i} |-> events[k]]
  BY DEF HandleEvent
<1>2. UNCHANGED <<blobs, currentID>>
  BY DEF HandleEvent
<1>3. events \in [DOMAIN events -> Event] /\ DOMAIN events \subseteq Nat
  BY DEF TypeOK
<1>4. /\ DOMAIN events' = DOMAIN events \ {i}
      /\ \A k \in DOMAIN events' : events'[k] = events[k] /\ events'[k] \in Event
  BY <1>1, <1>3
<1>5. events' \in [DOMAIN events' -> Event]
  BY <1>1, <1>4
<1>6. TypeOK'
  <2>1. /\ IsFiniteSet(Prev') /\ Prev' \subseteq Nat \ {0}
        /\ blobs' \in [Prev' -> TrackedBlob]
        /\ \A j \in Prev' : blobs'[j].markedForDeletion <=> blobs'[j].framesLeft > 0
        /\ currentID' \in Ids
    BY <1>2 DEF TypeOK, Prev
  <2> QED BY <1>3, <1>4, <1>5, <2>1 DEF TypeOK
<1> QED BY <1>2, <1>4, <1>6

\* Every step of the application keeps the tracker's types and cohorts.
LEMMA AppTracker ==
  ASSUME TypeOK, CohortsBounded, [AppNext]_vars
  PROVE  TypeOK' /\ CohortsBounded'
<1>1. ASSUME UNCHANGED blobs PROVE CohortsBounded'
  BY <1>1 DEF CohortsBounded, Cohort, Prev
<1>2. CASE NextFrame
  BY <1>2, FrameSteps, TrackBlobsTypeOK, TrackBlobsCohorts DEF NextFrame
<1>3. CASE HandleEvent
  BY <1>1, <1>3, HandleEventTypeOK
<1>4. CASE UNCHANGED trackerVars
  BY <1>1, <1>4, StutterTypeOK DEF trackerVars
<1> QED BY <1>2, <1>3, <1>4, OperatorSteps DEF AppNext, vars

\* The application starts the tracker with an empty vector.
LEMMA AppInitTracker == AppInit => TypeOK /\ CohortsBounded
<1> SUFFICES ASSUME AppInit PROVE CohortsBounded
  BY InitTypeOK DEF AppInit
<1> SUFFICES ASSUME NEW m \in 0 .. GhostFrames PROVE Cardinality(Cohort(m)) <= MaxBlobs
  BY DEF CohortsBounded
<1>1. Cohort(m) = {}
  BY DEF AppInit, Init, Cohort, Prev
<1> QED BY <1>1, FS_EmptySet, TrackerAssumption

\* The tracker is type correct whatever the application does around it.
LEMMA AppTrackerCorrect == AppSpec => [](TypeOK /\ CohortsBounded)
BY AppInitTracker, AppTracker, PTL DEF AppSpec

-----------------------------------------------------------------------------
(* The orders fit the array.                                               *)

\* An order counts blobs of the vector the call leaves behind.
LEMMA OrdersCountBlobs ==
  ASSUME TypeOK, NEW c \in Contours, NEW row \in Matches(c),
         blobs' = NextBlobs(c, row), IsFiniteSet(Prev')
  PROVE  /\ \A i \in DOMAIN c : FindOrder(row, i) <= Cardinality(Prev')
         /\ \A j \in Prev : OffOrder(row, j) <= Cardinality(Prev')
<1> DEFINE n == CurSize(c)
<1>1. n \in Nat /\ DOMAIN c = 1 .. n /\ IsFiniteSet(DOMAIN c) /\ DOMAIN row = DOMAIN c
  BY ContoursShape, MatchesShape, TrackerAssumption
<1>2. Prev' = DOMAIN c \cup {n + j : j \in Kept(row)}
  BY NextVectorIds
<1>3. IsFiniteSet(Kept(row)) /\ Kept(row) \subseteq Nat \ {0}
  BY GhostsArePrev
<1> HIDE DEF n
<1>4. ASSUME NEW A \in SUBSET DOMAIN c, NEW B \in SUBSET Kept(row)
      PROVE  Cardinality(A) + Cardinality(B) <= Cardinality(Prev')
  <2> DEFINE Later == {n + j : j \in B}
             f == [j \in B |-> n + j]
  <2>1. IsFiniteSet(A) /\ IsFiniteSet(B) /\ B \subseteq Nat
    BY <1>1, <1>3, FS_Subset
  <2>2. IsFiniteSet(Later)
    BY <1>1, <2>1, ShiftedFinite
  <2>3. f \in [B -> Later] /\ \A a, b \in B : f[a] = f[b] => a = b
    BY <1>1, <2>1
  <2>4. f \in Injection(B, Later)
    BY <2>3 DEF Injection, IsInjective
  <2>5. Cardinality(B) <= Cardinality(Later)
    BY <2>2, <2>4, FS_Injection
  <2>6. A \cap Later = {}
    BY <1>1, <1>3
  <2>7. Cardinality(A \cap Later) = 0
    BY <2>6, FS_EmptySet
  <2>8. /\ IsFiniteSet(A \cup Later)
        /\ Cardinality(A \cup Later)
             = Cardinality(A) + Cardinality(Later) - Cardinality(A \cap Later)
    BY <2>1, <2>2, FS_Union
  <2>9. A \cup Later \in SUBSET Prev'
    BY <1>2
  <2>10. Cardinality(A \cup Later) <= Cardinality(Prev')
    BY <2>9, FS_Subset
  <2>11. /\ Cardinality(A) \in Nat /\ Cardinality(B) \in Nat
         /\ Cardinality(Later) \in Nat /\ Cardinality(Prev') \in Nat
    BY <2>1, <2>2, FS_CardinalityType
  <2> QED BY <2>5, <2>7, <2>8, <2>10, <2>11
<1>5. ASSUME NEW i \in DOMAIN c PROVE FindOrder(row, i) <= Cardinality(Prev')
  <2> DEFINE A == {k \in DOMAIN row : IdDuring(row, i, k) < IdOf(row, i)}
  <2>1. A \in SUBSET Prev'
    BY <1>1, <1>2
  <2>2. Cardinality(A) <= Cardinality(Prev')
    BY <2>1, FS_Subset
  <2> QED BY <2>2 DEF FindOrder
<1>6. ASSUME NEW j \in Prev PROVE OffOrder(row, j) <= Cardinality(Prev')
  <2> DEFINE A == {k \in DOMAIN row : IdOf(row, k) < blobs[j].id}
             B == {k \in Kept(row) : k < j /\ blobs[k].id < blobs[j].id}
  <2>1. A \in SUBSET DOMAIN c /\ B \in SUBSET Kept(row)
    BY <1>1
  <2>2. Cardinality(A) + Cardinality(B) <= Cardinality(Prev')
    BY <1>4, <2>1
  <2> QED BY <2>2 DEF OffOrder
<1> QED BY <1>5, <1>6

\* The calls a frame leaves pending: one for a contour that is new or displaced,
\* and one for every ghost that expires.
LEMMA NextCalls ==
  ASSUME TypeOK, NEW c \in Contours, NEW row \in Matches(c),
         events' = FiredEvents(c, row), NEW k \in DOMAIN events'
  PROVE  \/ /\ k \in DOMAIN c
            /\ events'[k].kind # "off" /\ events'[k].at = c[k]
            /\ events'[k].order = FindOrder(row, k)
         \/ \E j \in Expired(row) :
              /\ k = CurSize(c) + j
              /\ events'[k].kind = "off"
              /\ events'[k].order = OffOrder(row, j)
<1> DEFINE n == CurSize(c)
           fired == FiredEvents(c, row)
<1>1. /\ DOMAIN fired \subseteq DOMAIN c \cup {n + j : j \in Expired(row)}
      /\ \A i \in DOMAIN c : i \in DOMAIN fired =>
           fired[i] = [kind |-> IF row[i] = New THEN "on" ELSE "moved",
                       at |-> c[i], id |-> IdOf(row, i), order |-> FindOrder(row, i)]
      /\ \A j \in Expired(row) :
           fired[n + j] = [kind |-> "off", at |-> blobs[j].centroid,
                           id |-> blobs[j].id, order |-> OffOrder(row, j)]
  BY FiredEventsShape
<1> HIDE DEF fired, n
<1>2. CASE k \in DOMAIN c
  <2>1. events'[k] = [kind |-> IF row[k] = New THEN "on" ELSE "moved",
                      at |-> c[k], id |-> IdOf(row, k), order |-> FindOrder(row, k)]
    BY <1>1, <1>2 DEF fired
  <2> QED BY <1>2, <2>1
<1>3. CASE k \notin DOMAIN c
  <2>1. PICK j \in Expired(row) : k = n + j
    BY <1>1, <1>3 DEF fired
  <2>2. events'[k] = [kind |-> "off", at |-> blobs[j].centroid,
                      id |-> blobs[j].id, order |-> OffOrder(row, j)]
    BY <1>1, <2>1 DEF fired
  <2> QED BY <2>1, <2>2 DEF n
<1> QED BY <1>2, <1>3

\* With more slots than the vector can have blobs, no call of the tracker is
\* beyond the array. The program has 25 slots and keeps ghosts for 2 frames,
\* so that this covers the settings of maxUsers up to 8.
THEOREM SlotsSuffice ==
  ASSUME HardLimit > MaxBlobs * (GhostFrames + 1)
  PROVE  AppSpec => []SlotInBounds
<1>1. AppInit => SlotInBounds
  BY DEF AppInit, Init, SlotInBounds
<1>2. TypeOK' /\ CohortsBounded' => VectorBounded'
  <2>1. TypeOK /\ CohortsBounded => VectorBounded
    BY CohortsBoundVector
  <2> QED BY <2>1, PTL
<1>3. ASSUME TypeOK, CohortsBounded, NEW c \in Contours, TrackBlobs(c)
      PROVE  SlotInBounds'
  <2>1. PICK row \in Matches(c) : blobs' = NextBlobs(c, row) /\ events' = FiredEvents(c, row)
    BY <1>3 DEF TrackBlobs
  <2>2. TypeOK' /\ CohortsBounded'
    BY <1>3, TrackBlobsTypeOK, TrackBlobsCohorts
  <2>3. VectorBounded'
    BY <1>2, <2>2
  <2>4. IsFiniteSet(Prev') /\ Cardinality(Prev') \in Nat
    BY <2>2, FS_CardinalityType DEF TypeOK
  <2>5. Cardinality(Prev') < HardLimit
    <3> DEFINE most == MaxBlobs * (GhostFrames + 1)
    <3>1. most \in Nat
      BY TrackerAssumption
    <3>2. Cardinality(Prev') <= most /\ most < HardLimit
      BY <2>3 DEF VectorBounded
    <3> HIDE DEF most
    <3> QED BY <2>4, <3>1, <3>2, AppAssumption
  <2>6. \A o \in Nat : o <= Cardinality(Prev') => o \in Slots
    BY <2>4, <2>5, AppAssumption DEF Slots
  <2>7. /\ \A i \in DOMAIN c : FindOrder(row, i) \in Slots
        /\ \A j \in Prev : OffOrder(row, j) \in Slots
    BY <1>3, <2>1, <2>4, <2>6, OrdersType, OrdersCountBlobs
  <2>8. Expired(row) \subseteq Prev
    BY <1>3, GhostsArePrev
  <2>9. ASSUME NEW k \in DOMAIN events' PROVE events'[k].order \in Slots
    BY <1>3, <2>1, <2>7, <2>8, <2>9, NextCalls
  <2> QED BY <2>9 DEF SlotInBounds
<1>4. ASSUME TypeOK, CohortsBounded, SlotInBounds, [AppNext]_vars
      PROVE  SlotInBounds'
  <2>1. CASE NextFrame
    BY <1>3, <1>4, <2>1, FrameSteps DEF NextFrame
  <2>2. CASE HandleEvent
    BY <1>4, <2>2, HandleEventTypeOK DEF SlotInBounds
  <2>3. CASE UNCHANGED trackerVars
    BY <1>4, <2>3 DEF SlotInBounds, trackerVars
  <2> QED BY <1>4, <2>1, <2>2, <2>3, OperatorSteps DEF AppNext, vars
<1> QED BY <1>1, <1>4, AppTrackerCorrect, PTL DEF AppSpec

\* With a slot for every order, a user moves or leaves on the wire only after
\* having joined, and not having left since.
THEOREM JoinsBeforeMoving ==
  ASSUME HardLimit > MaxBlobs * (GhostFrames + 1)
  PROVE  AppSpec => MovesOnlyWhilePresent
<1> DEFINE Known == \A m \in wire' : m.code \in {"MOVED", "LEFT"} => m.order \in present
<1>1. ASSUME InsideIsShown, SlotInBounds, AppNext PROVE Known
  <2>1. CASE NextFrame
    BY <2>1, FrameSteps DEF NextFrame, Mood
  <2>2. CASE HandleEvent
    <3>1. PICK i \in DOMAIN events :
             \/ events[i].kind = "on" /\ BlobOn(events[i])
             \/ events[i].kind = "moved" /\ BlobMoved(events[i])
             \/ events[i].kind = "off" /\ BlobOff(events[i])
      BY <2>2 DEF HandleEvent
    <3> DEFINE e == events[i]
    <3>2. e.order \in Slots /\ StatusOf(e.order) = {usersTracking[e.order]}
      BY <1>1 DEF SlotInBounds, StatusOf
    <3>3. usersTracking[e.order] = "B_ALIVE_IN_AREA" => e.order \in present
      BY <1>1, <3>2 DEF InsideIsShown
    <3>4. CASE BlobOn(e)
      BY <3>4, SendShows DEF BlobOn, SendNothing
    <3>5. CASE BlobMoved(e)
      BY <3>2, <3>3, <3>5, SendShows DEF BlobMoved, SendNothing
    <3>6. CASE BlobOff(e)
      BY <3>2, <3>3, <3>6, SendShows DEF BlobOff, SendNothing
    <3> QED BY <3>1, <3>4, <3>5, <3>6
  <2>3. CASE NextOperator
    BY <2>3, OperatorSteps
  <2> QED BY <1>1, <2>1, <2>2, <2>3 DEF AppNext
<1>2. InsideIsShown /\ SlotInBounds /\ [AppNext]_vars => [Known]_vars
  BY <1>1
<1>3. AppSpec => [][Known]_vars
  BY <1>2, InsideIsShownCorrect, SlotsSuffice, PTL DEF AppSpec
<1> QED BY <1>3 DEF MovesOnlyWhilePresent

-----------------------------------------------------------------------------
(* One user on a play area that is the whole image: no phantom users.      *)

\* The area of the settings covers every column, and stays.
AreaIsFloor ==
  /\ topLeftX = TopLeft /\ lowRightX = LowRight /\ userOffsetX = 0
  /\ \A x \in Places : TopLeft <= x /\ x <= LowRight

\* What makes NoPhantomUsers inductive: the only user is number 0, who is
\* held inside while shown, and when the vector is empty the call that makes
\* the user leave is still to come.
OneUser ==
  /\ \A k \in DOMAIN events : events[k].kind # "off" => events[k].order = 0
  /\ present \subseteq {0}
  /\ 0 \in present => usersTracking[0] = "B_ALIVE_IN_AREA"
  /\ Prev = {} =>
       /\ \A k \in DOMAIN events : events[k].kind = "off"
       /\ present = {} \/ \E k \in DOMAIN events : events[k].order = 0

\* Every column is inside.
LEMMA FloorInside ==
  ASSUME AreaIsFloor, NEW x \in Places
  PROVE  InsideArea(x)
BY ColumnsAssumption DEF AreaIsFloor, InsideArea, Below, Above, Width, From

\* A single contour comes first in the order.
LEMMA SingleContourFirst ==
  ASSUME TypeOK, MaxBlobs = 1, NEW c \in Contours, NEW row \in Matches(c),
         NEW i \in DOMAIN c
  PROVE  FindOrder(row, i) = 0
<1>1. DOMAIN row = DOMAIN c /\ DOMAIN c = 1 .. CurSize(c) /\ CurSize(c) \in 0 .. 1
  BY ContoursShape, MatchesShape
<1>2. i \in Int /\ \A k \in DOMAIN c : k = i
  BY <1>1
<1>3. IdDuring(row, i, i) = IdOf(row, i) /\ IdOf(row, i) \in Int
  BY <1>2, IdOfType, TrackerAssumption DEF IdDuring, Ids
<1>4. {k \in DOMAIN row : IdDuring(row, i, k) < IdOf(row, i)} = {}
  BY <1>1, <1>2, <1>3
<1> QED BY <1>4, FS_EmptySet DEF FindOrder

\* A frame that empties the vector lets every ghost of it leave as number 0.
LEMMA LastLeavesFirst ==
  ASSUME TypeOK, NEW c \in Contours, NEW row \in Matches(c),
         blobs' = NextBlobs(c, row), events' = FiredEvents(c, row), Prev' = {}
  PROVE  /\ DOMAIN c = {}
         /\ \A k \in DOMAIN events' : events'[k].kind = "off" /\ events'[k].order = 0
         /\ Prev # {} => DOMAIN events' # {}
<1>1. DOMAIN c = {} /\ Kept(row) = {}
  BY NextVectorIds
<1>2. DOMAIN row = {}
  BY <1>1, MatchesShape
<1>3. ASSUME NEW j \in Prev PROVE OffOrder(row, j) = 0
  <2>1. /\ {k \in DOMAIN row : IdOf(row, k) < blobs[j].id} = {}
        /\ {k \in Kept(row) : k < j /\ blobs[k].id < blobs[j].id} = {}
    BY <1>1, <1>2
  <2>2. /\ Cardinality({k \in DOMAIN row : IdOf(row, k) < blobs[j].id}) = 0
        /\ Cardinality({k \in Kept(row) : k < j /\ blobs[k].id < blobs[j].id}) = 0
    BY <2>1, FS_EmptySet
  <2> QED BY <2>2 DEF OffOrder
<1>4. Expired(row) = Prev
  BY <1>1, <1>2 DEF Kept, Expired, Missing
<1>5. \A k \in DOMAIN events' : events'[k].kind = "off" /\ events'[k].order = 0
  BY <1>1, <1>3, <1>4, NextCalls
<1>6. Prev # {} => DOMAIN events' # {}
  <2> DEFINE n == CurSize(c)
             fired == FiredEvents(c, row)
  <2>1. DOMAIN fired = {i \in DOMAIN c : row[i] = New \/ Displaced(c, row, i)}
                         \cup {n + j : j \in Expired(row)}
    BY FiredEventsShape
  <2>2. DOMAIN events' = DOMAIN fired
    OBVIOUS
  <2> HIDE DEF n, fired
  <2> QED BY <1>4, <2>1, <2>2
<1> QED BY <1>1, <1>5, <1>6

\* A frame keeps the invariant.
LEMMA FrameOneUser ==
  ASSUME TypeOK, OneUser, MaxBlobs = 1, NEW c \in Contours, Frame(c)
  PROVE  OneUser'
<1>1. DOMAIN events = {} /\ UNCHANGED <<usersTracking, present>> /\ TrackBlobs(c)
  BY FrameSteps
<1>2. PICK row \in Matches(c) : blobs' = NextBlobs(c, row) /\ events' = FiredEvents(c, row)
  BY <1>1 DEF TrackBlobs
<1>3. \A k \in DOMAIN events' : events'[k].kind # "off" => events'[k].order = 0
  <2>1. \A i \in DOMAIN c : FindOrder(row, i) = 0
    BY SingleContourFirst
  <2> QED BY <1>2, <2>1, NextCalls
<1>4. present' \subseteq {0} /\ (0 \in present' => usersTracking'[0] = "B_ALIVE_IN_AREA")
  BY <1>1 DEF OneUser
<1>5. ASSUME Prev' = {}
      PROVE  /\ \A k \in DOMAIN events' : events'[k].kind = "off"
             /\ present' = {} \/ \E k \in DOMAIN events' : events'[k].order = 0
  <2>1. /\ \A k \in DOMAIN events' : events'[k].kind = "off" /\ events'[k].order = 0
        /\ Prev # {} => DOMAIN events' # {}
    BY <1>2, <1>5, LastLeavesFirst
  <2>2. Prev = {} => present' = {}
    BY <1>1 DEF OneUser
  <2> QED BY <2>1, <2>2
<1> QED BY <1>3, <1>4, <1>5 DEF OneUser

\* A call keeps the invariant.
LEMMA HandleEventOneUser ==
  ASSUME TypeOK, AreaIsFloor, OneUser, HandleEvent
  PROVE  OneUser'
<1>1. PICK i \in DOMAIN events :
         /\ \/ events[i].kind = "on" /\ BlobOn(events[i])
            \/ events[i].kind = "moved" /\ BlobMoved(events[i])
            \/ events[i].kind = "off" /\ BlobOff(events[i])
         /\ events' = [k \in DOMAIN events \ {i} |-> events[k]]
  BY DEF HandleEvent
<1> DEFINE e == events[i]
<1>2. /\ Prev' = Prev
      /\ DOMAIN events' = DOMAIN events \ {i}
      /\ \A k \in DOMAIN events' : events'[k] = events[k]
  BY <1>1 DEF HandleEvent, Prev
<1>3. InsideArea(e.at)
  BY FloorInside DEF TypeOK, Event
<1>4. 0 \in Slots
  BY AppAssumption DEF Slots
<1>5. \A k \in DOMAIN events' : events'[k].kind # "off" => events'[k].order = 0
  BY <1>2 DEF OneUser
<1>6. CASE e.kind = "on" /\ BlobOn(e)
  <2>1. e.order = 0 /\ Prev # {}
    BY <1>6 DEF OneUser
  <2>2. present' = present \cup {0} /\ usersTracking'[0] = "B_ALIVE_IN_AREA"
    BY <1>3, <1>4, <1>6, <2>1, SendShows DEF BlobOn, Track
  <2> QED BY <1>2, <1>5, <2>1, <2>2 DEF OneUser
<1>7. CASE e.kind = "moved" /\ BlobMoved(e)
  <2>1. e.order = 0 /\ Prev # {}
    BY <1>7 DEF OneUser
  <2>2. present' = present \cup {0} /\ usersTracking'[0] = "B_ALIVE_IN_AREA"
    BY <1>3, <1>4, <1>7, <2>1, SendShows DEF BlobMoved, Track
  <2> QED BY <1>2, <1>5, <2>1, <2>2 DEF OneUser
<1>8. CASE e.kind = "off" /\ BlobOff(e)
  <2>1. PICK status \in StatusOf(e.order) :
          IF status = "B_ALIVE_IN_AREA" THEN Send("LEFT", e) ELSE SendNothing
    BY <1>8 DEF BlobOff
  <2>2. present' \subseteq present
    BY <2>1, SendShows DEF SendNothing
  <2>3. CASE e.order = 0
    <3>1. status = usersTracking[0]
      BY <1>4, <2>1, <2>3 DEF StatusOf
    <3>2. 0 \notin present'
      <4>1. CASE status = "B_ALIVE_IN_AREA"
        BY <2>1, <2>3, <4>1, SendShows
      <4>2. CASE status # "B_ALIVE_IN_AREA"
        BY <2>1, <3>1, <4>2 DEF SendNothing, OneUser
      <4> QED BY <4>1, <4>2
    <3>3. present' = {}
      BY <2>2, <3>2 DEF OneUser
    <3> QED BY <1>2, <1>5, <3>3 DEF OneUser
  <2>4. CASE e.order # 0
    <3>1. usersTracking'[0] = usersTracking[0]
      BY <1>4, <1>8, <2>4 DEF BlobOff, Track
    <3>2. \A k \in DOMAIN events : events[k].order = 0 => k \in DOMAIN events'
      BY <1>2, <2>4
    <3> QED BY <1>2, <1>5, <2>2, <3>1, <3>2 DEF OneUser
  <2> QED BY <2>3, <2>4
<1> QED BY <1>1, <1>6, <1>7, <1>8

\* The larger and the smaller of two numbers.
LEMMA MaxMinPair ==
  ASSUME NEW a \in Int, NEW b \in Int
  PROVE  /\ Max({a, b}) = IF a >= b THEN a ELSE b
         /\ Min({a, b}) = IF a <= b THEN a ELSE b
<1>1. Max({a, b}) \in {a, b} /\ \A y \in {a, b} : Max({a, b}) >= y
  <2>1. \E x \in {a, b} : \A y \in {a, b} : x >= y
    OBVIOUS
  <2> QED BY <2>1 DEF Max
<1>2. Min({a, b}) \in {a, b} /\ \A y \in {a, b} : Min({a, b}) <= y
  <2>1. \E x \in {a, b} : \A y \in {a, b} : x <= y
    OBVIOUS
  <2> QED BY <2>1 DEF Min
<1> QED BY <1>1, <1>2

\* Without clicks and offsets the play area stays.
LEMMA AreaStays ==
  ASSUME AreaIsFloor, Clicks = {}, OffsetLimit = 0, [AppNext]_vars
  PROVE  AreaIsFloor'
<1>1. CASE UNCHANGED <<topLeftX, lowRightX, userOffsetX>>
  BY <1>1 DEF AreaIsFloor
<1>2. CASE KeyUserOffset
  <2>1. Max({-0, 0 - 1}) = 0 /\ Min({0, 0 + 1}) = 0
    BY MaxMinPair
  <2> QED BY <1>2, <2>1 DEF KeyUserOffset, AreaIsFloor
<1> QED BY <1>1, <1>2, FrameSteps DEF AppNext, NextFrame, HandleEvent, NextOperator,
      KeyLearnBackground, KeyDefineCorners, vars, appVars, area

\* Every step of the application keeps the invariant of the single user.
LEMMA OneUserStep ==
  ASSUME MaxBlobs = 1, Clicks = {}, OffsetLimit = 0,
         TypeOK, AreaIsFloor, OneUser, [AppNext]_vars
  PROVE  AreaIsFloor' /\ OneUser'
<1>1. CASE NextFrame
  BY <1>1, AreaStays, FrameOneUser DEF NextFrame
<1>2. CASE HandleEvent
  BY <1>2, AreaStays, HandleEventOneUser
<1>3. CASE UNCHANGED <<trackerVars, usersTracking, present>>
  BY <1>3, AreaStays DEF OneUser, trackerVars, Prev
<1> QED BY <1>1, <1>2, <1>3, OperatorSteps DEF AppNext, vars, appVars

LEMMA OneUserInit ==
  ASSUME \A x \in Places : TopLeft <= x /\ x <= LowRight, AppInit
  PROVE  AreaIsFloor /\ OneUser
BY DEF AppInit, Init, AreaIsFloor, OneUser

\* What the invariant of the single user is for.
LEMMA OneUserShows == OneUser => NoPhantomUsers /\ ListenerAgrees
BY AppAssumption DEF OneUser, NoPhantomUsers, Idle, ListenerAgrees, Slots

\* With one user (maxUsers is 1 by default) on a play area that is the whole
\* image and stays so, a floor on which the tracker has nobody, and has told
\* everything, is one on which the clients show nobody; and at all times they
\* show only whom the application holds inside.
THEOREM OneUserIsNoPhantom ==
  ASSUME MaxBlobs = 1, Clicks = {}, OffsetLimit = 0,
         \A x \in Places : TopLeft <= x /\ x <= LowRight
  PROVE  AppSpec => []NoPhantomUsers /\ []ListenerAgrees
<1>1. AppInit => AreaIsFloor /\ OneUser
  BY OneUserInit
<1>2. TypeOK /\ AreaIsFloor /\ OneUser /\ [AppNext]_vars => AreaIsFloor' /\ OneUser'
  BY OneUserStep
<1> QED BY <1>1, <1>2, OneUserShows, AppTrackerCorrect, PTL DEF AppSpec

-----------------------------------------------------------------------------
(* Type correctness of the application.                                    *)

\* A message has the type of a message, and orders are numbers.
LEMMA SendType ==
  ASSUME NEW e \in Event, NEW code \in {"JOINED", "MOVED", "LEFT"}, Send(code, e),
         present \subseteq Nat
  PROVE  wire' \subseteq Message \cup {Mood} /\ present' \subseteq Nat
<1>1. Clamped(e.at) \in {"zero", "middle", "one", "nan"}
  BY DEF Clamped, InsideArea
<1>2. e.order \in Nat
  BY DEF Event
<1>3. [code |-> code, order |-> e.order, x |-> Clamped(e.at)] \in Message
  BY <1>1, <1>2 DEF Message
<1> QED BY <1>2, <1>3 DEF Send, Applied

\* A call keeps the application's types.
LEMMA HandleEventAppTypeOK ==
  ASSUME AppTypeOK, HandleEvent
  PROVE  AppTypeOK'
<1>1. PICK i \in DOMAIN events :
         \/ events[i].kind = "on" /\ BlobOn(events[i])
         \/ events[i].kind = "moved" /\ BlobMoved(events[i])
         \/ events[i].kind = "off" /\ BlobOff(events[i])
  BY DEF HandleEvent
<1> DEFINE e == events[i]
           Told == wire' \subseteq Message \cup {Mood} /\ present' \subseteq Nat
           Typed == usersTracking' \in [Slots -> Status]
<1>2. e \in Event /\ present \subseteq Nat /\ usersTracking \in [Slots -> Status]
  BY DEF AppTypeOK, TypeOK
<1> HIDE DEF e
<1>3. SendNothing => Told
  BY <1>2 DEF SendNothing
<1>4. \A code \in {"JOINED", "MOVED", "LEFT"} : Send(code, e) => Told
  BY <1>2, SendType
<1> HIDE DEF Told
<1>5. \A status \in Status : Track(e.order, status) => Typed
  BY <1>2 DEF Track
<1>6. ASSUME BlobOn(e) PROVE Told /\ Typed
  BY <1>3, <1>4, <1>5, <1>6 DEF BlobOn, Status
<1>7. ASSUME BlobMoved(e) PROVE Told /\ Typed
  BY <1>3, <1>4, <1>5, <1>7 DEF BlobMoved, Status
<1>8. ASSUME BlobOff(e) PROVE Told /\ Typed
  BY <1>3, <1>4, <1>5, <1>8 DEF BlobOff, Status
<1>9. Told /\ Typed
  BY <1>1, <1>6, <1>7, <1>8 DEF e
<1>10. TypeOK' /\ UNCHANGED <<bLearnBakground, area, currNonMoodFrame>>
  BY HandleEventTypeOK DEF AppTypeOK, HandleEvent
<1> QED BY <1>9, <1>10 DEF Told, AppTypeOK, area

\* A step of the operator keeps the application's types: the offset stays
\* within its limits.
LEMMA OperatorAppTypeOK ==
  ASSUME AppTypeOK, NextOperator
  PROVE  AppTypeOK'
<1>1. TypeOK' /\ usersTracking' \in [Slots -> Status] /\ present' \subseteq Nat
      /\ wire' \subseteq Message \cup {Mood}
  BY OperatorSteps, StutterTypeOK DEF AppTypeOK
<1>2. currNonMoodFrame' = currNonMoodFrame
  BY DEF NextOperator, KeyLearnBackground, KeyDefineCorners, ClickTopLeft,
         ClickLowRight, KeyUserOffset, Operator
<1>3. CASE KeyUserOffset
  <2>1. OffsetLimit \in Nat /\ userOffsetX \in -OffsetLimit .. OffsetLimit
    BY AppAssumption DEF AppTypeOK
  <2>2. /\ Max({-OffsetLimit, userOffsetX - 1})
             = IF -OffsetLimit >= userOffsetX - 1 THEN -OffsetLimit ELSE userOffsetX - 1
        /\ Min({OffsetLimit, userOffsetX + 1})
             = IF OffsetLimit <= userOffsetX + 1 THEN OffsetLimit ELSE userOffsetX + 1
    <3>1. /\ -OffsetLimit \in Int /\ userOffsetX - 1 \in Int
          /\ OffsetLimit \in Int /\ userOffsetX + 1 \in Int
      BY <2>1
    <3> HIDE <2>1
    <3> QED BY <3>1, MaxMinPair
  <2>3. userOffsetX' \in -OffsetLimit .. OffsetLimit
    BY <1>3, <2>1, <2>2 DEF KeyUserOffset
  <2> QED BY <1>1, <1>2, <1>3, <2>3 DEF AppTypeOK, KeyUserOffset
<1>4. CASE KeyLearnBackground \/ KeyDefineCorners
  BY <1>1, <1>2, <1>4 DEF AppTypeOK, KeyLearnBackground, KeyDefineCorners, area
<1>5. CASE \E x \in Clicks : ClickTopLeft(x) \/ ClickLowRight(x)
  BY <1>1, <1>2, <1>5, ColumnsAssumption DEF AppTypeOK, ClickTopLeft, ClickLowRight
<1> QED BY <1>3, <1>4, <1>5 DEF NextOperator

LEMMA AppInitTypeOK == AppInit => AppTypeOK
<1>1. AppInit => TypeOK
  BY InitTypeOK DEF AppInit
<1> QED BY <1>1, AppAssumption, ColumnsAssumption DEF AppInit, AppTypeOK, Status

\* Every step of the application keeps its types.
LEMMA AppTypeStep == ASSUME AppTypeOK, [AppNext]_vars PROVE AppTypeOK'
<1>1. ASSUME NEW c \in Contours, Frame(c) PROVE AppTypeOK'
  <2>1. TypeOK'
    BY <1>1, FrameSteps, TrackBlobsTypeOK DEF AppTypeOK
  <2>2. wire' \subseteq {Mood} /\ UNCHANGED <<usersTracking, present, area>>
    BY <1>1, FrameSteps
  <2>3. currNonMoodFrame' \in 0 .. NonMoodFrames + 1
    BY <1>1, AppAssumption DEF Frame, ReportMood, AppTypeOK
  <2> QED BY <1>1, <2>1, <2>2, <2>3 DEF AppTypeOK, Frame, area
<1>2. CASE UNCHANGED vars
  <2>1. TypeOK'
    BY <1>2, StutterTypeOK DEF AppTypeOK, vars
  <2> QED BY <1>2, <2>1 DEF AppTypeOK, vars, appVars
<1> QED BY <1>1, <1>2, HandleEventAppTypeOK, OperatorAppTypeOK DEF AppNext, NextFrame

\* Whatever the camera sees and the operator does, the application keeps its
\* types: the offset stays within its limits and the mood counter stops one
\* past its own.
THEOREM AppTypeCorrect == AppSpec => []AppTypeOK
BY AppInitTypeOK, AppTypeStep, PTL DEF AppSpec

=============================================================================
