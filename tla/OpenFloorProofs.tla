--------------------------- MODULE OpenFloorProofs ---------------------------
(***************************************************************************)
(* Theorems of OpenFloor: what the screen of a client shows, for any       *)
(* number of users and any length of the channel.                          *)
(***************************************************************************)
EXTENDS OpenFloor, TestAppProofs

-----------------------------------------------------------------------------
(* Lines and messages.                                                     *)

Line == Message \cup {Mood}

\* A line of mood is none of the messages.
LEMMA MoodIsNoMessage ==
  /\ Mood.code = "MOOD"
  /\ \A m \in Message : m.code \in {"JOINED", "MOVED", "LEFT"} /\ m # Mood
BY DEF Mood, Message

\* The sequence of a single message, and of none.
LEMMA SetToSeqSmall ==
  /\ SetToSeq({}) = << >>
  /\ \A m : SetToSeq({m}) = <<m>>
<1>1. SetToSeq({}) = << >>
  <2>1. Cardinality({}) = 0
    BY FS_EmptySet
  <2> DEFINE F == [1 .. 0 -> {}]
  <2>2. \A f \in F : f = << >>
    OBVIOUS
  <2>3. << >> \in F /\ IsInjective(<< >>)
    BY DEF IsInjective
  <2>4. SetToSeq({}) \in F
    BY <2>1, <2>3 DEF SetToSeq
  <2> QED BY <2>2, <2>4
<1>2. ASSUME NEW m PROVE SetToSeq({m}) = <<m>>
  <2>1. Cardinality({m}) = 1
    BY FS_Singleton
  <2> DEFINE F == [1 .. 1 -> {m}]
  <2>2. \A f \in F : f = <<m>>
    OBVIOUS
  <2>3. <<m>> \in F /\ IsInjective(<<m>>)
    BY DEF IsInjective
  <2>4. SetToSeq({m}) \in F
    BY <2>1, <2>3 DEF SetToSeq
  <2> QED BY <2>2, <2>4
<1> QED BY <1>1, <1>2

\* A line at the end of the channel.
LEMMA SentLine ==
  ASSUME channel \in Seq(Line), NEW m \in Line, channel' = channel \o <<m>>
  PROVE  /\ channel' \in Seq(Line) /\ Len(channel) \in Nat
         /\ DOMAIN channel = 1 .. Len(channel) /\ DOMAIN channel' = 1 .. Len(channel) + 1
         /\ \A j \in DOMAIN channel : channel'[j] = channel[j]
         /\ channel'[Len(channel) + 1] = m
OBVIOUS

\* The first line of the channel is read.
LEMMA ReadFirst ==
  ASSUME channel \in Seq(Line), channel # << >>, channel' = Tail(channel)
  PROVE  /\ channel' \in Seq(Line) /\ Len(channel) \in Nat \ {0}
         /\ DOMAIN channel = 1 .. Len(channel) /\ DOMAIN channel' = 1 .. Len(channel) - 1
         /\ \A j \in DOMAIN channel' : channel'[j] = channel[j + 1]
         /\ Head(channel) = channel[1] /\ channel[1] \in Line
OBVIOUS

-----------------------------------------------------------------------------
(* What will be shown.                                                     *)

\* Who will be shown is shown now or by a line of the channel, and no later
\* line lets that user leave.
LEMMA WillShowIs ==
  ASSUME NEW u
  PROVE  u \in WillShow <=>
           \/ u \in users /\ ~LeavesAfter(u, 0)
           \/ \E k \in DOMAIN channel : /\ channel[k].code \in {"JOINED", "MOVED"}
                                        /\ channel[k].order = u /\ ~LeavesAfter(u, k)
BY DEF WillShow

\* A message that is sent will be applied to what is shown then; a line of
\* mood changes nothing.
LEMMA SentIsApplied ==
  ASSUME channel \in Seq(Line), NEW m \in Line, channel' = channel \o <<m>>, users' = users
  PROVE  WillShow' = IF m = Mood THEN WillShow ELSE Applied(WillShow, m)
<1> DEFINE n == Len(channel)
<1>1. /\ n \in Nat /\ DOMAIN channel = 1 .. n /\ DOMAIN channel' = 1 .. n + 1
      /\ \A j \in DOMAIN channel : channel'[j] = channel[j]
      /\ channel'[n + 1] = m
  BY SentLine
<1> HIDE DEF n
<1>0. \A j : j \in DOMAIN channel' <=> j \in DOMAIN channel \/ j = n + 1
  BY <1>1
<1>2. ASSUME NEW u, NEW k \in 0 .. n
      PROVE  LeavesAfter(u, k)' <=> LeavesAfter(u, k) \/ (m.code = "LEFT" /\ m.order = u)
  <2>1. LeavesAfter(u, k)'
          <=> \E j \in DOMAIN channel' : j > k /\ channel'[j].code = "LEFT" /\ channel'[j].order = u
    BY DEF LeavesAfter
  <2>2. n + 1 > k /\ n + 1 \in DOMAIN channel'
    BY <1>1
  <2> QED BY <1>0, <1>1, <2>1, <2>2 DEF LeavesAfter
<1>3. ASSUME NEW u, NEW k, k = n + 1 PROVE ~LeavesAfter(u, k)'
  <2>1. LeavesAfter(u, k)'
          <=> \E j \in DOMAIN channel' : j > k /\ channel'[j].code = "LEFT" /\ channel'[j].order = u
    BY DEF LeavesAfter
  <2>2. \A j \in DOMAIN channel' : ~(j > n + 1)
    BY <1>1
  <2> QED BY <1>3, <2>1, <2>2
<1>4. ASSUME NEW u
      PROVE  u \in WillShow' <=>
               \/ u \in WillShow /\ ~(m.code = "LEFT" /\ m.order = u)
               \/ m.code \in {"JOINED", "MOVED"} /\ m.order = u
  <2>1. u \in WillShow' <=>
           \/ u \in users' /\ ~LeavesAfter(u, 0)'
           \/ \E k \in DOMAIN channel' : /\ channel'[k].code \in {"JOINED", "MOVED"}
                                         /\ channel'[k].order = u /\ ~LeavesAfter(u, k)'
    BY DEF WillShow
  <2>2. (\E k \in DOMAIN channel' : /\ channel'[k].code \in {"JOINED", "MOVED"}
                                    /\ channel'[k].order = u /\ ~LeavesAfter(u, k)')
        <=> \/ m.code \in {"JOINED", "MOVED"} /\ m.order = u
            \/ \E k \in DOMAIN channel : /\ channel[k].code \in {"JOINED", "MOVED"}
                                         /\ channel[k].order = u /\ ~LeavesAfter(u, k)'
    <3>1. \A k \in DOMAIN channel : k \in DOMAIN channel' /\ channel'[k] = channel[k]
      BY <1>1
    <3>2. PICK last \in DOMAIN channel' : last = n + 1
      BY <1>1
    <3>3. ~LeavesAfter(u, last)' /\ channel'[last] = m
      BY <1>1, <1>3, <3>2
    <3> QED BY <1>0, <3>1, <3>2, <3>3
  <2> QED BY <1>1, <1>2, <2>1, <2>2, WillShowIs
<1>5. m = Mood => m.code = "MOOD"
  BY MoodIsNoMessage
<1>6. m # Mood => m.code \in {"JOINED", "MOVED", "LEFT"}
  BY MoodIsNoMessage DEF Line
<1> QED BY <1>4, <1>5, <1>6 DEF Applied

\* A line that is heeded, or is of the mood, is read as it was meant: reading
\* changes nothing in what will be shown.
LEMMA ReadAsMeant ==
  ASSUME channel \in Seq(Line), ReadLine,
         Head(channel).code # "MOOD" => Head(channel).x # "zero"
  PROVE  WillShow' = WillShow
<1> DEFINE n == Len(channel)
           h == channel[1]
<1>1. /\ n \in Nat \ {0} /\ DOMAIN channel = 1 .. n /\ DOMAIN channel' = 1 .. n - 1
      /\ \A j \in DOMAIN channel' : channel'[j] = channel[j + 1]
      /\ h \in Line
  BY ReadFirst DEF ReadLine
<1>2. users' = IF h.code = "MOOD" THEN users ELSE Applied(users, h)
  BY ReadFirst DEF ReadLine, Heeded
<1>3. h.code \in {"MOOD", "JOINED", "MOVED", "LEFT"}
  BY <1>1, MoodIsNoMessage DEF Line
<1> HIDE DEF n, h
<1>4. ASSUME NEW u, NEW k \in 0 .. n - 1
      PROVE  LeavesAfter(u, k)' <=> LeavesAfter(u, k + 1)
  <2>1. \A j \in 1 .. n - 1 : j + 1 \in 1 .. n
    BY <1>1
  <2>2. \A j \in 1 .. n : j > k + 1 => j - 1 \in 1 .. n - 1 /\ (j - 1) + 1 = j /\ j - 1 > k
    BY <1>1
  <2>3. LeavesAfter(u, k)'
          <=> \E j \in DOMAIN channel' : j > k /\ channel'[j].code = "LEFT" /\ channel'[j].order = u
    BY DEF LeavesAfter
  <2>4. ASSUME NEW j \in 1 .. n - 1, j > k, channel'[j].code = "LEFT", channel'[j].order = u
        PROVE  LeavesAfter(u, k + 1)
    BY <1>1, <2>1, <2>4 DEF LeavesAfter
  <2>5. ASSUME NEW j \in 1 .. n, j > k + 1, channel[j].code = "LEFT", channel[j].order = u
        PROVE  LeavesAfter(u, k)'
    <3>1. PICK i \in 1 .. n - 1 : i + 1 = j /\ i > k
      BY <2>2, <2>5
    <3>2. i \in DOMAIN channel' /\ channel'[i] = channel[j]
      BY <1>1, <3>1
    <3> QED BY <2>3, <2>5, <3>1, <3>2
  <2> QED BY <1>1, <2>3, <2>4, <2>5 DEF LeavesAfter
<1>5. ASSUME NEW u
      PROVE  LeavesAfter(u, 0) <=> LeavesAfter(u, 1) \/ (h.code = "LEFT" /\ h.order = u)
  BY <1>1 DEF LeavesAfter, h
<1>6. ASSUME NEW u
      PROVE  (\E k \in DOMAIN channel : /\ channel[k].code \in {"JOINED", "MOVED"}
                                        /\ channel[k].order = u /\ ~LeavesAfter(u, k))
             <=> \/ h.code \in {"JOINED", "MOVED"} /\ h.order = u /\ ~LeavesAfter(u, 1)
                 \/ \E k \in DOMAIN channel' : /\ channel'[k].code \in {"JOINED", "MOVED"}
                                               /\ channel'[k].order = u /\ ~LeavesAfter(u, k)'
  <2>1. \A k \in 1 .. n : k = 1 \/ (k - 1 \in 1 .. n - 1 /\ (k - 1) + 1 = k)
    BY <1>1
  <2>2. \A k \in 1 .. n - 1 : k \in 0 .. n - 1 /\ k + 1 \in 1 .. n
    BY <1>1
  <2>3. 1 \in 1 .. n
    BY <1>1
  <2>4. ASSUME NEW k \in 1 .. n - 1
        PROVE  /\ channel'[k] = channel[k + 1]
               /\ LeavesAfter(u, k)' <=> LeavesAfter(u, k + 1)
    BY <1>1, <1>4, <2>2
  <2>5. ASSUME NEW k \in 1 .. n, channel[k].code \in {"JOINED", "MOVED"},
               channel[k].order = u, ~LeavesAfter(u, k), k # 1
        PROVE  \E i \in 1 .. n - 1 : /\ channel'[i].code \in {"JOINED", "MOVED"}
                                     /\ channel'[i].order = u /\ ~LeavesAfter(u, i)'
    BY <2>1, <2>4, <2>5
  <2>6. ASSUME NEW k \in 1 .. n - 1, channel'[k].code \in {"JOINED", "MOVED"},
               channel'[k].order = u, ~LeavesAfter(u, k)'
        PROVE  \E i \in 1 .. n : /\ channel[i].code \in {"JOINED", "MOVED"}
                                 /\ channel[i].order = u /\ ~LeavesAfter(u, i)
    BY <2>2, <2>4, <2>6
  <2> QED BY <1>1, <2>3, <2>5, <2>6 DEF h
<1>7. ASSUME NEW u PROVE u \in WillShow' <=> u \in WillShow
  <2>1. u \in WillShow' <=>
           \/ u \in users' /\ ~LeavesAfter(u, 0)'
           \/ \E k \in DOMAIN channel' : /\ channel'[k].code \in {"JOINED", "MOVED"}
                                         /\ channel'[k].order = u /\ ~LeavesAfter(u, k)'
    BY DEF WillShow
  <2>2. LeavesAfter(u, 0)' <=> LeavesAfter(u, 1)
    BY <1>1, <1>4
  <2> QED BY <1>2, <1>3, <1>5, <1>6, <2>1, <2>2, WillShowIs DEF Applied
<1> QED BY <1>7

-----------------------------------------------------------------------------
(* What a step of the application tells.                                   *)

\* The play area of the settings, with the operator's clicks ruled out.
AreaIsSet == topLeftX = TopLeft /\ lowRightX = LowRight

\* Right of the corner, with any offset, no coordinate is zero.
LEMMA NoCoordinateIsZero ==
  ASSUME AppTypeOK, AreaIsSet, TopLeft < LowRight, NEW x \in Places, TopLeft + OffsetLimit < x
  PROVE  Clamped(x) # "zero"
<1>1. /\ x \in Int /\ TopLeft \in Int /\ LowRight \in Int /\ OffsetLimit \in Nat
      /\ userOffsetX \in -OffsetLimit .. OffsetLimit
  BY ColumnsAssumption, AppAssumption DEF AppTypeOK
<1>2. Width > 0 /\ From(x) > 0 /\ Width \in Int /\ From(x) \in Int
  BY <1>1 DEF AreaIsSet, Width, From
<1>3. ~Below(x)
  BY <1>2 DEF Below
<1> QED BY <1>2, <1>3 DEF Clamped, InsideArea

\* A step sends one message, by which those who are there change, or a line of
\* mood, or nothing.
Tells(m) == wire' = {m} /\ m \in Message /\ m.x # "zero" /\ present' = Applied(present, m)

\* A call of the tracker is told to the clients, with a coordinate that is no noise.
LEMMA CallTells ==
  ASSUME AppTypeOK, AreaIsSet, TopLeft < LowRight, \A x \in Places : TopLeft + OffsetLimit < x,
         HandleEvent
  PROVE  (\E m : Tells(m)) \/ SendNothing
<1>1. PICK i \in DOMAIN events : BlobOn(events[i]) \/ BlobMoved(events[i]) \/ BlobOff(events[i])
  BY DEF HandleEvent
<1>2. events[i] \in Event
  BY DEF AppTypeOK, TypeOK
<1>3. ASSUME NEW code \in {"JOINED", "MOVED", "LEFT"}, Send(code, events[i])
      PROVE  \E m : Tells(m)
  <2> DEFINE m == [code |-> code, order |-> events[i].order, x |-> Clamped(events[i].at)]
  <2>1. events[i].at \in Places /\ events[i].order \in Nat
    BY <1>2 DEF Event
  <2>2. Clamped(events[i].at) \in {"zero", "middle", "one", "nan"} \ {"zero"}
    BY <2>1, NoCoordinateIsZero DEF Clamped, InsideArea
  <2>3. m \in Message /\ m.x # "zero"
    BY <2>1, <2>2 DEF Message
  <2>4. wire' = {m} /\ present' = Applied(present, m)
    BY <1>3 DEF Send
  <2> QED BY <2>3, <2>4 DEF Tells
<1>4. CASE BlobOn(events[i])
  BY <1>3, <1>4 DEF BlobOn
<1>5. CASE BlobMoved(events[i])
  BY <1>3, <1>5 DEF BlobMoved
<1>6. CASE BlobOff(events[i])
  BY <1>3, <1>6 DEF BlobOff
<1> QED BY <1>1, <1>4, <1>5, <1>6

\* A step of the application tells one thing, or a line of mood, or nothing.
LEMMA StepTells ==
  ASSUME AppTypeOK, AreaIsSet, TopLeft < LowRight, \A x \in Places : TopLeft + OffsetLimit < x,
         AppNext
  PROVE  \/ \E m : Tells(m)
         \/ wire' \in {{}, {Mood}} /\ present' = present
<1>1. CASE NextFrame
  BY <1>1 DEF NextFrame, Frame, ReportMood
<1>2. CASE HandleEvent
  BY <1>2, CallTells DEF SendNothing
<1>3. CASE NextOperator
  BY <1>3, OperatorSteps
<1> QED BY <1>1, <1>2, <1>3 DEF AppNext

-----------------------------------------------------------------------------
(* The client and the application.                                         *)

\* What the client does leaves the application as it is.
LEMMA ClientSteps ==
  ASSUME Connect \/ ReadLine
  PROVE  /\ UNCHANGED <<trackerVars, usersTracking, bLearnBakground, area, currNonMoodFrame, present>>
         /\ wire' = {}
BY DEF Connect, ReadLine, AppWaits

\* The client does not touch the application.
LEMMA ClientKeepsTypes ==
  ASSUME AppTypeOK, Connect \/ ReadLine
  PROVE  AppTypeOK'
<1>1. TypeOK'
  BY ClientSteps, StutterTypeOK DEF AppTypeOK
<1> QED BY <1>1, ClientSteps DEF AppTypeOK, area

\* The application's steps are those of TestApp.
LEMMA FloorTypeStep == ASSUME AppTypeOK, [FloorNext]_floorVars PROVE AppTypeOK'
BY AppTypeStep, ClientKeepsTypes DEF FloorNext, AppStep, floorVars

\* What makes ScreenShowsPresent inductive: no line in the channel is taken for
\* noise, and who is not connected has got none.
ScreenInv ==
  /\ AppTypeOK /\ AreaIsSet
  /\ channel \in Seq(Line)
  /\ \A k \in DOMAIN channel : channel[k].code # "MOOD" => channel[k].x # "zero"
  /\ connected = "no" => channel = << >> /\ users = {}
  /\ ScreenShowsPresent

\* Without a connection nothing is on its way to the screen.
LEMMA NobodyConnected ==
  ASSUME channel = << >>, users = {}
  PROVE  WillShow = {}
BY DEF WillShow

\* A line sent changes what will be shown as it changes who is there.
LEMMA ScreenAppStep ==
  ASSUME ScreenInv, TopLeft < LowRight, \A x \in Places : TopLeft + OffsetLimit < x,
         AppStep, AreaIsSet'
  PROVE  ScreenInv'
<1>1. AppTypeOK'
  BY AppTypeStep DEF ScreenInv, AppStep
<1>2. UNCHANGED <<connected, users>>
  BY DEF AppStep, SendToAll
<1>3. \/ \E m : Tells(m)
      \/ wire' \in {{}, {Mood}} /\ present' = present
  BY StepTells DEF ScreenInv, AppStep
<1>4. CASE connected = "no"
  <2>1. channel' = << >> /\ users' = {} /\ connected' = "no"
    BY <1>2, <1>4 DEF AppStep, SendToAll, ScreenInv
  <2>2. WillShow' = {}
    BY <2>1 DEF WillShow
  <2> QED BY <1>1, <2>1, <2>2 DEF ScreenInv, ScreenShowsPresent, NobodyStays
<1>5. CASE connected # "no" /\ wire' = {} /\ present' = present
  <2>1. channel' = channel
    BY <1>5, SetToSeqSmall DEF AppStep, SendToAll, ScreenInv
  <2>2. WillShow' = WillShow
    BY <1>2, <2>1 DEF WillShow, LeavesAfter
  <2> QED BY <1>1, <1>2, <1>5, <2>1, <2>2 DEF ScreenInv, ScreenShowsPresent, NobodyStays
<1>6. ASSUME connected # "no", NEW m \in Line, wire' = {m}, m = Mood \/ m.x # "zero",
             present' = IF m = Mood THEN present ELSE Applied(present, m)
      PROVE  ScreenInv'
  <2>1. channel' = channel \o <<m>>
    BY <1>6, SetToSeqSmall DEF AppStep, SendToAll
  <2>2. channel \in Seq(Line)
    BY DEF ScreenInv
  <2>3. /\ channel' \in Seq(Line)
        /\ \A k \in DOMAIN channel' : channel'[k].code # "MOOD" => channel'[k].x # "zero"
    <3>1. \A k \in DOMAIN channel' : k \in DOMAIN channel \/ k = Len(channel) + 1
      BY <2>1, <2>2, SentLine
    <3> QED BY <1>6, <2>1, <2>2, <3>1, SentLine, MoodIsNoMessage DEF ScreenInv
  <2>4. WillShow' = IF m = Mood THEN WillShow ELSE Applied(WillShow, m)
    BY <1>2, <2>1, <2>2, SentIsApplied
  <2>5. ScreenShowsPresent'
    BY <1>2, <1>6, <2>4 DEF ScreenInv, ScreenShowsPresent, NobodyStays, Applied
  <2> QED BY <1>1, <1>2, <1>6, <2>3, <2>5 DEF ScreenInv
<1>7. CASE connected # "no" /\ wire' = {Mood} /\ present' = present
  BY <1>6, <1>7 DEF Line
<1>8. CASE connected # "no" /\ \E m : Tells(m)
  BY <1>6, <1>8, MoodIsNoMessage DEF Line, Tells
<1> QED BY <1>3, <1>4, <1>5, <1>7, <1>8

\* A line read moves from the channel to the screen.
LEMMA ScreenReadLine == ASSUME ScreenInv, ReadLine PROVE ScreenInv'
<1>1. AppTypeOK' /\ AreaIsSet' /\ present' = present
  BY ClientSteps, ClientKeepsTypes DEF ScreenInv, AreaIsSet, area
<1>2. channel \in Seq(Line) /\ channel # << >> /\ channel' = Tail(channel)
  BY DEF ScreenInv, ReadLine
<1>3. /\ 1 \in DOMAIN channel /\ Head(channel) = channel[1]
      /\ \A k \in DOMAIN channel' : k + 1 \in DOMAIN channel /\ channel'[k] = channel[k + 1]
  BY <1>2, ReadFirst
<1>4. /\ channel' \in Seq(Line)
      /\ \A k \in DOMAIN channel' : channel'[k].code # "MOOD" => channel'[k].x # "zero"
  BY <1>2, <1>3 DEF ScreenInv
<1>5. WillShow' = WillShow
  BY <1>2, <1>3, ReadAsMeant DEF ScreenInv
<1>6. connected' = connected /\ connected # "no"
  BY <1>2 DEF ReadLine, ScreenInv
<1> QED BY <1>1, <1>4, <1>5, <1>6 DEF ScreenInv, ScreenShowsPresent, NobodyStays

\* A client that connects shows nobody and has no lines to read.
LEMMA ScreenConnect == ASSUME ScreenInv, Connect PROVE ScreenInv'
<1>1. AppTypeOK' /\ AreaIsSet' /\ present' = present
  BY ClientSteps, ClientKeepsTypes DEF ScreenInv, AreaIsSet, area
<1>2. connected' = "late" /\ UNCHANGED <<channel, users>>
  BY DEF Connect
<1>3. WillShow' = WillShow
  BY <1>2 DEF WillShow, LeavesAfter
<1> QED BY <1>1, <1>2, <1>3 DEF ScreenInv, ScreenShowsPresent, NobodyStays

\* Without clicks the corners stay as they were set.
LEMMA AreaStaysSet ==
  ASSUME AreaIsSet, Clicks = {}, AppNext
  PROVE  AreaIsSet'
BY FrameSteps DEF AreaIsSet, AppNext, NextFrame, HandleEvent, NextOperator, KeyLearnBackground,
  KeyDefineCorners, KeyUserOffset, area

\* With any number of users, a client shows nobody who is not there by the
\* messages, and one that is connected from the start shows exactly those who
\* are, as soon as it has read what was sent: provided that no user comes to the
\* left edge of the play area, where a coordinate is zero and the line is taken
\* for noise, and that the operator moves the corners no more. The offset may be
\* shifted at any time.
THEOREM ScreenCorrect ==
  ASSUME Clicks = {}, TopLeft < LowRight, \A x \in Places : TopLeft + OffsetLimit < x
  PROVE  FloorSpec => []ScreenShowsPresent
<1>1. FloorInit => ScreenInv
  <2> SUFFICES ASSUME FloorInit PROVE ScreenInv
    OBVIOUS
  <2>1. AppTypeOK /\ AreaIsSet /\ present = {}
    BY AppInitTypeOK DEF FloorInit, AppInit, AreaIsSet
  <2>2. WillShow = {}
    BY NobodyConnected DEF FloorInit
  <2> QED BY <2>1, <2>2 DEF FloorInit, ScreenInv, ScreenShowsPresent, NobodyStays
<1>2. ScreenInv /\ [FloorNext]_floorVars => ScreenInv'
  <2> SUFFICES ASSUME ScreenInv, [FloorNext]_floorVars PROVE ScreenInv'
    OBVIOUS
  <2>1. CASE AppStep
    <3>1. AreaIsSet'
      BY <2>1, AreaStaysSet DEF AppStep, ScreenInv
    <3> QED BY <2>1, <3>1, ScreenAppStep
  <2>2. CASE UNCHANGED floorVars
    <3>1. AppTypeOK'
      BY <2>2, FloorTypeStep DEF ScreenInv
    <3> QED BY <2>2, <3>1 DEF floorVars, vars, appVars, clientVars, ScreenInv, AreaIsSet,
          ScreenShowsPresent, NobodyStays, WillShow, LeavesAfter
  <2> QED BY <2>1, <2>2, ScreenReadLine, ScreenConnect DEF FloorNext
<1>3. ScreenInv => ScreenShowsPresent
  BY DEF ScreenInv
<1> QED BY <1>1, <1>2, <1>3, PTL DEF FloorSpec

-----------------------------------------------------------------------------
(* One user.                                                               *)

\* The invariant of the single user is none of the client's business.
LEMMA FloorOneUser ==
  ASSUME MaxBlobs = 1, Clicks = {}, OffsetLimit = 0,
         TypeOK, AreaIsFloor, OneUser, [FloorNext]_floorVars
  PROVE  AreaIsFloor' /\ OneUser'
<1>1. CASE [AppNext]_vars
  BY <1>1, OneUserStep
<1>2. CASE Connect \/ ReadLine
  BY <1>2, ClientSteps DEF AreaIsFloor, OneUser, trackerVars, Prev, area
<1> QED BY <1>1, <1>2 DEF FloorNext, AppStep, floorVars

\* With one user on a play area that is the whole image and stays so, the
\* clients show at all times only whom the application holds inside, and nobody
\* when the tracker has nobody and has told everything: also with clients that
\* connect and read while the application goes on.
THEOREM ListenerCorrect ==
  ASSUME MaxBlobs = 1, Clicks = {}, OffsetLimit = 0,
         \A x \in Places : TopLeft <= x /\ x <= LowRight
  PROVE  FloorSpec => []ListenerAgrees /\ []NoPhantomUsers
<1>1. FloorInit => AppTypeOK /\ AreaIsFloor /\ OneUser
  BY AppInitTypeOK, OneUserInit DEF FloorInit
<1>2. AppTypeOK /\ AreaIsFloor /\ OneUser /\ [FloorNext]_floorVars
        => AppTypeOK' /\ AreaIsFloor' /\ OneUser'
  BY FloorTypeStep, FloorOneUser DEF AppTypeOK
<1> QED BY <1>1, <1>2, OneUserShows, PTL DEF FloorSpec

\* What both theorems mean for a floor with one user: when the tracker has
\* nobody, has told everything, and the client has read it, the screen is empty.
THEOREM EmptyFloorEmptyScreen ==
  ASSUME MaxBlobs = 1, Clicks = {}, OffsetLimit = 0,
         \A x \in Places : TopLeft < x /\ x <= LowRight, TopLeft < LowRight
  PROVE  FloorSpec => [](Prev = {} /\ Idle /\ channel = << >> => users = {})
<1>1. ScreenShowsPresent /\ NoPhantomUsers => (Prev = {} /\ Idle /\ channel = << >> => users = {})
  BY DEF ScreenShowsPresent, NobodyStays, NoPhantomUsers, WillShow, LeavesAfter
<1>2. FloorSpec => []ScreenShowsPresent
  <2>1. \A x \in Places : TopLeft + OffsetLimit < x
    BY ColumnsAssumption
  <2> QED BY <2>1, ScreenCorrect
<1>3. FloorSpec => []ListenerAgrees /\ []NoPhantomUsers
  BY ListenerCorrect, ColumnsAssumption
<1> QED BY <1>1, <1>2, <1>3, PTL

=============================================================================
