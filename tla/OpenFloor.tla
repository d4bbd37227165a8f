------------------------------ MODULE OpenFloor ------------------------------
(***************************************************************************)
(* The whole of openFloor, from the camera to the screen: the tracking     *)
(* application (TestApp), the lines it sends to all its clients, and the   *)
(* Processing program that keeps a table of users by what it reads.        *)
(*                                                                         *)
(* Abstractions.                                                           *)
(*  - One client.  It connects before anything is sent, at any time later, *)
(*    or never; sendToAll writes to those who are connected.               *)
(*  - Lines arrive whole and in order, which is what TCPChannel shows of   *)
(*    the connection when no send fails.                                   *)
(*  - A user of the table is the order; a line with the mood changes       *)
(*    nothing in the table.                                                *)
(***************************************************************************)
EXTENDS TestApp, SequencesExt

CONSTANT ChannelLimit   \* bound: lines that are sent and not yet read

ASSUME ChannelAssumption == ChannelLimit \in Nat \ {0}

VARIABLES
  connected,   \* whether there is a client: no, early (from the start), late
  channel,     \* the lines sent to it and not yet read
  users        \* the keys of PositionReader.users

clientVars == <<connected, channel, users>>
floorVars == <<vars, clientVars>>

-----------------------------------------------------------------------------
(* The application's side.                                                 *)

\* What is sent in a step reaches the channel of who is connected.
SendToAll ==
  /\ Len(channel) + Cardinality(wire') <= ChannelLimit
  /\ channel' = IF connected = "no" THEN channel ELSE channel \o SetToSeq(wire')
  /\ UNCHANGED <<connected, users>>

AppStep == AppNext /\ SendToAll

\* A step of another thread sends nothing.
AppWaits ==
  /\ wire' = {}
  /\ UNCHANGED <<trackerVars, usersTracking, bLearnBakground, area, currNonMoodFrame, present>>

\* The server's accept thread, whatever the application is doing.
Connect ==
  /\ connected = "no" /\ connected' = "late"
  /\ AppWaits /\ UNCHANGED <<channel, users>>

-----------------------------------------------------------------------------
(* The client's side: parsetxt, for one line.                              *)

\* Mutant of Heeded: also a coordinate of 1.0 is taken for no position.
HeededWithin(line) == line.code # "MOOD" /\ line.x \in {"middle", "nan"}

\* A line about a user is taken for noise when a coordinate is 0.0.
Heeded(line) == line.code # "MOOD" /\ line.x # "zero"

\* Mutant of ReadLine: LEFT does not remove (as in the meditation applet).
ReadLineKeeps ==
  /\ channel # << >>
  /\ users' = IF Heeded(Head(channel)) THEN users \cup {Head(channel).order} ELSE users
  /\ channel' = Tail(channel)
  /\ AppWaits /\ UNCHANGED connected

ReadLine ==
  /\ channel # << >>
  /\ users' = IF Heeded(Head(channel)) THEN Applied(users, Head(channel)) ELSE users
  /\ channel' = Tail(channel)
  /\ AppWaits /\ UNCHANGED connected

-----------------------------------------------------------------------------
FloorInit == AppInit /\ connected \in {"no", "early"} /\ channel = << >> /\ users = {}

FloorNext == AppStep \/ Connect \/ ReadLine

FloorSpec == FloorInit /\ [][FloorNext]_floorVars

\* The camera delivers frames, a call of the tracker returns, and the reader
\* thread reads a line every 50 ms.
FairFloorSpec ==
  /\ FloorSpec
  /\ WF_floorVars(NextFrame /\ SendToAll)
  /\ WF_floorVars(HandleEvent /\ SendToAll)
  /\ WF_floorVars(ReadLine)

-----------------------------------------------------------------------------
(* Correctness.                                                            *)

\* Whether a line after the k-th of the channel makes user u leave.
LeavesAfter(u, k) ==
  \E j \in DOMAIN channel : j > k /\ channel[j].code = "LEFT" /\ channel[j].order = u

\* The users the table will hold when everything sent has been read.
WillShow ==
  {u \in users : ~LeavesAfter(u, 0)} \cup
  {channel[k].order : k \in {j \in DOMAIN channel :
     channel[j].code \in {"JOINED", "MOVED"} /\ ~LeavesAfter(channel[j].order, j)}}

\* Nobody is shown for ever: who is not there any more by the messages is not
\* shown either, at the latest when they have been read.
NobodyStays == WillShow \subseteq present

\* A client connected from the start shows exactly those who are there by the
\* messages; one that came later knows only who has moved since.
ScreenShowsPresent == NobodyStays /\ (connected = "early" => WillShow = present)

\* When the floor is empty, and stays so, in the end the screen is empty too.
ScreenClears == <>[](SeenIn(blobs) = {}) => <>[](users = {})

=============================================================================
