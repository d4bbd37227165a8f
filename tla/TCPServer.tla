----------------------------- MODULE TCPServer ------------------------------
(***************************************************************************)
(* ofxTCPServer and the ofxThread it is: the accept thread fills the slots *)
(* of TCPConnections and counts them, without a lock, while the main       *)
(* thread broadcasts, receives, disconnects and closes.                    *)
(*                                                                         *)
(* External: the peers, who connect and leave as they please, and the      *)
(* listening socket.  An accept may fail at any time; one that is blocked  *)
(* when the socket is closed may also return one more peer or stay so.     *)
(*                                                                         *)
(* Abstractions.                                                           *)
(*  - Each access of count or of a slot that the other thread may see is a *)
(*    step of its own.                                                     *)
(*  - Bytes are the matter of TCPChannel: a slot is sent to, or not.       *)
(*  - One life of the server: setup succeeds once, as testApp calls it,    *)
(*    and close is not followed by another setup.                          *)
(***************************************************************************)
EXTENDS Integers, FiniteSets

CONSTANTS
  Peer,              \* the clients of other machines
  None,              \* no peer
  TCP_MAX_CLIENTS    \* 32 in the program

ASSUME ServerAssumption ==
  /\ TCP_MAX_CLIENTS \in Nat \ {0}
  /\ None \notin Peer

Index == 0 .. TCP_MAX_CLIENTS - 1

VARIABLES
  peer,            \* each peer: away, waiting to be accepted, in, or gone
  socket,          \* the server's own: none, created but not bound, or bound
  connected,       \* ofxTCPServer::connected
  threadRunning,   \* ofxThread::threadRunning
  count,           \* how many slots are in use
  TCPConnections,  \* the slots: whose socket, and index and connected of ofxTCPClient
  accepting,       \* the accept thread: where it is in threadedFunction
  main,            \* the main thread: the call it is in
  next,            \* main: the i of its loop over the slots
  audience,        \* history: the peers connected when the broadcast began
  heard            \* history: the peers the broadcast was sent to

flags == <<socket, connected, threadRunning>>
slots == <<count, TCPConnections>>
loop == <<main, next, audience, heard>>
serverVars == <<peer, flags, slots, accepting, loop>>

\* An ofxTCPClient, which owns a peer's socket after Accept, and is itself
\* connected, with its index, after its setup.
Client == [peer : Peer \cup {None}, index : Index \cup {-1}, connected : BOOLEAN]

NoClient == [peer |-> None, index |-> -1, connected |-> FALSE]

-----------------------------------------------------------------------------
(* Peers.                                                                  *)

PeerConnects(p) ==
  /\ peer[p] = "away"
  /\ socket = "bound" \/ accepting = "accept"
  /\ peer' = [peer EXCEPT ![p] = "waiting"]
  /\ UNCHANGED <<flags, slots, accepting, loop>>

PeerLeaves(p) ==
  /\ peer[p] = "in"
  /\ peer' = [peer EXCEPT ![p] = "gone"]
  /\ UNCHANGED <<flags, slots, accepting, loop>>

-----------------------------------------------------------------------------
(* The accept thread, ofxTCPServer::threadedFunction.                      *)

\* Mutant of CheckRunning: the thread leaves it to the closed socket to stop it.
CheckRunningNot ==
  /\ accepting = "check"
  /\ accepting' = "full"
  /\ UNCHANGED <<peer, flags, slots, loop>>

\* while( isThreadRunning() )
CheckRunning ==
  /\ accepting = "check"
  /\ accepting' = IF threadRunning THEN "full" ELSE "ended"
  /\ UNCHANGED <<peer, flags, slots, loop>>

\* Mutant of CheckFull: count is not compared.
CheckFullNever ==
  /\ accepting = "full"
  /\ accepting' = IF socket = "bound" THEN "accept" ELSE "check"
  /\ UNCHANGED <<peer, flags, slots, loop>>

\* The thread ends for good when count has reached the maximum; else it
\* listens, and enters Accept if the socket is open.
CheckFull ==
  /\ accepting = "full"
  /\ accepting' = CASE count = TCP_MAX_CLIENTS -> "reached max"
                    [] count # TCP_MAX_CLIENTS /\ socket = "bound" -> "accept"
                    [] OTHER -> "check"
  /\ UNCHANGED <<peer, flags, slots, loop>>

\* Accept gives the slot at count its socket.
Accept(p) ==
  /\ accepting = "accept" /\ peer[p] = "waiting"
  /\ peer' = [peer EXCEPT ![p] = "in"]
  /\ TCPConnections' = [TCPConnections EXCEPT ![count].peer = p]
  /\ accepting' = "setup"
  /\ UNCHANGED <<flags, count, loop>>

\* accept fails, for the moment or because the socket was closed under it: the
\* slot has no peer's socket, and the thread goes round again.
AcceptFails ==
  /\ accepting = "accept"
  /\ accepting' = "check"
  /\ UNCHANGED <<peer, flags, slots, loop>>

\* Mutant of SetupClient: the slot is counted before its client is set up.
SetupClientCounted ==
  /\ \/ /\ accepting = "setup" /\ accepting' = "counted"
        /\ count' = count + 1
        /\ UNCHANGED TCPConnections
     \/ /\ accepting = "counted" /\ accepting' = "check"
        /\ TCPConnections' = [TCPConnections EXCEPT ![count - 1].index = count - 1,
                                                   ![count - 1].connected = TRUE]
        /\ UNCHANGED count
  /\ UNCHANGED <<peer, flags, loop>>

SetupClient ==
  /\ accepting = "setup"
  /\ TCPConnections' = [TCPConnections EXCEPT ![count].index = count, ![count].connected = TRUE]
  /\ accepting' = "count"
  /\ UNCHANGED <<peer, flags, count, loop>>

\* count++, and a line of log that looks at the slot after the new one.
CountClient ==
  /\ accepting = "count"
  /\ count' = count + 1
  /\ accepting' = "check"
  /\ UNCHANGED <<peer, flags, TCPConnections, loop>>

AcceptThread ==
  \/ CheckRunning \/ CheckFull \/ SetupClient \/ CountClient
  \/ \E p \in Peer : Accept(p)

-----------------------------------------------------------------------------
(* The main thread: setup, with ofxThread::startThread.                    *)

\* After a failure of Bind the socket is not closed, and Create refuses ever
\* after to make another.
Setup ==
  /\ main = "ready" /\ socket = "none" /\ accepting = "idle"
  /\ \/ /\ socket' = "created"
        /\ UNCHANGED <<connected, main>>
     \/ /\ socket' = "bound"
        /\ connected' = TRUE
        /\ main' = "starting"
  /\ UNCHANGED <<peer, threadRunning, slots, accepting, next, audience, heard>>

\* Mutant of StartThread: the thread is created before the flag is set.
StartThreadFirst ==
  /\ \/ /\ main = "starting" /\ accepting' = "check" /\ main' = "marked"
        /\ UNCHANGED threadRunning
     \/ /\ main = "marked" /\ threadRunning' = TRUE /\ main' = "ready"
        /\ UNCHANGED accepting
  /\ UNCHANGED <<peer, socket, connected, slots, next, audience, heard>>

\* "have to put this here because the thread can be running before the call
\* to create it returns".
StartThread ==
  /\ \/ /\ main = "starting" /\ threadRunning' = TRUE /\ main' = "marked"
        /\ UNCHANGED accepting
     \/ /\ main = "marked" /\ accepting' = "check" /\ main' = "ready"
        /\ UNCHANGED threadRunning
  /\ UNCHANGED <<peer, socket, connected, slots, next, audience, heard>>

-----------------------------------------------------------------------------
(* The main thread: one message to all, requests of all, disconnections.   *)

ConnectedPeers == {TCPConnections[i].peer : i \in {j \in 0 .. count - 1 : TCPConnections[j].connected}}

\* sendToAll returns at once when there is no client.
SendToAll ==
  /\ main = "ready" /\ count # 0
  /\ main' = "sending" /\ next' = 0
  /\ audience' = ConnectedPeers /\ heard' = {}
  /\ UNCHANGED <<peer, flags, slots, accepting>>

\* Mutant of SendNext: the loop ends at a client that has left.
SendNextStops ==
  /\ main = "sending" /\ next < count
  /\ IF TCPConnections[next].connected
     THEN next' = next + 1 /\ heard' = heard \cup {TCPConnections[next].peer}
     ELSE next' = count /\ UNCHANGED heard
  /\ UNCHANGED <<peer, flags, slots, accepting, main, audience>>

SendNext ==
  /\ main = "sending" /\ next < count
  /\ next' = next + 1
  /\ heard' = IF TCPConnections[next].connected
              THEN heard \cup {TCPConnections[next].peer} ELSE heard
  /\ UNCHANGED <<peer, flags, slots, accepting, main, audience>>

\* The loop of testApp::update over the clients.
ReceiveAll ==
  /\ main = "ready" /\ socket = "bound"
  /\ main' = "receiving" /\ next' = 0
  /\ UNCHANGED <<peer, flags, slots, accepting, audience, heard>>

\* ofxTCPClient::close, of the slot i.
CloseSlot(i) == TCPConnections' = [TCPConnections EXCEPT ![i].connected = FALSE]

\* Mutant of ReceiveNext: the slot of a client that has left is not counted.
ReceiveNextCountsDown ==
  /\ main = "receiving" /\ next < count
  /\ next' = next + 1
  /\ IF TCPConnections[next].connected /\ peer[TCPConnections[next].peer] = "gone"
     THEN CloseSlot(next) /\ count' = count - 1
     ELSE UNCHANGED slots
  /\ UNCHANGED <<peer, flags, accepting, main, audience, heard>>

\* Mutant of ReceiveNext: nothing is closed.
ReceiveNextKeeps ==
  /\ main = "receiving" /\ next < count
  /\ next' = next + 1
  /\ UNCHANGED <<peer, flags, slots, accepting, main, audience, heard>>

\* receive closes the slot of a peer who has left.
ReceiveNext ==
  /\ main = "receiving" /\ next < count
  /\ next' = next + 1
  /\ IF TCPConnections[next].connected /\ peer[TCPConnections[next].peer] = "gone"
     THEN CloseSlot(next) /\ UNCHANGED count
     ELSE UNCHANGED slots
  /\ UNCHANGED <<peer, flags, accepting, main, audience, heard>>

LoopEnds ==
  /\ main \in {"sending", "receiving"} /\ next >= count
  /\ main' = "ready"
  /\ UNCHANGED <<peer, flags, slots, accepting, next, audience, heard>>

DisconnectClient(i) ==
  /\ main = "ready" /\ i < count /\ TCPConnections[i].connected
  /\ CloseSlot(i)
  /\ UNCHANGED <<peer, flags, count, accepting, loop>>

-----------------------------------------------------------------------------
(* The main thread: close, with ofxThread::stopThread.                     *)

Close ==
  /\ main = "ready" /\ connected
  /\ main' = "closing" /\ next' = 0
  /\ UNCHANGED <<peer, flags, slots, accepting, audience, heard>>

CloseNext ==
  /\ main = "closing" /\ next < count
  /\ CloseSlot(next)
  /\ next' = next + 1
  /\ UNCHANGED <<peer, flags, count, accepting, main, audience, heard>>

\* The thread is detached and asked to end, not waited for.
StopThread ==
  /\ main = "closing" /\ next >= count
  /\ threadRunning' = FALSE
  /\ main' = "stopped"
  /\ UNCHANGED <<peer, socket, connected, slots, accepting, next, audience, heard>>

CloseSocket ==
  /\ main = "stopped"
  /\ socket' = "none" /\ connected' = FALSE
  /\ main' = "closed"
  /\ UNCHANGED <<peer, threadRunning, slots, accepting, next, audience, heard>>

InCall == StartThread \/ SendNext \/ ReceiveNext \/ LoopEnds \/ CloseNext \/ StopThread \/ CloseSocket

MainThread ==
  \/ Setup \/ SendToAll \/ ReceiveAll \/ Close \/ InCall
  \/ \E i \in Index : DisconnectClient(i)

-----------------------------------------------------------------------------
Init ==
  /\ peer = [p \in Peer |-> "away"]
  /\ socket = "none" /\ connected = FALSE /\ threadRunning = FALSE
  /\ count = 0 /\ TCPConnections = [i \in Index |-> NoClient]
  /\ accepting = "idle"
  /\ main = "ready" /\ next = 0 /\ audience = {} /\ heard = {}

Next ==
  \/ AcceptThread \/ AcceptFails \/ MainThread
  \/ \E p \in Peer : PeerConnects(p) \/ PeerLeaves(p)

Spec == Init /\ [][Next]_serverVars

\* Neither thread stops inside a call, but a blocked accept need not fail, and it
\* does not fail for ever while a peer waits; update comes to its loop over the
\* clients again and again.
FairSpec ==
  /\ Spec
  /\ WF_serverVars(AcceptThread) /\ SF_serverVars(\E p \in Peer : Accept(p))
  /\ WF_serverVars(InCall) /\ SF_serverVars(ReceiveAll)

-----------------------------------------------------------------------------
(* Properties.                                                             *)

ControlOK ==
  /\ peer \in [Peer -> {"away", "waiting", "in", "gone"}]
  /\ socket \in {"none", "created", "bound"}
  /\ connected \in BOOLEAN /\ threadRunning \in BOOLEAN
  /\ accepting \in {"idle", "check", "full", "accept", "setup", "count", "ended", "reached max"}
  /\ main \in {"ready", "starting", "marked", "sending", "receiving", "closing", "stopped", "closed"}

\* The thread that accepts has a slot to accept into.
SlotsOK ==
  /\ count \in 0 .. TCP_MAX_CLIENTS
  /\ TCPConnections \in [Index -> Client]
  /\ next \in 0 .. TCP_MAX_CLIENTS
  /\ audience \in SUBSET Peer /\ heard \in SUBSET Peer
  /\ accepting \in {"accept", "setup", "count"} => count < TCP_MAX_CLIENTS

\* The server is type correct, and never accepts beyond its array of clients.
ServerTypeOK == ControlOK /\ SlotsOK

\* Without a lock, the main thread never comes to a slot whose client is still
\* being accepted or set up: count is the last thing to change.
SetUpBelowCount == \A i \in Index : i < count => TCPConnections[i].index = i

\* No client is accepted into the slot of one who is still connected.
PeersKeepSlots ==
  [][\A i \in Index : TCPConnections[i].connected =>
       TCPConnections'[i].peer = TCPConnections[i].peer]_serverVars

\* A broadcast reaches every client who was connected when it began, whoever
\* has left before or is accepted meanwhile.
BroadcastReachesAll == main = "sending" /\ next >= count => audience \subseteq heard

\* close waits for no thread, but it leaves no more than one client connected:
\* the peer the accept thread has in hand, or is still given, when it is stopped.
CloseLeavesOne ==
  main \in {"stopped", "closed"} =>
    \A i, k \in Index : TCPConnections[i].connected /\ TCPConnections[k].connected => i = k

\* A peer who connects is accepted in the end, unless the server has reached
\* its maximum or is closed.
WaitingIsAccepted ==
  \A p \in Peer : peer[p] = "waiting" ~>
    peer[p] # "waiting" \/ accepting = "reached max" \/ main \in {"closing", "stopped", "closed"}

\* The slot of a client who leaves is closed in the end, so that nothing more
\* is sent to it, as long as the server is open.
GoneIsClosed ==
  \A i \in Index :
    (i < count /\ TCPConnections[i].peer # None /\ peer[TCPConnections[i].peer] = "gone")
      ~> (~TCPConnections[i].connected \/ main \in {"stopped", "closed"})

\* "reached max connected clients!": the thread gives up accepting only when
\* all its slots are connected.
FullMeansConnected ==
  accepting = "reached max" => \A i \in Index : TCPConnections[i].connected

=============================================================================
