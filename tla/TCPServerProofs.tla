-------------------------- MODULE TCPServerProofs ---------------------------
(***************************************************************************)
(* The two threads of ofxTCPServer, which share count and TCPConnections   *)
(* without a lock, do each other no harm: for any peers and any number of  *)
(* slots.  The order of the accept thread's writes is what makes it so:    *)
(* the slot first, count last.                                             *)
(***************************************************************************)
EXTENDS TCPServer, TLAPS

\* The slot at count is set up when the accept thread comes to count it.
SetUpAtCount == accepting = "count" => TCPConnections[count].index = count

\* Who is connected has been counted, or is about to be.
ConnectedIsCounted ==
  \A i \in Index : TCPConnections[i].connected => i < count \/ (i = count /\ accepting = "count")

\* Who was there when the broadcast began has heard it, or is still ahead.
AudienceAhead ==
  main = "sending" =>
    \A p \in audience : p \in heard
      \/ \E i \in Index : next <= i /\ i < count /\ TCPConnections[i].connected /\ TCPConnections[i].peer = p

\* A slot that is connected, or about to be, belongs to a peer.
SlotsHavePeers ==
  /\ \A i \in Index : TCPConnections[i].connected => TCPConnections[i].peer \in Peer
  /\ accepting = "setup" => TCPConnections[count].peer \in Peer

\* The thread is idle until startThread has made it.
IdleAtStart == main \in {"starting", "marked"} => accepting = "idle"

IInv ==
  /\ SlotsOK /\ IdleAtStart
  /\ SetUpBelowCount /\ SetUpAtCount
  /\ ConnectedIsCounted /\ SlotsHavePeers /\ AudienceAhead

USE ServerAssumption DEF ServerAssumption

LEMMA InitInv == Init => IInv
<1> SUFFICES ASSUME Init PROVE IInv
  OBVIOUS
<1>1. NoClient \in Client
      /\ ~NoClient.connected
  BY DEF NoClient, Client
<1>2. TCPConnections \in [Index -> Client]
      /\ \A i \in Index : ~TCPConnections[i].connected
  BY <1>1 DEF Init
<1>4. SlotsOK
  BY <1>2 DEF Init, SlotsOK
<1> QED BY <1>2, <1>4 DEF Init, IInv, IdleAtStart, SetUpBelowCount, SetUpAtCount,
                          ConnectedIsCounted, SlotsHavePeers, AudienceAhead, Index

\* Steps that leave the slots and count alone, and the loop but for its end.
LEMMA QuietSteps ==
  ASSUME IInv, UNCHANGED <<slots, audience, heard, next>>, SlotsOK',
         main' = "sending" => main = "sending", accepting' = "count" => accepting = "count",
         accepting = "count" => accepting' = "count", IdleAtStart',
         accepting' = "setup" => accepting = "setup"
  PROVE  IInv'
BY DEF IInv, SlotsHavePeers, SetUpBelowCount, SetUpAtCount, ConnectedIsCounted, AudienceAhead, slots, Index

LEMMA PeerSteps ==
  ASSUME IInv, NEW p \in Peer, PeerConnects(p) \/ PeerLeaves(p)
  PROVE  IInv'
<1>1. SlotsOK'
  BY DEF IInv, SlotsOK, PeerConnects, PeerLeaves, flags, slots, loop
<1> QED BY <1>1, QuietSteps DEF IInv, IdleAtStart, PeerConnects, PeerLeaves, flags, slots, loop

LEMMA ThreadChecks ==
  ASSUME IInv, CheckRunning \/ CheckFull \/ AcceptFails
  PROVE  IInv'
<1>1. /\ accepting' \in {"check", "full", "accept", "ended", "reached max"}
      /\ accepting' = "accept" => count # TCP_MAX_CLIENTS
      /\ accepting \in {"check", "full", "accept"}
      /\ UNCHANGED <<peer, flags, slots, loop>>
  BY DEF CheckRunning, CheckFull, AcceptFails
<1>2. SlotsOK'
  <2>1. count \in 0 .. TCP_MAX_CLIENTS
    BY DEF IInv, SlotsOK
  <2>2. accepting' \in {"accept", "setup", "count"} => count < TCP_MAX_CLIENTS
    <3>1. CASE accepting' = "accept"
      BY <1>1, <2>1, <3>1
    <3> QED BY <1>1, <3>1
  <2>3. UNCHANGED <<count, TCPConnections, next, audience, heard>>
    BY <1>1 DEF slots, loop
  <2> QED BY <2>2, <2>3 DEF IInv, SlotsOK
<1>3. IdleAtStart'
  BY <1>1 DEF IInv, IdleAtStart, loop
<1> QED BY <1>1, <1>2, <1>3, QuietSteps DEF flags, slots, loop

LEMMA AcceptStep ==
  ASSUME IInv, NEW p \in Peer, Accept(p)
  PROVE  IInv'
<1> USE DEF IInv, SlotsOK, IdleAtStart, Index
<1>1. count \in Index /\ count' = count /\ count # -1
  BY DEF Accept
<1>2. /\ TCPConnections' = [TCPConnections EXCEPT ![count].peer = p]
      /\ UNCHANGED <<socket, connected, threadRunning, main, next, audience, heard>>
      /\ peer' = [peer EXCEPT ![p] = "in"]
      /\ accepting = "accept" /\ accepting' = "setup"
  BY DEF Accept, flags, loop
<1>3. SlotsOK'
  <2>1. TCPConnections' \in [Index -> Client]
    BY <1>1, <1>2 DEF Client
  <2> QED BY <1>1, <1>2, <2>1
<1>4. \A i \in Index : /\ TCPConnections'[i].index = TCPConnections[i].index
                       /\ TCPConnections'[i].connected = TCPConnections[i].connected
                       /\ i # count => TCPConnections'[i].peer = TCPConnections[i].peer
                       /\ i = count => TCPConnections'[i].peer = p
  BY <1>1, <1>2 DEF Client
<1>5. SetUpBelowCount' /\ SetUpAtCount'
  BY <1>1, <1>2, <1>4 DEF SetUpBelowCount, SetUpAtCount
<1>6. ConnectedIsCounted' /\ SlotsHavePeers'
  BY <1>1, <1>2, <1>4 DEF ConnectedIsCounted, SlotsHavePeers
<1>7. AudienceAhead'
  BY <1>1, <1>2, <1>4 DEF AudienceAhead
<1> QED BY <1>2, <1>3, <1>5, <1>6, <1>7

LEMMA SetupStep ==
  ASSUME IInv, SetupClient
  PROVE  IInv'
<1> USE DEF IInv, SlotsOK, IdleAtStart, Index
<1>1. count \in Index /\ count' = count
  BY DEF SetupClient
<1>2. /\ TCPConnections' = [TCPConnections EXCEPT ![count].index = count, ![count].connected = TRUE]
      /\ UNCHANGED <<peer, socket, connected, threadRunning, main, next, audience, heard>>
      /\ accepting = "setup" /\ accepting' = "count"
  BY DEF SetupClient, flags, loop
<1>3. /\ TCPConnections'[count].index = count
      /\ TCPConnections'[count].peer = TCPConnections[count].peer
      /\ TCPConnections' \in [Index -> Client]
      /\ \A i \in Index : i # count => TCPConnections'[i] = TCPConnections[i]
  BY <1>1, <1>2 DEF Client
<1>4. SlotsOK'
  BY <1>1, <1>2, <1>3
<1>5. SetUpBelowCount' /\ SetUpAtCount'
  BY <1>1, <1>2, <1>3 DEF SetUpBelowCount, SetUpAtCount
<1>6. ConnectedIsCounted' /\ SlotsHavePeers'
  BY <1>1, <1>2, <1>3 DEF ConnectedIsCounted, SlotsHavePeers
<1>7. AudienceAhead'
  BY <1>1, <1>2, <1>3 DEF AudienceAhead
<1> QED BY <1>2, <1>4, <1>5, <1>6, <1>7

LEMMA CountStep ==
  ASSUME IInv, CountClient
  PROVE  IInv'
<1> USE DEF IInv, SlotsOK, IdleAtStart, Index
<1>1. /\ count' = count + 1 /\ count < TCP_MAX_CLIENTS
      /\ UNCHANGED <<peer, TCPConnections, socket, connected, threadRunning, main, next, audience, heard>>
      /\ accepting = "count" /\ accepting' = "check"
  BY DEF CountClient, flags, loop
<1>2. SlotsOK'
  BY <1>1
<1>3. SetUpBelowCount' /\ SetUpAtCount'
  BY <1>1 DEF SetUpBelowCount, SetUpAtCount
<1>4. ConnectedIsCounted' /\ SlotsHavePeers' /\ AudienceAhead'
  BY <1>1 DEF ConnectedIsCounted, SlotsHavePeers, AudienceAhead
<1> QED BY <1>1, <1>2, <1>3, <1>4

\* Calls of the main thread that write no slot.
LEMMA MainCalls ==
  ASSUME IInv,
         Setup \/ StartThread \/ ReceiveAll \/ LoopEnds \/ Close \/ StopThread \/ CloseSocket
  PROVE  IInv'
<1>1. /\ main' # "sending" /\ IdleAtStart'
      /\ accepting' = accepting \/ (accepting' = "check" /\ accepting = "idle")
      /\ UNCHANGED <<count, TCPConnections, audience, heard>>
  <2>1. CASE Setup
    BY <2>1 DEF Setup, slots, IdleAtStart
  <2>2. CASE StartThread
    BY <2>2 DEF IInv, IdleAtStart, StartThread, slots
  <2>3. CASE ReceiveAll \/ LoopEnds \/ Close \/ StopThread \/ CloseSocket
    BY <2>3 DEF ReceiveAll, LoopEnds, Close, StopThread, CloseSocket, flags, slots, IdleAtStart
  <2> QED BY <2>1, <2>2, <2>3
<1>2. SlotsOK'
  <2>1. CASE Setup
    BY <2>1 DEF IInv, SlotsOK, Setup, slots
  <2>2. CASE StartThread
    BY <2>2 DEF IInv, SlotsOK, StartThread, slots
  <2>3. CASE ReceiveAll \/ LoopEnds \/ Close
    BY <2>3 DEF IInv, SlotsOK, ReceiveAll, LoopEnds, Close, flags, slots
  <2>4. CASE StopThread \/ CloseSocket
    BY <2>4 DEF IInv, SlotsOK, StopThread, CloseSocket, flags, slots
  <2> QED BY <2>1, <2>2, <2>3, <2>4
<1> QED BY <1>1, <1>2 DEF IInv, SlotsHavePeers, SetUpBelowCount, SetUpAtCount,
                          ConnectedIsCounted, AudienceAhead

LEMMA BroadcastSteps ==
  ASSUME IInv, SendToAll \/ SendNext
  PROVE  IInv'
<1> USE DEF IInv, SlotsOK, Index
<1>1. CASE SendToAll
  <2>1. /\ main' = "sending" /\ next' = 0 /\ audience' = ConnectedPeers /\ heard' = {}
        /\ UNCHANGED <<peer, socket, connected, threadRunning, count, TCPConnections, accepting>>
    BY <1>1 DEF SendToAll, flags, slots
  <2>2. ASSUME NEW p \in ConnectedPeers
        PROVE  \E i \in Index : 0 <= i /\ i < count /\ TCPConnections[i].connected
                                 /\ TCPConnections[i].peer = p
    <3>1. PICK i \in 0 .. count - 1 : TCPConnections[i].connected /\ TCPConnections[i].peer = p
      BY DEF ConnectedPeers
    <3> QED BY <3>1
  <2>3. ConnectedPeers \subseteq Peer
    <3>1. \A i \in Index : TCPConnections[i].connected => TCPConnections[i].peer \in Peer
      BY DEF SlotsHavePeers
    <3> QED BY <2>2, <3>1, Zenon
  <2>4. SlotsOK'
    BY <2>1, <2>3
  <2>5. AudienceAhead'
    BY <2>1, <2>2 DEF AudienceAhead
  <2> QED BY <2>1, <2>4, <2>5 DEF IdleAtStart, SlotsHavePeers, SetUpBelowCount, SetUpAtCount,
                                    ConnectedIsCounted
<1>2. CASE SendNext
  <2>1. /\ main = "sending" /\ main' = "sending" /\ next < count /\ next' = next + 1 /\ audience' = audience
        /\ heard' = IF TCPConnections[next].connected
                    THEN heard \cup {TCPConnections[next].peer} ELSE heard
        /\ UNCHANGED <<peer, socket, connected, threadRunning, count, TCPConnections, accepting>>
    BY <1>2 DEF SendNext, flags, slots
  <2>2. TCPConnections[next].connected => TCPConnections[next].peer \in Peer
    BY <2>1 DEF SlotsHavePeers
  <2>3. SlotsOK'
    BY <2>1, <2>2
  <2>4. AudienceAhead'
    <3>1. ASSUME NEW p \in audience, NEW i \in Index, next <= i, i < count,
                 TCPConnections[i].connected, TCPConnections[i].peer = p
          PROVE  p \in heard' \/ next + 1 <= i
      BY <2>1, <3>1
    <3> QED BY <2>1, <3>1 DEF AudienceAhead
  <2> QED BY <2>1, <2>3, <2>4 DEF IdleAtStart, SlotsHavePeers, SetUpBelowCount, SetUpAtCount,
                                    ConnectedIsCounted
<1> QED BY <1>1, <1>2

LEMMA CloseSlotChanges ==
  ASSUME TCPConnections \in [Index -> Client], NEW k \in Index, CloseSlot(k)
  PROVE  /\ TCPConnections' \in [Index -> Client]
         /\ \A i \in Index : /\ TCPConnections'[i].index = TCPConnections[i].index
                             /\ TCPConnections'[i].peer = TCPConnections[i].peer
                             /\ TCPConnections'[i].connected => TCPConnections[i].connected
<1>1. TCPConnections' = [TCPConnections EXCEPT ![k].connected = FALSE]
  BY DEF CloseSlot
<1>2. ASSUME NEW i \in Index
      PROVE  /\ TCPConnections'[i] \in Client
             /\ TCPConnections'[i].index = TCPConnections[i].index
             /\ TCPConnections'[i].peer = TCPConnections[i].peer
             /\ TCPConnections'[i].connected => TCPConnections[i].connected
  BY <1>1 DEF Client
<1>3. DOMAIN TCPConnections' = Index
  BY <1>1
<1> QED BY <1>1, <1>2, <1>3

\* Steps of the main thread that close a slot.
LEMMA CloseSteps ==
  ASSUME IInv, ReceiveNext \/ CloseNext \/ (\E i \in Index : DisconnectClient(i))
  PROVE  IInv'
<1> USE DEF IInv, SlotsOK, Index
<1>1. /\ next' \in 0 .. TCP_MAX_CLIENTS /\ main' = main /\ main # "sending"
      /\ UNCHANGED <<peer, socket, connected, threadRunning, count, accepting, audience, heard>>
      /\ TCPConnections' = TCPConnections \/ \E i \in Index : CloseSlot(i)
  <2>1. CASE ReceiveNext
    BY <2>1 DEF ReceiveNext, flags, slots
  <2>2. CASE CloseNext
    BY <2>2 DEF CloseNext, flags
  <2>3. CASE \E i \in Index : DisconnectClient(i)
    BY <2>3 DEF DisconnectClient, flags, loop
  <2> QED BY <2>1, <2>2, <2>3
<1>2. /\ TCPConnections' \in [Index -> Client]
      /\ \A i \in Index : /\ TCPConnections'[i].index = TCPConnections[i].index
                          /\ TCPConnections'[i].peer = TCPConnections[i].peer
                          /\ TCPConnections'[i].connected => TCPConnections[i].connected
  BY <1>1, CloseSlotChanges
<1>3. SlotsOK'
  BY <1>1, <1>2
<1>4. SetUpBelowCount' /\ SetUpAtCount'
  BY <1>1, <1>2 DEF SetUpBelowCount, SetUpAtCount
<1>5. ConnectedIsCounted' /\ SlotsHavePeers'
  BY <1>1, <1>2 DEF ConnectedIsCounted, SlotsHavePeers
<1> QED BY <1>1, <1>3, <1>4, <1>5 DEF AudienceAhead, IdleAtStart

LEMMA NextInv == IInv /\ [Next]_serverVars => IInv'
<1> SUFFICES ASSUME IInv, [Next]_serverVars PROVE IInv'
  OBVIOUS
<1>1. CASE UNCHANGED serverVars
  BY <1>1 DEF serverVars, flags, slots, loop, IInv, SlotsOK, IdleAtStart, SlotsHavePeers,
              SetUpBelowCount, SetUpAtCount, ConnectedIsCounted, AudienceAhead
<1>2. CASE AcceptThread \/ AcceptFails
  BY <1>2, ThreadChecks, AcceptStep, SetupStep, CountStep DEF AcceptThread
<1>3. CASE MainThread
  BY <1>3, MainCalls, BroadcastSteps, CloseSteps DEF MainThread, InCall
<1>4. CASE \E p \in Peer : PeerConnects(p) \/ PeerLeaves(p)
  BY <1>4, PeerSteps
<1> QED BY <1>1, <1>2, <1>3, <1>4 DEF Next

LEMMA Invariant == Spec => []IInv
<1>1. Init => IInv
  BY InitInv
<1>2. IInv /\ [Next]_serverVars => IInv'
  BY NextInv
<1> QED BY <1>1, <1>2, PTL DEF Spec

LEMMA ControlCorrect == Spec => []ControlOK
<1>1. Init => ControlOK
  BY Zenon DEF Init, ControlOK
<1>2. ControlOK /\ [Next]_serverVars => ControlOK'
  <2> SUFFICES ASSUME ControlOK, [Next]_serverVars PROVE ControlOK'
    OBVIOUS
  <2>1. CASE UNCHANGED <<peer, flags, accepting, main>>
    BY <2>1, Zenon DEF ControlOK, flags
  <2>2. CASE CheckRunning \/ CheckFull
    BY <2>2, Zenon DEF ControlOK, flags, loop, CheckRunning, CheckFull
  <2>3. CASE AcceptFails \/ SetupClient \/ CountClient
    BY <2>3, Zenon DEF ControlOK, flags, loop, AcceptFails, SetupClient, CountClient
  <2>4. ASSUME NEW p \in Peer, Accept(p) \/ PeerConnects(p) \/ PeerLeaves(p)
        PROVE  ControlOK'
    <3>1. peer' \in [Peer -> {"away", "waiting", "in", "gone"}]
      BY <2>4 DEF ControlOK, Accept, PeerConnects, PeerLeaves
    <3> QED BY <2>4, <3>1, Zenon DEF ControlOK, flags, loop, Accept, PeerConnects, PeerLeaves
  <2>5. CASE Setup \/ StartThread
    BY <2>5, Zenon DEF ControlOK, Setup, StartThread
  <2>6. CASE SendToAll \/ ReceiveAll \/ LoopEnds \/ Close
    BY <2>6, Zenon DEF ControlOK, flags, SendToAll, ReceiveAll, LoopEnds, Close
  <2>7. CASE StopThread \/ CloseSocket
    BY <2>7, Zenon DEF ControlOK, StopThread, CloseSocket
  <2>8. CASE SendNext \/ ReceiveNext \/ CloseNext \/ (\E i \in Index : DisconnectClient(i))
    BY <2>1, <2>8 DEF flags, loop, SendNext, ReceiveNext, CloseNext, DisconnectClient
  <2>9. CASE UNCHANGED serverVars
    BY <2>1, <2>9 DEF serverVars, loop
  <2> QED
    BY <2>2, <2>3, <2>4, <2>5, <2>6, <2>7, <2>8, <2>9 DEF Next, AcceptThread, MainThread, InCall
<1> QED BY <1>1, <1>2, PTL DEF Spec

\* The server is type correct; the accept thread always has a free slot to
\* accept into.
THEOREM ServerTypeCorrect == Spec => []ServerTypeOK
<1>1. IInv /\ ControlOK => ServerTypeOK
  BY DEF IInv, ServerTypeOK
<1> QED BY <1>1, Invariant, ControlCorrect, PTL

\* Every slot below count is set up.
THEOREM SetUpCorrect == Spec => []SetUpBelowCount
<1>1. IInv => SetUpBelowCount
  BY DEF IInv
<1> QED BY <1>1, Invariant, PTL

\* A broadcast reaches everybody who was there when it began.
THEOREM BroadcastCorrect == Spec => []BroadcastReachesAll
<1>1. IInv => BroadcastReachesAll
  BY DEF IInv, SlotsOK, AudienceAhead, BroadcastReachesAll, Index
<1> QED BY <1>1, Invariant, PTL

\* The slot of a connected client is never given away.
THEOREM SlotsCorrect == Spec => PeersKeepSlots
<1> DEFINE Keeps == \A i \in Index : TCPConnections[i].connected =>
                      TCPConnections'[i].peer = TCPConnections[i].peer
<1>1. IInv /\ [Next]_serverVars => [Keeps]_serverVars
  <2> SUFFICES ASSUME IInv, Next PROVE Keeps
    OBVIOUS
  <2>1. CASE \E p \in Peer : Accept(p)
    BY <2>1 DEF Accept, IInv, SlotsOK, ConnectedIsCounted, Index
  <2>2. CASE SetupClient
    BY <2>2 DEF SetupClient, IInv, SlotsOK, Index
  <2>3. CASE ReceiveNext \/ CloseNext \/ (\E i \in Index : DisconnectClient(i))
    <3>1. TCPConnections' = TCPConnections \/ \E i \in Index : CloseSlot(i)
      BY <2>3 DEF ReceiveNext, CloseNext, DisconnectClient, slots, IInv, SlotsOK, Index
    <3> QED BY <3>1, CloseSlotChanges DEF IInv, SlotsOK
  <2>4. CASE TCPConnections' = TCPConnections
    BY <2>4
  <2>5. CASE CheckRunning \/ CheckFull \/ CountClient \/ AcceptFails
    BY <2>4, <2>5 DEF CheckRunning, CheckFull, CountClient, AcceptFails, slots
  <2>6. CASE Setup \/ StartThread \/ SendToAll \/ SendNext \/ ReceiveAll \/ LoopEnds
             \/ Close \/ StopThread \/ CloseSocket
    BY <2>4, <2>6 DEF Setup, StartThread, SendToAll, SendNext, ReceiveAll, LoopEnds, Close,
                      StopThread, CloseSocket, slots
  <2>7. CASE \E p \in Peer : PeerConnects(p) \/ PeerLeaves(p)
    BY <2>4, <2>7 DEF PeerConnects, PeerLeaves, slots
  <2> QED BY <2>1, <2>2, <2>3, <2>5, <2>6, <2>7 DEF Next, AcceptThread, MainThread, InCall
<1> QED BY <1>1, Invariant, PTL DEF Spec, PeersKeepSlots

-----------------------------------------------------------------------------
(* close.                                                                  *)

\* The slots the loop of close has passed stay closed.
ClosedSoFar ==
  main = "closing" => next <= count /\ \A i \in Index : i < next => ~TCPConnections[i].connected

\* After close the thread is not to run.  Whom it still accepts it accepts into a
\* server without another client, and then it looks at the flag and ends.
StoppedOK ==
  main \in {"stopped", "closed"} =>
    /\ ~threadRunning
    /\ accepting = "count" =>
         \A i \in Index : TCPConnections[i].connected => i = count
    /\ accepting \notin {"count", "check", "ended"} =>
         \A i \in Index : ~TCPConnections[i].connected

CloseInv == ClosedSoFar /\ StoppedOK /\ CloseLeavesOne

\* Steps of the peers and of the main thread that change no slot.
LEMMA CloseInvQuiet ==
  ASSUME IInv, CloseInv, UNCHANGED <<slots, accepting>>,
         \/ main' = main /\ UNCHANGED <<next, threadRunning>>
         \/ main' \notin {"closing", "stopped", "closed"}
  PROVE  CloseInv'
BY DEF CloseInv, ClosedSoFar, StoppedOK, CloseLeavesOne, slots

LEMMA CloseInvThread ==
  ASSUME IInv, CloseInv, CheckRunning \/ CheckFull \/ AcceptFails
  PROVE  CloseInv'
<1>1. UNCHANGED <<main, next, threadRunning, slots>>
  BY DEF CheckRunning, CheckFull, AcceptFails, flags, loop
<1>2. ClosedSoFar' /\ CloseLeavesOne'
  BY <1>1 DEF CloseInv, ClosedSoFar, CloseLeavesOne, slots
<1>3. StoppedOK'
  <2>1. CASE CheckRunning
    BY <1>1, <2>1 DEF CloseInv, StoppedOK, CheckRunning, slots
  <2>2. CASE CheckFull \/ AcceptFails
    <3>1. /\ accepting \in {"full", "accept"}
          /\ accepting' \in {"check", "accept", "reached max"}
      BY <2>2 DEF CheckFull, AcceptFails
    <3> QED BY <1>1, <3>1 DEF CloseInv, StoppedOK, slots
  <2> QED BY <2>1, <2>2
<1> QED BY <1>2, <1>3 DEF CloseInv

LEMMA CloseInvAccept ==
  ASSUME IInv, CloseInv, NEW p \in Peer, Accept(p)
  PROVE  CloseInv'
<1>1. /\ UNCHANGED <<main, next, threadRunning, count>>
      /\ accepting = "accept" /\ accepting' = "setup"
      /\ TCPConnections' = [TCPConnections EXCEPT ![count].peer = p]
  BY DEF Accept, flags, loop
<1>2. \A i \in Index : TCPConnections'[i].connected = TCPConnections[i].connected
  BY <1>1 DEF IInv, SlotsOK, Client
<1> QED BY <1>1, <1>2 DEF CloseInv, ClosedSoFar, StoppedOK, CloseLeavesOne

LEMMA CloseInvSetup ==
  ASSUME IInv, CloseInv, SetupClient
  PROVE  CloseInv'
<1>1. /\ UNCHANGED <<main, next, threadRunning, count>> /\ count \in Index
      /\ accepting = "setup" /\ accepting' = "count"
      /\ TCPConnections' = [TCPConnections EXCEPT ![count].index = count, ![count].connected = TRUE]
  BY DEF SetupClient, flags, loop, IInv, SlotsOK, Index
<1>2. \A i \in Index : i # count => TCPConnections'[i].connected = TCPConnections[i].connected
  BY <1>1 DEF IInv, SlotsOK, Client
<1>3. ClosedSoFar'
  <2>1. next \in Nat /\ count \in Nat
    BY DEF IInv, SlotsOK
  <2>2. next <= count => \A i \in Index : i < next => i # count
    BY <2>1 DEF Index
  <2> QED BY <1>1, <1>2, <2>1, <2>2 DEF CloseInv, ClosedSoFar
<1>4. ASSUME main \in {"stopped", "closed"}
      PROVE  \A i \in Index : TCPConnections'[i].connected => i = count
  BY <1>1, <1>2, <1>4 DEF CloseInv, StoppedOK
<1>5. StoppedOK'
  BY <1>1, <1>4 DEF CloseInv, StoppedOK
<1>6. CloseLeavesOne'
  BY <1>1, <1>4 DEF CloseLeavesOne
<1> QED BY <1>3, <1>5, <1>6 DEF CloseInv

LEMMA CloseInvCount ==
  ASSUME IInv, CloseInv, CountClient
  PROVE  CloseInv'
<1>1. /\ UNCHANGED <<main, next, threadRunning, TCPConnections>> /\ count' = count + 1
      /\ accepting' = "check" /\ count \in Nat /\ next \in Nat
  BY DEF CountClient, flags, loop, IInv, SlotsOK
<1> QED BY <1>1 DEF CloseInv, ClosedSoFar, StoppedOK, CloseLeavesOne

\* Steps of the main thread that close slots, but for the loop of close.
LEMMA CloseInvCloses ==
  ASSUME IInv, CloseInv, ReceiveNext \/ (\E i \in Index : DisconnectClient(i))
  PROVE  CloseInv'
<1>1. main' = main /\ main \in {"receiving", "ready"}
  BY DEF ReceiveNext, DisconnectClient, loop
<1> QED BY <1>1 DEF CloseInv, ClosedSoFar, StoppedOK, CloseLeavesOne

LEMMA CloseInvLoop ==
  ASSUME IInv, CloseInv, CloseNext
  PROVE  CloseInv'
<1>1. /\ main = "closing" /\ main' = "closing" /\ next < count /\ next' = next + 1
      /\ count' = count /\ CloseSlot(next)
      /\ next \in Index /\ count \in Nat
  BY DEF CloseNext, IInv, SlotsOK, Index
<1>2. /\ \A i \in Index : TCPConnections'[i].connected => TCPConnections[i].connected
      /\ ~TCPConnections'[next].connected
  BY <1>1, CloseSlotChanges DEF CloseSlot, IInv, SlotsOK, Client
<1> QED BY <1>1, <1>2 DEF CloseInv, ClosedSoFar, StoppedOK, CloseLeavesOne, Index

\* When the loop of close is over, only a slot that is not yet counted can be
\* connected.
LEMMA CloseInvStop ==
  ASSUME IInv, CloseInv, StopThread
  PROVE  CloseInv'
<1>1. /\ main = "closing" /\ main' = "stopped" /\ ~threadRunning' /\ next >= count
      /\ UNCHANGED <<slots, accepting>> /\ next \in Nat /\ count \in Nat
  BY DEF StopThread, IInv, SlotsOK
<1>2. \A i \in Index : TCPConnections[i].connected => i = count /\ accepting = "count"
  BY <1>1 DEF CloseInv, ClosedSoFar, IInv, ConnectedIsCounted, Index
<1> QED BY <1>1, <1>2 DEF CloseInv, ClosedSoFar, StoppedOK, CloseLeavesOne, slots

LEMMA CloseInvMain ==
  ASSUME IInv, CloseInv, MainThread
  PROVE  CloseInv'
<1>1. CASE Setup \/ SendToAll \/ ReceiveAll \/ SendNext \/ LoopEnds
  BY <1>1, CloseInvQuiet DEF Setup, SendToAll, ReceiveAll, SendNext, LoopEnds, flags
<1>2. CASE StartThread
  BY <1>2 DEF StartThread, CloseInv, ClosedSoFar, StoppedOK, CloseLeavesOne
<1>3. CASE Close
  <2>1. main' = "closing" /\ next' = 0 /\ UNCHANGED slots /\ count \in Nat
    BY <1>3 DEF Close, IInv, SlotsOK
  <2> QED BY <2>1 DEF CloseInv, ClosedSoFar, StoppedOK, CloseLeavesOne, slots, Index
<1>4. CASE CloseSocket
  BY <1>4 DEF CloseSocket, CloseInv, ClosedSoFar, StoppedOK, CloseLeavesOne, slots
<1> QED BY <1>1, <1>2, <1>3, <1>4, CloseInvCloses, CloseInvLoop, CloseInvStop
        DEF MainThread, InCall

\* close, which stops the accept thread without waiting for it, leaves at most one
\* client connected, for any number of peers and slots.
THEOREM CloseCorrect == Spec => []CloseLeavesOne
<1>1. Init => CloseInv
  BY DEF Init, CloseInv, ClosedSoFar, StoppedOK, CloseLeavesOne
<1>2. IInv /\ CloseInv /\ [Next]_serverVars => CloseInv'
  <2> SUFFICES ASSUME IInv, CloseInv, [Next]_serverVars PROVE CloseInv'
    OBVIOUS
  <2>1. CASE AcceptThread \/ AcceptFails
    BY <2>1, CloseInvThread, CloseInvAccept, CloseInvSetup, CloseInvCount DEF AcceptThread
  <2>2. CASE MainThread
    BY <2>2, CloseInvMain
  <2>3. CASE \E p \in Peer : PeerConnects(p) \/ PeerLeaves(p)
    BY <2>3, CloseInvQuiet DEF PeerConnects, PeerLeaves, flags, loop
  <2>4. CASE UNCHANGED serverVars
    BY <2>4, CloseInvQuiet DEF serverVars, flags, loop
  <2> QED BY <2>1, <2>2, <2>3, <2>4 DEF Next
<1>3. CloseInv => CloseLeavesOne
  BY DEF CloseInv
<1> QED BY <1>1, <1>2, <1>3, Invariant, PTL DEF Spec

=============================================================================
