\* Three peers, two slots, both threads and the peers interleaved.
SPECIFICATION FairSpec
CONSTANTS
  p1 = p1
  p2 = p2
  p3 = p3
  None = None
  Peer <- MCPeer
  TCP_MAX_CLIENTS <- MCMax
INVARIANTS ServerTypeOK SetUpBelowCount BroadcastReachesAll 
PROPERTIES PeersKeepSlots WaitingIsAccepted GoneIsClosed
CHECK_DEADLOCK FALSE
