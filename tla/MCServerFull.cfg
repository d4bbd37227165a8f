\* The same instance; clients who have left count for the maximum.
SPECIFICATION Spec
CONSTANTS
  p1 = p1
  p2 = p2
  p3 = p3
  None = None
  Peer <- MCPeer
  TCP_MAX_CLIENTS <- MCMax
INVARIANT FullMeansConnected
CHECK_DEADLOCK FALSE
