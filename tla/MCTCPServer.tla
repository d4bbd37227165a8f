---------------------------- MODULE MCTCPServer ----------------------------
(* An instance of TCPServer for TLC: more peers than slots.                  *)
EXTENDS TCPServer, TLC

CONSTANTS p1, p2, p3

MCPeer == {p1, p2, p3}
MCMax == 2
=============================================================================
