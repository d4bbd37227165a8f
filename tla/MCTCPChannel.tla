--------------------------- MODULE MCTCPChannel ----------------------------
(* Instances of TCPChannel for TLC: the sequences of bytes of its type       *)
(* invariant are those that fit the messages.                                *)
EXTENDS TCPChannel

MCMessages == 4
MCRead == 7
=============================================================================
