----------------------------- MODULE MCOpenFloor -----------------------------
(***************************************************************************)
(* TLC instances of OpenFloor.                                             *)
(***************************************************************************)
EXTENDS OpenFloor

CONSTANT Positions   \* the columns of the instance

MCDist ==
  [p \in Positions |-> [q \in Positions |-> IF p > q THEN p - q ELSE q - p]]

=============================================================================
