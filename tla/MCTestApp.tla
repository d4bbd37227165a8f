------------------------------ MODULE MCTestApp ------------------------------
(***************************************************************************)
(* TLC instances of TestApp.                                               *)
(***************************************************************************)
EXTENDS TestApp

CONSTANT Positions   \* the columns of the instance

MCDist ==
  [p \in Positions |-> [q \in Positions |-> IF p > q THEN p - q ELSE q - p]]

\* The steps until the id counter could wrap (bound: IdLimit).
MCAppSpec == AppInit /\ [][AppNext /\ currentID' >= currentID]_vars

=============================================================================
