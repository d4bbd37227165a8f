---------------------------- MODULE MCMeditate -----------------------------
(* An instance of Meditate for TLC.  isStill looks at the last two of the    *)
(* positions kept, so that two are enough for a full history.               *)
EXTENDS Meditate, TLC

CONSTANTS u1, u2

MCUserId == {u1, u2}
MCNumUsers == 1
MCHistory == 2
=============================================================================
