---------------------------- MODULE MCBlobTracker ----------------------------
(***************************************************************************)
(* TLC instances of BlobTracker: centroids on one image row.               *)
(***************************************************************************)
EXTENDS BlobTracker, TLC

CONSTANT Positions   \* the columns of the image row the instance uses

MCDist ==
  [p \in Positions |-> [q \in Positions |-> IF p > q THEN p - q ELSE q - p]]

\* The calls until the next one could wrap the id counter (bound: IdLimit).
MCNext == \E c \in Contours : TrackBlobs(c) /\ currentID' >= currentID
MCSpec == Init /\ [][MCNext]_trackerVars

=============================================================================
