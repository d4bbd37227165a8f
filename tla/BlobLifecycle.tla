---------------------------- MODULE BlobLifecycle ----------------------------
(***************************************************************************)
(* What the tracker promises its listener, without any matching: an        *)
(* identity is announced once, by a blobOn; while it is alive the listener *)
(* hears a blobMoved whenever it is displaced far enough from where it was *)
(* last heard of; when it has not been seen for more than GhostFrames      *)
(* frames in a row it dies with exactly one blobOff; and no identity is    *)
(* ever announced again.                                                   *)
(***************************************************************************)
EXTENDS Naturals, FiniteSets

CONSTANTS
  Places,
  Dist,
  Identities,                     \* every identity there can ever be
  MinimumDisplacementThreshold,
  GhostFrames

VARIABLES
  unseen,     \* for a live identity: frames since it was last seen
  reported,   \* for a live identity: where the listener last heard it is
  issued,     \* the identities announced so far
  said        \* what the listener heard in the last frame

lifecycleVars == <<unseen, reported, issued, said>>

Live == DOMAIN unseen

Init ==
  /\ unseen = << >>
  /\ reported = << >>
  /\ issued = {}
  /\ said = [on |-> {}, moved |-> {}, off |-> {}]

\* One frame: the camera sees the identities of `stays' again and those of
\* `fresh' for the first time, each at its place.
Frame(stays, fresh, place) ==
  LET gone == {id \in Live \ stays : unseen[id] >= GhostFrames}
      moved == {id \in stays :
                  Dist[reported[id]][place[id]] >= MinimumDisplacementThreshold}
      alive == (Live \ gone) \cup fresh
  IN  /\ unseen' = [id \in alive |-> IF id \in stays \cup fresh THEN 0
                                     ELSE unseen[id] + 1]
      /\ reported' = [id \in alive |-> IF id \in fresh \cup moved THEN place[id]
                                       ELSE reported[id]]
      /\ issued' = issued \cup fresh
      /\ said' = [on |-> fresh, moved |-> moved, off |-> gone]

Next ==
  \E stays \in SUBSET Live, fresh \in SUBSET (Identities \ issued) :
    \E place \in [stays \cup fresh -> Places] : Frame(stays, fresh, place)

Spec == Init /\ [][Next]_lifecycleVars

=============================================================================
