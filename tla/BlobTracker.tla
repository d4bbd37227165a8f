----------------------------- MODULE BlobTracker -----------------------------
(***************************************************************************)
(* ofxCvBlobTracker: gives every contour the camera sees an identity that  *)
(* lasts from one frame to the next, and tells a listener which identities *)
(* appeared, moved and disappeared.                                        *)
(*                                                                         *)
(* One step is one call of trackBlobs.  A call matches the contours of the *)
(* new frame with the vector of the previous frame (blobs seen there, and  *)
(* "ghosts" that were seen a few frames before), gives the unmatched ones  *)
(* new ids, keeps the ones that vanished as ghosts for a while, and fires  *)
(* one listener call per new, displaced or expired blob.                   *)
(*                                                                         *)
(* Abstractions.                                                           *)
(*  - A centroid is a member of Places, and Dist gives the distance of two *)
(*    of them, in the unit of the two thresholds.                          *)
(*  - The vector `blobs' is a function whose domain is a finite set of     *)
(*    numbers: position k of the C++ vector is the k-th number of the      *)
(*    domain.  Contours of the frame take 1..n, the ghost of the previous  *)
(*    frame's position j takes n+j, so the order of the vector is kept and *)
(*    the ghosts need no renumbering.                                      *)
(*  - deltaLocTotal is the sum of the displacements since it was last set  *)
(*    to zero, that is, the vector from the centroid at that time to the   *)
(*    present one.  `origin' is the former, so that the length             *)
(*    of deltaLocTotal is Dist[origin][centroid].                          *)
(*  - deltaLoc, deltaArea, predictedPos and the older entries of history   *)
(*    are written and never read by the tracker: they are left out.        *)
(***************************************************************************)
EXTENDS Integers, FiniteSets, FiniteSetsExt

CONSTANTS
  Places,                         \* the centroids a contour can have
  Dist,                           \* Dist[p][q]: how far p is from q
  MaxBlobs,                       \* most contours findContours returns
  RejectDistanceThreshold,        \* 150 in the program
  MinimumDisplacementThreshold,   \* 2 in the program
  GhostFrames,                    \* 2 in the program
  IdLimit                         \* 65535 in the program

ASSUME DistAssumption ==
  /\ Dist \in [Places -> [Places -> Nat]]
  /\ \A p \in Places : Dist[p][p] = 0

ASSUME TrackerAssumption ==
  /\ MaxBlobs \in Nat
  /\ RejectDistanceThreshold \in Nat
  /\ MinimumDisplacementThreshold \in Nat \ {0}
  /\ GhostFrames \in Nat
  /\ IdLimit \in Nat
  /\ IdLimit > MaxBlobs + 1

VARIABLES
  blobs,      \* the tracker's vector after the last call
  currentID,  \* the id the next new blob will get
  events      \* the listener calls of the last call, fired lowest index first

trackerVars == <<blobs, currentID, events>>

Ids == 0 .. IdLimit - 1

\* A blob of the frame: not marked, no frames left to count down.
Seen(id, place, origin) ==
  [id |-> id, centroid |-> place, origin |-> origin,
   markedForDeletion |-> FALSE, framesLeft |-> 0]

TrackedBlob == [id : Ids, centroid : Places, origin : Places,
                markedForDeletion : BOOLEAN, framesLeft : 0 .. GhostFrames]

Event == [kind : {"on", "moved", "off"}, at : Places, id : Ids, order : Nat]

-----------------------------------------------------------------------------
(* Matching: which blob of the previous frame each contour continues.      *)

\* What findContours can hand over, the largest contour first.  Two contours
\* may have one centroid: it is their centre of mass, cut to whole pixels.
Contours == UNION {[1 .. n -> Places] : n \in 0 .. MaxBlobs}

Prev == DOMAIN blobs
CurSize(c) == Cardinality(DOMAIN c)
PrevSize == Cardinality(Prev)

New == -1   \* the entry of a contour that continues nothing

\* Mutant of Error: measured from where the blob was last reported.
ErrorFromOrigin(c, i, j) == Dist[c[i]][blobs[j].origin]

Error(c, i, j) == Dist[c[i]][blobs[j].centroid]

\* The stable sort of `closest': contour i lists j before k.
Closer(c, i, j, k) ==
  \/ Error(c, i, j) < Error(c, i, k)
  \/ Error(c, i, j) = Error(c, i, k) /\ j < k

ExtraIDs(c) == IF CurSize(c) > PrevSize THEN CurSize(c) - PrevSize ELSE 0

NumCheck(c) ==
  LET wanted == IF CurSize(c) <= 4 THEN 4
                ELSE IF CurSize(c) <= 6 THEN 3
                ELSE IF CurSize(c) <= 10 THEN 2
                ELSE 1
  IN  IF PrevSize < wanted THEN PrevSize ELSE wanted

\* Mutant of CheckValid: the loop stops one entry early.
CheckValidShort(row, i, j) == \A k \in 1 .. i - 2 : row[k] # j

CheckValid(row, i, j) == \A k \in 1 .. i - 1 : row[k] # j

\* Mutant of CheckValidNew: the new id asked for is not counted.
CheckValidNewUncounted(c, row, i) ==
  Cardinality({k \in 1 .. i - 1 : row[k] = New}) <= ExtraIDs(c)

CheckValidNew(c, row, i) ==
  Cardinality({k \in 1 .. i - 1 : row[k] = New}) + 1 <= ExtraIDs(c)

\* Mutant of Candidates: no reject_distance_threshold.
CandidatesAnywhere(c, row, i) == {j \in Prev : CheckValid(row, i, j)}

\* The previous blobs contour i may still take once the contours before it
\* have taken theirs.
Candidates(c, row, i) ==
  {j \in Prev : Error(c, i, j) <= RejectDistanceThreshold /\ CheckValid(row, i, j)}

\* Mutant of Reaches: numchecked is compared one too late.
ReachesOneMore(c, row, i) ==
  IF row[i] = New
  THEN CheckValidNew(c, row, i)
  ELSE /\ row[i] \in Candidates(c, row, i)
       /\ Cardinality({j \in Candidates(c, row, i) : Closer(c, i, j, row[i])})
            <= NumCheck(c)

\* Whether permute reaches entry row[i] from the entries before it.
Reaches(c, row, i) ==
  IF row[i] = New
  THEN CheckValidNew(c, row, i)
  ELSE /\ row[i] \in Candidates(c, row, i)
       /\ Cardinality({j \in Candidates(c, row, i) : Closer(c, i, j, row[i])})
            < NumCheck(c)

\* Every assignment permute pushes on `matrix'.
Matrix(c) ==
  {row \in [DOMAIN c -> Prev \cup {New}] : \A i \in DOMAIN c : Reaches(c, row, i)}

TotalError(c, row) ==
  LET Cost(i) == IF row[i] = New THEN 0 ELSE Error(c, i, row[i])
  IN  MapThenSumSet(Cost, DOMAIN c)

\* permute pushes row before other: it tries the closer blob first, and a
\* new id last.
Before(c, row, other) ==
  \E i \in DOMAIN c :
    /\ \A k \in 1 .. i - 1 : row[k] = other[k]
    /\ row[i] # New
    /\ other[i] = New \/ Closer(c, i, row[i], other[i])

\* Mutant of BestOf: best_error is not lowered, so that the last row wins.
BestOfLast(c, matrix) ==
  {row \in matrix : \A other \in matrix : ~Before(c, row, other)}

\* The first of the rows with the lowest total.
BestOf(c, matrix) ==
  LET lowest == Min({TotalError(c, row) : row \in matrix})
      Cheapest == {row \in matrix : TotalError(c, row) = lowest}
  IN  {row \in Cheapest : \A other \in Cheapest : ~Before(c, other, row)}

\* With no row at all, every contour stays without an id.
Matches(c) ==
  LET matrix == Matrix(c)
  IN  IF matrix = {} THEN {[i \in DOMAIN c |-> New]} ELSE BestOf(c, matrix)

-----------------------------------------------------------------------------
(* Ids and the order the listener is told.                                 *)

\* currentID after k more ids: back to 0 when it reaches the limit.
IdAfter(k) ==
  IF currentID + k >= IdLimit THEN currentID + k - IdLimit ELSE currentID + k

NewIn(row) == {i \in DOMAIN row : row[i] = New}

IdOf(row, i) ==
  IF row[i] = New
  THEN IdAfter(Cardinality({k \in NewIn(row) : k < i}))
  ELSE blobs[row[i]].id

\* The id of contour k while the event of contour i fires: new ids are given
\* one by one, so a new blob further down still has id -1.
IdDuring(row, i, k) == IF row[k] = New /\ k > i THEN -1 ELSE IdOf(row, k)

\* Mutant of FindOrder: the id itself is counted.
FindOrderFromOne(row, i) ==
  Cardinality({k \in DOMAIN row : IdDuring(row, i, k) <= IdOf(row, i)})

\* Mutant of FindOrder: the listener is called with the id for an order.
FindOrderIsId(row, i) == IdOf(row, i)

\* findOrder(id) as seen from the event of contour i.
FindOrder(row, i) ==
  Cardinality({k \in DOMAIN row : IdDuring(row, i, k) < IdOf(row, i)})

\* Where deltaLocTotal of contour i starts before the displacement test.
Origin(c, row, i) == IF row[i] = New THEN c[i] ELSE blobs[row[i]].origin

\* Mutant of Displaced: deltaLoc is tested for deltaLocTotal.
DisplacedInOneFrame(c, row, i) ==
  /\ row[i] # New
  /\ Dist[blobs[row[i]].centroid][c[i]] >= MinimumDisplacementThreshold

Displaced(c, row, i) ==
  /\ row[i] # New
  /\ Dist[blobs[row[i]].origin][c[i]] >= MinimumDisplacementThreshold

-----------------------------------------------------------------------------
(* Ghosts: blobs of the previous frame whose id no contour carries.        *)

Missing(row) == {j \in Prev : \A i \in DOMAIN row : IdOf(row, i) # blobs[j].id}

\* Mutant of FramesLeft: set anew in every frame, never counted down.
FramesLeftAnew(j) == GhostFrames

\* framesLeft after this frame: it starts at GhostFrames and counts down.
FramesLeft(j) ==
  IF blobs[j].markedForDeletion THEN blobs[j].framesLeft - 1 ELSE GhostFrames

\* Mutant of Expires: one frame late.
ExpiresLate(j) ==
  \/ GhostFrames = 0
  \/ blobs[j].markedForDeletion /\ FramesLeft(j) < 0

Expires(j) ==
  \/ GhostFrames = 0
  \/ blobs[j].markedForDeletion /\ FramesLeft(j) <= 0

Expired(row) == {j \in Missing(row) : Expires(j)}
Kept(row) == Missing(row) \ Expired(row)

Ghost(j) ==
  [id |-> blobs[j].id, centroid |-> blobs[j].centroid, origin |-> blobs[j].origin,
   markedForDeletion |-> TRUE, framesLeft |-> FramesLeft(j)]

\* findOrder(id) as seen from the off event of j: the ghosts before j are
\* back in the vector, the ones after it are not.
OffOrder(row, j) ==
    Cardinality({k \in DOMAIN row : IdOf(row, k) < blobs[j].id})
  + Cardinality({k \in Kept(row) : k < j /\ blobs[k].id < blobs[j].id})

-----------------------------------------------------------------------------
(* One call of trackBlobs.                                                 *)

NextBlobs(c, row) ==
  LET n == CurSize(c)
  IN  [k \in DOMAIN c \cup {n + j : j \in Kept(row)} |->
         IF k \in DOMAIN c
         THEN Seen(IdOf(row, k), c[k],
                   IF Displaced(c, row, k) THEN c[k] ELSE Origin(c, row, k))
         ELSE Ghost(k - n)]

FiredEvents(c, row) ==
  LET n == CurSize(c)
      Speaks == {i \in DOMAIN c : row[i] = New \/ Displaced(c, row, i)}
  IN  [k \in Speaks \cup {n + j : j \in Expired(row)} |->
         IF k \in DOMAIN c
         THEN [kind |-> IF row[k] = New THEN "on" ELSE "moved",
               at |-> c[k], id |-> IdOf(row, k), order |-> FindOrder(row, k)]
         ELSE [kind |-> "off", at |-> blobs[k - n].centroid,
               id |-> blobs[k - n].id, order |-> OffOrder(row, k - n)]]

TrackBlobs(c) ==
  \E row \in Matches(c) :
    /\ blobs' = NextBlobs(c, row)
    /\ events' = FiredEvents(c, row)
    /\ currentID' = IdAfter(Cardinality(NewIn(row)))

Init ==
  /\ blobs = << >>
  /\ events = << >>
  /\ currentID = 1

Next == \E c \in Contours : TrackBlobs(c)

Spec == Init /\ [][Next]_trackerVars

\* The calls made before the id counter has wrapped for the first time.
SpecUntilWrap == Init /\ [][Next /\ currentID' >= currentID]_trackerVars

-----------------------------------------------------------------------------
(* Correctness.                                                            *)

\* Type invariant: the vector is finite, and a ghost always has between 1 and
\* GhostFrames frames left while a blob that was just seen has none.
TypeOK ==
  /\ IsFiniteSet(Prev) /\ Prev \subseteq Nat \ {0}
  /\ blobs \in [Prev -> TrackedBlob]
  /\ \A j \in Prev : blobs[j].markedForDeletion <=> blobs[j].framesLeft > 0
  /\ currentID \in Ids
  /\ DOMAIN events \subseteq Nat
  /\ events \in [DOMAIN events -> Event]

\* No two entries of the vector share an id: trackBlobs matches by position
\* but looks for vanished blobs by id, so of two entries with one id the one
\* that vanishes would be lost without an off event.
IdsDistinct == \A j, k \in Prev : blobs[j].id = blobs[k].id => j = k

\* The vector never holds more than MaxBlobs blobs per frame a ghost lives:
\* permute, which is exponential, runs on at most this many previous blobs.
VectorBounded == Cardinality(Prev) <= MaxBlobs * (GhostFrames + 1)

\* Between two reports a blob the camera sees, or the ghost of one, is less
\* than the displacement threshold away from where the listener last heard
\* of it, however slowly it drifts.
DriftIsReported ==
  \A j \in Prev : Dist[blobs[j].origin][blobs[j].centroid] < MinimumDisplacementThreshold

\* The positions of the vector the camera saw in the last frame.
SeenIn(vector) == {k \in DOMAIN vector : ~vector[k].markedForDeletion}

\* An identity never jumps: a blob that keeps its id through a frame is
\* within reject_distance_threshold of where the id was before.
IdNeverJumps ==
  [][\A j \in DOMAIN blobs, k \in DOMAIN blobs' :
        blobs'[k].id = blobs[j].id =>
          Dist[blobs'[k].centroid][blobs[j].centroid] <= RejectDistanceThreshold]_trackerVars

\* The blobs of the previous frame that are near enough for contour i.
InReach(c, i) == {j \in Prev : Error(c, i, j) <= RejectDistanceThreshold}

\* What the camera saw in the last call.
LastFrame(vector) == [k \in SeenIn(vector) |-> vector[k].centroid]

\* No two seen blobs would both be allowed, and be closer in total, with their
\* ids exchanged.
ExchangeIsNoBetter(c) ==
  \A j1, j2 \in Prev, k1, k2 \in DOMAIN c :
    j1 # j2 /\ blobs'[k1].id = blobs[j1].id /\ blobs'[k2].id = blobs[j2].id =>
      \/ Error(c, k1, j1) + Error(c, k2, j2) <= Error(c, k1, j2) + Error(c, k2, j1)
      \/ j2 \notin InReach(c, k1)
      \/ j1 \notin InReach(c, k2)

\* Two people who walk past each other are not swapped, in a frame in which no
\* contour has more previous blobs in reach than it may check: beyond numcheck
\* the exchanged row is not tried.
NoSwap ==
  [][LET frame == LastFrame(blobs')
     IN  (\A k \in DOMAIN frame : Cardinality(InReach(frame, k)) <= NumCheck(frame))
           => ExchangeIsNoBetter(frame)]_trackerVars

\* A floor on which nobody moves, and nobody both leaves and enters between
\* two frames, keeps its ids: with every blob at a place of its own, when every
\* contour is exactly on a previous blob, or every previous blob is exactly
\* under a contour, a contour takes the id of the blob it is on.
PlacesOf(vector, K) == {vector[k].centroid : k \in K}
Apart(vector, K) ==
  \A j, k \in K : vector[j].centroid = vector[k].centroid => j = k

StillFloorKeepsIds ==
  [][LET before == PlacesOf(blobs, Prev)
         after == PlacesOf(blobs', SeenIn(blobs'))
     IN  /\ Apart(blobs, Prev)
         /\ Apart(blobs', SeenIn(blobs'))
         /\ after \subseteq before \/ before \subseteq after
         => \A j \in Prev, k \in SeenIn(blobs') :
              blobs'[k].centroid = blobs[j].centroid
                => blobs'[k].id = blobs[j].id]_trackerVars

\* What the class promises and the matching does not keep: somebody who does
\* not move, with nobody else in reach before or after, keeps the persistent
\* id, whatever the others do.
AloneInReach(vector, K, place, k) ==
  \A m \in K : Dist[vector[m].centroid][place] <= RejectDistanceThreshold => m = k

StandingKeepsId ==
  [][\A j \in Prev, k \in SeenIn(blobs') :
       /\ blobs'[k].centroid = blobs[j].centroid
       /\ AloneInReach(blobs, Prev, blobs[j].centroid, j)
       /\ AloneInReach(blobs', SeenIn(blobs'), blobs[j].centroid, k)
       => blobs'[k].id = blobs[j].id]_trackerVars

-----------------------------------------------------------------------------
(* The tracker implements BlobLifecycle.                                   *)

Live == {blobs[j].id : j \in Prev}
BlobOf(id) == CHOOSE j \in Prev : blobs[j].id = id

\* A ghost counts framesLeft down from GhostFrames, starting in the first
\* frame in which it is not seen.
Unseen(id) ==
  LET b == blobs[BlobOf(id)]
  IN  IF b.markedForDeletion THEN GhostFrames - b.framesLeft + 1 ELSE 0

Heard(kind) == {events[e].id : e \in {d \in DOMAIN events : events[d].kind = kind}}

Lifecycle == INSTANCE BlobLifecycle WITH
  Identities <- Ids \ {0},
  unseen <- [id \in Live |-> Unseen(id)],
  reported <- [id \in Live |-> blobs[BlobOf(id)].origin],
  issued <- 1 .. currentID - 1,
  said <- [on |-> Heard("on"), moved |-> Heard("moved"), off |-> Heard("off")]

\* Until the id counter wraps, every call of trackBlobs is a frame of the
\* lifecycle: one on, then one off after GhostFrames unseen frames, per id,
\* and a moved exactly when the blob is displaced from where it was reported.
ImplementsLifecycle == Lifecycle!Spec

=============================================================================
