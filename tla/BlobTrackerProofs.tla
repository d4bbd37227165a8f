-------------------------- MODULE BlobTrackerProofs --------------------------
(***************************************************************************)
(* Theorems of BlobTracker, for every value of its constants.              *)
(***************************************************************************)
EXTENDS BlobTracker, LeastNumber, FiniteSetTheorems, TLAPS

-----------------------------------------------------------------------------
(* Contours and rows.                                                      *)

\* A list of contours has its length as its last index.
LEMMA ContoursShape ==
  ASSUME NEW c \in Contours
  PROVE  /\ CurSize(c) \in 0 .. MaxBlobs
         /\ DOMAIN c = 1 .. CurSize(c)
         /\ IsFiniteSet(DOMAIN c)
         /\ \A i \in DOMAIN c : c[i] \in Places
<1>1. PICK n \in 0 .. MaxBlobs : c \in [1 .. n -> Places]
  BY DEF Contours
<1>2. n \in Nat /\ MaxBlobs \in Nat
  BY <1>1, TrackerAssumption
<1>3. IsFiniteSet(1 .. n) /\ Cardinality(1 .. n) = n
  BY <1>2, FS_Interval
<1>4. DOMAIN c = 1 .. n
  BY <1>1
<1> QED BY <1>1, <1>3, <1>4 DEF CurSize

\* Every entry of a row that is taken is either New or a previous blob within
\* reach that no other contour has.
LEMMA MatchesShape ==
  ASSUME NEW c \in Contours, NEW row \in Matches(c)
  PROVE  /\ row \in [DOMAIN c -> Prev \cup {New}]
         /\ \A i \in DOMAIN c : row[i] # New =>
               /\ row[i] \in Prev
               /\ Error(c, i, row[i]) <= RejectDistanceThreshold
         /\ \A i, k \in DOMAIN c : row[i] = row[k] /\ row[i] # New => i = k
<1>1. CASE Matrix(c) = {}
  <2>1. row = [i \in DOMAIN c |-> New]
    BY <1>1 DEF Matches
  <2> QED BY <2>1
<1>2. CASE Matrix(c) # {}
  <2>1. row \in Matrix(c)
    BY <1>2 DEF Matches, BestOf
  <2>2. row \in [DOMAIN c -> Prev \cup {New}]
    BY <2>1 DEF Matrix
  <2>3. \A i \in DOMAIN c : row[i] # New => row[i] \in Candidates(c, row, i)
    BY <2>1 DEF Matrix, Reaches
  <2>4. DOMAIN c \subseteq Nat \ {0}
    BY ContoursShape
  <2>5. ASSUME NEW i \in DOMAIN c, NEW k \in DOMAIN c, i < k,
               row[i] = row[k], row[k] # New
        PROVE  FALSE
    <3>1. CheckValid(row, k, row[k])
      BY <2>3, <2>5 DEF Candidates
    <3>2. i \in 1 .. k - 1
      BY <2>4, <2>5
    <3> QED BY <3>1, <3>2, <2>5 DEF CheckValid
  <2>6. \A i, k \in DOMAIN c : row[i] = row[k] /\ row[i] # New => i = k
    BY <2>4, <2>5
  <2> QED BY <2>2, <2>3, <2>6 DEF Candidates
<1> QED BY <1>1, <1>2

\* A set of contours has at most MaxBlobs members.
LEMMA ContourCount ==
  ASSUME NEW c \in Contours, NEW K \in SUBSET DOMAIN c
  PROVE  Cardinality(K) \in 0 .. MaxBlobs
<1>1. IsFiniteSet(1 .. CurSize(c)) /\ Cardinality(1 .. CurSize(c)) = CurSize(c)
  BY ContoursShape, FS_Interval
<1>2. IsFiniteSet(K) /\ Cardinality(K) <= CurSize(c)
  BY <1>1, ContoursShape, FS_Subset
<1>3. Cardinality(K) \in Nat
  BY <1>2, FS_CardinalityType
<1> QED BY <1>2, <1>3, ContoursShape, TrackerAssumption

\* The ids the counter runs through are ids.
LEMMA IdAfterType ==
  ASSUME currentID \in Ids, NEW k \in 0 .. MaxBlobs
  PROVE  IdAfter(k) \in Ids
BY TrackerAssumption DEF IdAfter, Ids

\* Every contour gets an id.
LEMMA IdOfType ==
  ASSUME TypeOK, NEW c \in Contours, NEW row \in Matches(c), NEW i \in DOMAIN c
  PROVE  IdOf(row, i) \in Ids
<1>1. DOMAIN row = DOMAIN c
  BY MatchesShape
<1>2. CASE row[i] = New
  <2>1. {k \in NewIn(row) : k < i} \in SUBSET DOMAIN c
    BY <1>1 DEF NewIn
  <2> DEFINE K == Cardinality({k \in NewIn(row) : k < i})
  <2>2. K \in 0 .. MaxBlobs
    BY <2>1, ContourCount
  <2>3. currentID \in Ids
    BY DEF TypeOK
  <2> HIDE DEF K
  <2>4. IdAfter(K) \in Ids
    BY <2>2, <2>3, IdAfterType
  <2> QED BY <1>2, <2>4 DEF IdOf, K
<1>3. CASE row[i] # New
  <2>1. row[i] \in Prev
    BY <1>3, MatchesShape
  <2> QED BY <1>3, <2>1 DEF IdOf, TypeOK, TrackedBlob
<1> QED BY <1>2, <1>3

\* The positions of a shifted finite set are finite.
LEMMA ShiftedFinite ==
  ASSUME NEW n \in Nat, NEW K \in SUBSET Nat, IsFiniteSet(K)
  PROVE  IsFiniteSet({n + j : j \in K})
<1> DEFINE T == {n + j : j \in K}
           f == [m \in T |-> m - n]
<1>1. f \in [T -> K]
  BY Z3
<1>2. \A a, b \in T : f[a] = f[b] => a = b
  BY Z3
<1>3. f \in Injection(T, K)
  BY <1>1, <1>2 DEF Injection, IsInjective
<1> QED BY <1>3, FS_Injection

-----------------------------------------------------------------------------
(* One call of trackBlobs: what the new vector and the calls look like.    *)

\* The ghosts come from the previous vector.
LEMMA GhostsArePrev ==
  ASSUME TypeOK, NEW row
  PROVE  /\ Missing(row) \subseteq Prev
         /\ Kept(row) \subseteq Prev /\ Expired(row) \subseteq Prev
         /\ Kept(row) \subseteq Nat \ {0} /\ Expired(row) \subseteq Nat \ {0}
         /\ IsFiniteSet(Kept(row)) /\ IsFiniteSet(Expired(row))
<1>1. Missing(row) \subseteq Prev
  BY DEF Missing
<1>2. Kept(row) \subseteq Prev /\ Expired(row) \subseteq Prev
  BY <1>1 DEF Kept, Expired
<1>3. IsFiniteSet(Prev) /\ Prev \subseteq Nat \ {0}
  BY DEF TypeOK
<1>4. IsFiniteSet(Kept(row)) /\ IsFiniteSet(Expired(row))
  BY <1>2, <1>3, FS_Subset
<1> QED BY <1>1, <1>2, <1>3, <1>4

\* A ghost that is kept has frames left, one less than before if it was a
\* ghost already.
LEMMA GhostType ==
  ASSUME TypeOK, NEW row, NEW j \in Kept(row)
  PROVE  /\ Ghost(j) \in TrackedBlob
         /\ Ghost(j).markedForDeletion
         /\ Ghost(j).framesLeft > 0
         /\ Ghost(j).id = blobs[j].id
         /\ Ghost(j).centroid = blobs[j].centroid
         /\ Ghost(j).origin = blobs[j].origin
<1>1. j \in Prev /\ blobs[j] \in TrackedBlob
  BY GhostsArePrev DEF TypeOK
<1>2. ~Expires(j)
  BY DEF Kept, Expired
<1>3. GhostFrames \in Nat
  BY TrackerAssumption
<1>4. FramesLeft(j) \in 1 .. GhostFrames
  BY <1>1, <1>2, <1>3 DEF Expires, FramesLeft, TrackedBlob
<1> QED BY <1>1, <1>3, <1>4 DEF Ghost, TrackedBlob

\* The new vector: the contours first, then the ghosts.
LEMMA NextBlobsShape ==
  ASSUME TypeOK, NEW c \in Contours, NEW row \in Matches(c)
  PROVE  /\ DOMAIN NextBlobs(c, row)
               = DOMAIN c \cup {CurSize(c) + j : j \in Kept(row)}
         /\ \A i \in DOMAIN c :
               NextBlobs(c, row)[i]
                 = Seen(IdOf(row, i), c[i],
                        IF Displaced(c, row, i) THEN c[i] ELSE Origin(c, row, i))
         /\ \A j \in Kept(row) : /\ CurSize(c) + j \notin DOMAIN c
                                 /\ NextBlobs(c, row)[CurSize(c) + j] = Ghost(j)
<1> DEFINE n == CurSize(c)
<1>1. n \in Nat /\ DOMAIN c = 1 .. n
  BY ContoursShape, TrackerAssumption
<1>2. \A j \in Kept(row) : j \in Nat /\ j > 0
  BY GhostsArePrev
<1> HIDE DEF n
<1>3. \A j \in Kept(row) : n + j \notin DOMAIN c /\ (n + j) - n = j
  BY <1>1, <1>2
<1> QED BY <1>3 DEF NextBlobs, n

\* The origin of a contour is a place.
LEMMA OriginType ==
  ASSUME TypeOK, NEW c \in Contours, NEW row \in Matches(c), NEW i \in DOMAIN c
  PROVE  Origin(c, row, i) \in Places
<1>1. c[i] \in Places
  BY ContoursShape
<1>2. row[i] # New => blobs[row[i]] \in TrackedBlob
  BY MatchesShape DEF TypeOK
<1> QED BY <1>1, <1>2 DEF Origin, TrackedBlob

\* The new vector has the type of a vector.
LEMMA NextBlobsType ==
  ASSUME TypeOK, NEW c \in Contours, NEW row \in Matches(c)
  PROVE  LET next == NextBlobs(c, row)
         IN  /\ IsFiniteSet(DOMAIN next) /\ DOMAIN next \subseteq Nat \ {0}
             /\ next \in [DOMAIN next -> TrackedBlob]
             /\ \A k \in DOMAIN next : next[k].markedForDeletion <=> next[k].framesLeft > 0
<1> DEFINE n == CurSize(c)
           next == NextBlobs(c, row)
           Shifted == {n + j : j \in Kept(row)}
<1>1. n \in Nat /\ DOMAIN c = 1 .. n /\ IsFiniteSet(DOMAIN c)
  BY ContoursShape, TrackerAssumption
<1>2. Kept(row) \subseteq Nat \ {0} /\ IsFiniteSet(Kept(row))
  BY GhostsArePrev
<1>3. DOMAIN next = DOMAIN c \cup Shifted
  BY NextBlobsShape
<1>4. ASSUME NEW i \in DOMAIN c
      PROVE  next[i] \in TrackedBlob /\ (next[i].markedForDeletion <=> next[i].framesLeft > 0)
  <2>1. IdOf(row, i) \in Ids /\ c[i] \in Places /\ Origin(c, row, i) \in Places
    BY IdOfType, OriginType, ContoursShape
  <2>2. next[i] = Seen(IdOf(row, i), c[i],
                       IF Displaced(c, row, i) THEN c[i] ELSE Origin(c, row, i))
    BY NextBlobsShape
  <2>3. 0 \in 0 .. GhostFrames
    BY TrackerAssumption
  <2> QED BY <2>1, <2>2, <2>3 DEF Seen, TrackedBlob
<1>5. ASSUME NEW k \in Shifted
      PROVE  next[k] \in TrackedBlob /\ (next[k].markedForDeletion <=> next[k].framesLeft > 0)
  <2>1. PICK j \in Kept(row) : k = n + j
    OBVIOUS
  <2>2. next[k] = Ghost(j)
    BY <2>1, NextBlobsShape
  <2> QED BY <2>2, GhostType
<1>6. \A k \in DOMAIN next :
        next[k] \in TrackedBlob /\ (next[k].markedForDeletion <=> next[k].framesLeft > 0)
  BY <1>3, <1>4, <1>5
<1>7. next \in [DOMAIN next -> TrackedBlob]
  BY <1>6 DEF NextBlobs
<1>8. IsFiniteSet(Shifted)
  BY <1>1, <1>2, ShiftedFinite
<1>9. IsFiniteSet(DOMAIN next)
  BY <1>1, <1>3, <1>8, FS_Union
<1>10. Shifted \subseteq Nat \ {0}
  BY <1>1, <1>2
<1>11. DOMAIN next \subseteq Nat \ {0}
  BY <1>1, <1>3, <1>10
<1> QED BY <1>6, <1>7, <1>9, <1>11

\* The number of a set of contours, or of kept ghosts, is a number: so are the
\* orders the listener is told.
LEMMA OrdersType ==
  ASSUME TypeOK, NEW c \in Contours, NEW row \in Matches(c)
  PROVE  /\ \A i \in DOMAIN c : FindOrder(row, i) \in Nat
         /\ \A j \in Prev : OffOrder(row, j) \in Nat
<1>1. DOMAIN row = DOMAIN c
  BY MatchesShape
<1>2. \A K \in SUBSET DOMAIN c : Cardinality(K) \in Nat
  BY ContourCount, TrackerAssumption
<1>3. \A K \in SUBSET Kept(row) : Cardinality(K) \in Nat
  BY GhostsArePrev, FS_Subset, FS_CardinalityType
<1>4. ASSUME NEW i \in DOMAIN c PROVE FindOrder(row, i) \in Nat
  <2>1. {k \in DOMAIN row : IdDuring(row, i, k) < IdOf(row, i)} \in SUBSET DOMAIN c
    BY <1>1
  <2> QED BY <1>2, <2>1 DEF FindOrder
<1>5. ASSUME NEW j \in Prev PROVE OffOrder(row, j) \in Nat
  <2>1. {k \in DOMAIN row : IdOf(row, k) < blobs[j].id} \in SUBSET DOMAIN c
    BY <1>1
  <2>2. {k \in Kept(row) : k < j /\ blobs[k].id < blobs[j].id} \in SUBSET Kept(row)
    OBVIOUS
  <2>3. /\ Cardinality({k \in DOMAIN row : IdOf(row, k) < blobs[j].id}) \in Nat
        /\ Cardinality({k \in Kept(row) : k < j /\ blobs[k].id < blobs[j].id}) \in Nat
    BY <1>2, <1>3, <2>1, <2>2
  <2> QED BY <2>3 DEF OffOrder
<1> QED BY <1>4, <1>5

\* The calls: contours speak at their own index, expired ghosts after them.
LEMMA FiredEventsShape ==
  ASSUME TypeOK, NEW c \in Contours, NEW row \in Matches(c)
  PROVE  LET fired == FiredEvents(c, row)
             n == CurSize(c)
         IN  /\ DOMAIN fired = {i \in DOMAIN c : row[i] = New \/ Displaced(c, row, i)}
                                 \cup {n + j : j \in Expired(row)}
             /\ \A i \in DOMAIN c : i \in DOMAIN fired =>
                  fired[i] = [kind |-> IF row[i] = New THEN "on" ELSE "moved",
                              at |-> c[i], id |-> IdOf(row, i),
                              order |-> FindOrder(row, i)]
             /\ \A j \in Expired(row) :
                  /\ n + j \notin DOMAIN c
                  /\ fired[n + j] = [kind |-> "off", at |-> blobs[j].centroid,
                                     id |-> blobs[j].id, order |-> OffOrder(row, j)]
<1> DEFINE n == CurSize(c)
<1>1. n \in Nat /\ DOMAIN c = 1 .. n
  BY ContoursShape, TrackerAssumption
<1>2. \A j \in Expired(row) : j \in Nat /\ j > 0
  BY GhostsArePrev
<1> HIDE DEF n
<1>3. \A j \in Expired(row) : n + j \notin DOMAIN c /\ (n + j) - n = j
  BY <1>1, <1>2
<1> QED BY <1>3 DEF FiredEvents, n

\* The calls have the type of calls.
LEMMA FiredEventsType ==
  ASSUME TypeOK, NEW c \in Contours, NEW row \in Matches(c)
  PROVE  LET fired == FiredEvents(c, row)
         IN  /\ DOMAIN fired \subseteq Nat
             /\ fired \in [DOMAIN fired -> Event]
<1> DEFINE n == CurSize(c)
           fired == FiredEvents(c, row)
           Late == {n + j : j \in Expired(row)}
<1>1. n \in Nat /\ DOMAIN c = 1 .. n
  BY ContoursShape, TrackerAssumption
<1>2. Expired(row) \subseteq Prev /\ Expired(row) \subseteq Nat \ {0}
  BY GhostsArePrev
<1>3. DOMAIN fired = {i \in DOMAIN c : row[i] = New \/ Displaced(c, row, i)} \cup Late
  BY FiredEventsShape
<1>4. ASSUME NEW i \in DOMAIN c, i \in DOMAIN fired PROVE fired[i] \in Event
  <2>1. fired[i] = [kind |-> IF row[i] = New THEN "on" ELSE "moved",
                    at |-> c[i], id |-> IdOf(row, i), order |-> FindOrder(row, i)]
    BY <1>4, FiredEventsShape
  <2>2. c[i] \in Places /\ IdOf(row, i) \in Ids /\ FindOrder(row, i) \in Nat
    BY ContoursShape, IdOfType, OrdersType
  <2> QED BY <2>1, <2>2 DEF Event
<1>5. ASSUME NEW k \in Late PROVE fired[k] \in Event
  <2>1. PICK j \in Expired(row) : k = n + j
    OBVIOUS
  <2>2. fired[k] = [kind |-> "off", at |-> blobs[j].centroid,
                    id |-> blobs[j].id, order |-> OffOrder(row, j)]
    BY <2>1, FiredEventsShape
  <2>3. blobs[j] \in TrackedBlob /\ OffOrder(row, j) \in Nat
    BY <1>2, OrdersType DEF TypeOK
  <2> QED BY <2>2, <2>3 DEF Event, TrackedBlob
<1>6. \A k \in DOMAIN fired : fired[k] \in Event
  BY <1>3, <1>4, <1>5
<1>7. Late \subseteq Nat
  BY <1>1, <1>2
<1>8. DOMAIN fired \subseteq Nat
  BY <1>1, <1>3, <1>7
<1>9. fired \in [DOMAIN fired -> Event]
  BY <1>6 DEF FiredEvents
<1> QED BY <1>8, <1>9

-----------------------------------------------------------------------------
(* Type correctness.                                                       *)

\* The tracker starts with an empty vector and no calls.
LEMMA InitTypeOK == Init => TypeOK
<1> SUFFICES ASSUME Init PROVE TypeOK
  OBVIOUS
<1>1. Prev = {} /\ DOMAIN events = {}
  BY DEF Init, Prev
<1>2. IsFiniteSet(Prev)
  BY <1>1, FS_EmptySet
<1>3. currentID \in Ids
  BY TrackerAssumption DEF Init, Ids
<1>4. blobs \in [Prev -> TrackedBlob] /\ events \in [DOMAIN events -> Event]
  BY <1>1 DEF Init, Prev
<1> QED BY <1>1, <1>2, <1>3, <1>4 DEF TypeOK

\* A call of trackBlobs keeps the types.
LEMMA TrackBlobsTypeOK ==
  ASSUME TypeOK, NEW c \in Contours, TrackBlobs(c)
  PROVE  TypeOK'
<1>1. PICK row \in Matches(c) : /\ blobs' = NextBlobs(c, row)
                                /\ events' = FiredEvents(c, row)
                                /\ currentID' = IdAfter(Cardinality(NewIn(row)))
  BY DEF TrackBlobs
<1>2. NewIn(row) \in SUBSET DOMAIN c
  BY MatchesShape DEF NewIn
<1>3. Cardinality(NewIn(row)) \in 0 .. MaxBlobs
  BY <1>2, ContourCount
<1>4. currentID' \in Ids
  BY <1>1, <1>3, IdAfterType DEF TypeOK
<1>5. /\ IsFiniteSet(Prev') /\ Prev' \subseteq Nat \ {0}
      /\ blobs' \in [Prev' -> TrackedBlob]
      /\ \A j \in Prev' : blobs'[j].markedForDeletion <=> blobs'[j].framesLeft > 0
  BY <1>1, NextBlobsType DEF Prev
<1>6. DOMAIN events' \subseteq Nat /\ events' \in [DOMAIN events' -> Event]
  BY <1>1, FiredEventsType
<1> QED BY <1>4, <1>5, <1>6 DEF TypeOK

\* Nothing changes in a stuttering step.
LEMMA StutterTypeOK ==
  ASSUME TypeOK, UNCHANGED trackerVars
  PROVE  TypeOK'
BY DEF TypeOK, Prev, trackerVars

\* Whatever the camera sees, and however often the id counter wraps, the
\* vector, the counter and the calls keep their types; a ghost always has
\* between one and GhostFrames frames left.
THEOREM TypeCorrect == Spec => []TypeOK
<1>1. Init => TypeOK
  BY InitTypeOK
<1>2. TypeOK /\ [Next]_trackerVars => TypeOK'
  BY TrackBlobsTypeOK, StutterTypeOK DEF Next
<1> QED BY <1>1, <1>2, PTL DEF Spec

-----------------------------------------------------------------------------
(* Drift.                                                                  *)

\* A blob is never the displacement threshold or more away from where the
\* listener last heard of it.
THEOREM DriftCorrect == Spec => []DriftIsReported
<1>1. Init => DriftIsReported
  BY DEF Init, DriftIsReported, Prev
<1>2. ASSUME TypeOK, DriftIsReported, NEW c \in Contours, TrackBlobs(c)
      PROVE  DriftIsReported'
  <2>1. PICK row \in Matches(c) : blobs' = NextBlobs(c, row)
    BY <1>2 DEF TrackBlobs
  <2>2. ASSUME NEW i \in DOMAIN c
        PROVE  Dist[blobs'[i].origin][blobs'[i].centroid] < MinimumDisplacementThreshold
    <3> DEFINE origin == IF Displaced(c, row, i) THEN c[i] ELSE Origin(c, row, i)
    <3>0. blobs'[i] = Seen(IdOf(row, i), c[i], origin)
      BY <1>2, <2>1, NextBlobsShape
    <3> HIDE DEF origin
    <3>1. blobs'[i].centroid = c[i] /\ blobs'[i].origin = origin
      BY <3>0 DEF Seen
    <3> USE DEF origin
    <3>2. c[i] \in Places
      BY ContoursShape
    <3>3. Dist[c[i]][c[i]] = 0 /\ 0 < MinimumDisplacementThreshold
      BY <3>2, DistAssumption, TrackerAssumption
    <3>4. CASE Displaced(c, row, i) \/ row[i] = New
      BY <3>1, <3>3, <3>4 DEF Origin
    <3>5. CASE ~Displaced(c, row, i) /\ row[i] # New
      <4>1. ~(Dist[blobs[row[i]].origin][c[i]] >= MinimumDisplacementThreshold)
        BY <3>5 DEF Displaced
      <4>2. row[i] \in Prev /\ blobs[row[i]].origin \in Places
        BY <1>2, <3>5, MatchesShape DEF TypeOK, TrackedBlob
      <4>3. Dist[blobs[row[i]].origin][c[i]] \in Nat
        BY <3>2, <4>2, DistAssumption
      <4>4. Dist[blobs[row[i]].origin][c[i]] < MinimumDisplacementThreshold
        BY <4>1, <4>3, TrackerAssumption
      <4> QED BY <3>1, <3>5, <4>4 DEF Origin
    <3> QED BY <3>4, <3>5
  <2>3. ASSUME NEW j \in Kept(row)
        PROVE  LET k == CurSize(c) + j
               IN  Dist[blobs'[k].origin][blobs'[k].centroid] < MinimumDisplacementThreshold
    <3>1. blobs'[CurSize(c) + j] = Ghost(j)
      BY <1>2, <2>1, NextBlobsShape
    <3>2. Ghost(j).origin = blobs[j].origin /\ Ghost(j).centroid = blobs[j].centroid
      BY <1>2, GhostType
    <3>3. j \in Prev
      BY <1>2, GhostsArePrev
    <3> QED BY <1>2, <3>1, <3>2, <3>3 DEF DriftIsReported
  <2>4. Prev' = DOMAIN c \cup {CurSize(c) + j : j \in Kept(row)}
    BY <1>2, <2>1, NextBlobsShape DEF Prev
  <2> QED BY <2>2, <2>3, <2>4 DEF DriftIsReported
<1>3. DriftIsReported /\ UNCHANGED trackerVars => DriftIsReported'
  BY DEF DriftIsReported, Prev, trackerVars
<1>4. TypeOK /\ DriftIsReported /\ [Next]_trackerVars => DriftIsReported'
  BY <1>2, <1>3 DEF Next
<1> QED BY <1>1, <1>4, TypeCorrect, PTL DEF Spec

-----------------------------------------------------------------------------
(* Ids, until the counter wraps.                                           *)

\* What makes IdsDistinct inductive: every id in use has been issued, so that
\* the counter never repeats one.
IdInv ==
  /\ currentID >= 1
  /\ \A j \in Prev : blobs[j].id \in 1 .. currentID - 1
  /\ IdsDistinct

\* A finite set is larger than the part of it that lacks a member.
LEMMA SmallerPart ==
  ASSUME NEW S, IsFiniteSet(S), NEW T \in SUBSET S, NEW x \in S, x \notin T
  PROVE  /\ Cardinality(S) \in Nat /\ Cardinality(T) \in Nat
         /\ Cardinality(T) < Cardinality(S)
<1>1. IsFiniteSet(T) /\ Cardinality(T) <= Cardinality(S)
      /\ (Cardinality(S) = Cardinality(T) => S = T)
  BY FS_Subset
<1>2. Cardinality(S) \in Nat /\ Cardinality(T) \in Nat
  BY <1>1, FS_CardinalityType
<1>3. S # T
  OBVIOUS
<1> QED BY <1>1, <1>2, <1>3

\* A call that does not wrap the counter gives the new contours ids from the
\* counter on, each contour a larger one than the contours before it.
LEMMA NewIdsGrow ==
  ASSUME TypeOK, NEW c \in Contours, NEW row \in Matches(c),
         IdAfter(Cardinality(NewIn(row))) >= currentID
  PROVE  LET next == IdAfter(Cardinality(NewIn(row)))
         IN  /\ next = currentID + Cardinality(NewIn(row))
             /\ \A i \in NewIn(row) : IdOf(row, i) \in currentID .. next - 1
             /\ \A i, k \in NewIn(row) : i < k => IdOf(row, i) < IdOf(row, k)
<1> DEFINE N == Cardinality(NewIn(row))
           Earlier(i) == {k \in NewIn(row) : k < i}
           K(i) == Cardinality(Earlier(i))
<1>1. NewIn(row) \in SUBSET DOMAIN c /\ IsFiniteSet(DOMAIN c)
  BY MatchesShape, ContoursShape DEF NewIn
<1>2. IsFiniteSet(NewIn(row)) /\ NewIn(row) \subseteq Nat
  BY <1>1, FS_Subset, ContoursShape
<1>3. N \in 0 .. MaxBlobs
  BY <1>1, ContourCount
<1>4. currentID \in Ids
  BY DEF TypeOK
<1>5. currentID + N < IdLimit /\ IdAfter(N) = currentID + N
  <2> HIDE DEF N
  <2>1. IdAfter(N) >= currentID
    BY DEF N
  <2> QED BY <1>3, <1>4, <2>1, TrackerAssumption DEF IdAfter, Ids
<1>6. ASSUME NEW i \in NewIn(row)
      PROVE  K(i) \in Nat /\ K(i) < N /\ IdOf(row, i) = currentID + K(i)
  <2>1. Earlier(i) \in SUBSET NewIn(row) /\ i \notin Earlier(i)
    BY <1>2
  <2>2. K(i) \in Nat /\ K(i) < N
    BY <1>2, <2>1, SmallerPart
  <2>3. IdAfter(K(i)) = currentID + K(i)
    <3> HIDE DEF K, N
    <3> QED BY <1>3, <1>4, <1>5, <2>2, TrackerAssumption DEF IdAfter, Ids
  <2> QED BY <2>2, <2>3 DEF IdOf, NewIn
<1>7. ASSUME NEW i \in NewIn(row), NEW k \in NewIn(row), i < k
      PROVE  K(i) < K(k)
  <2>1. Earlier(i) \in SUBSET Earlier(k) /\ i \in Earlier(k) /\ i \notin Earlier(i)
    BY <1>2, <1>7
  <2>2. IsFiniteSet(Earlier(k))
    BY <1>2, FS_Subset
  <2> QED BY <2>1, <2>2, SmallerPart
<1> HIDE DEF K, N
<1>8. \A i \in NewIn(row) : IdOf(row, i) \in currentID .. (currentID + N) - 1
  BY <1>3, <1>4, <1>6 DEF Ids
<1>9. \A i, k \in NewIn(row) : i < k => IdOf(row, i) < IdOf(row, k)
  BY <1>4, <1>6, <1>7 DEF Ids
<1> QED BY <1>5, <1>8, <1>9 DEF N

\* A contour with the id of a previous blob continues that blob.
LEMMA SameIdContinues ==
  ASSUME TypeOK, IdInv, NEW c \in Contours, NEW row \in Matches(c),
         IdAfter(Cardinality(NewIn(row))) >= currentID,
         NEW i \in DOMAIN c, NEW j \in Prev, IdOf(row, i) = blobs[j].id
  PROVE  row[i] = j /\ row[i] # New
<1>1. blobs[j].id \in 1 .. currentID - 1 /\ currentID \in Ids
  BY DEF IdInv, TypeOK
<1>2. CASE row[i] = New
  <2>1. i \in NewIn(row)
    BY <1>2, MatchesShape DEF NewIn
  <2>2. IdOf(row, i) \in currentID .. IdAfter(Cardinality(NewIn(row))) - 1
    BY <2>1, NewIdsGrow
  <2> QED BY <1>1, <2>2 DEF Ids
<1>3. CASE row[i] # New
  <2>1. row[i] \in Prev /\ IdOf(row, i) = blobs[row[i]].id
    BY <1>3, MatchesShape DEF IdOf
  <2> QED BY <1>3, <2>1 DEF IdInv, IdsDistinct
<1> QED BY <1>2, <1>3

\* No two contours get the same id.
LEMMA ContourIdsDistinct ==
  ASSUME TypeOK, IdInv, NEW c \in Contours, NEW row \in Matches(c),
         IdAfter(Cardinality(NewIn(row))) >= currentID,
         NEW i \in DOMAIN c, NEW k \in DOMAIN c, IdOf(row, i) = IdOf(row, k)
  PROVE  i = k
<1>1. DOMAIN row = DOMAIN c /\ DOMAIN c \subseteq Nat
  BY MatchesShape, ContoursShape
<1>2. IdOf(row, i) \in Ids /\ IdOf(row, k) \in Ids
  BY IdOfType
<1>3. CASE row[i] # New
  <2>1. row[i] \in Prev /\ IdOf(row, k) = blobs[row[i]].id
    BY <1>3, MatchesShape DEF IdOf
  <2>2. row[k] = row[i]
    BY <2>1, SameIdContinues
  <2> QED BY <1>3, <2>2, MatchesShape
<1>4. CASE row[k] # New
  <2>1. row[k] \in Prev /\ IdOf(row, k) = blobs[row[k]].id
    BY <1>4, MatchesShape DEF IdOf
  <2>2. row[i] = row[k]
    BY <2>1, SameIdContinues
  <2> QED BY <1>4, <2>2, MatchesShape
<1>5. CASE row[i] = New /\ row[k] = New
  <2>1. i \in NewIn(row) /\ k \in NewIn(row)
    BY <1>1, <1>5 DEF NewIn
  <2>2. \A a, b \in NewIn(row) : a < b => IdOf(row, a) < IdOf(row, b)
    BY NewIdsGrow
  <2>3. IdOf(row, i) \in Int
    BY <1>2, TrackerAssumption DEF Ids
  <2>4. ~(i < k) /\ ~(k < i)
    BY <2>1, <2>2, <2>3
  <2> QED BY <1>1, <2>4
<1> QED BY <1>3, <1>4, <1>5

\* The ids of the new vector.
LEMMA NextVectorIds ==
  ASSUME TypeOK, NEW c \in Contours, NEW row \in Matches(c), blobs' = NextBlobs(c, row)
  PROVE  /\ Prev' = DOMAIN c \cup {CurSize(c) + j : j \in Kept(row)}
         /\ \A i \in DOMAIN c : blobs'[i].id = IdOf(row, i) /\ blobs'[i].centroid = c[i]
         /\ \A j \in Kept(row) :
              /\ CurSize(c) + j \notin DOMAIN c
              /\ blobs'[CurSize(c) + j].id = blobs[j].id
              /\ blobs'[CurSize(c) + j].centroid = blobs[j].centroid
<1>1. Prev' = DOMAIN c \cup {CurSize(c) + j : j \in Kept(row)}
  BY NextBlobsShape DEF Prev
<1>2. ASSUME NEW i \in DOMAIN c
      PROVE  blobs'[i].id = IdOf(row, i) /\ blobs'[i].centroid = c[i]
  <2> DEFINE origin == IF Displaced(c, row, i) THEN c[i] ELSE Origin(c, row, i)
  <2>1. blobs'[i] = Seen(IdOf(row, i), c[i], origin)
    BY NextBlobsShape
  <2> HIDE DEF origin
  <2> QED BY <2>1 DEF Seen
<1>3. ASSUME NEW j \in Kept(row)
      PROVE  /\ CurSize(c) + j \notin DOMAIN c
             /\ blobs'[CurSize(c) + j].id = blobs[j].id
             /\ blobs'[CurSize(c) + j].centroid = blobs[j].centroid
  BY NextBlobsShape, GhostType
<1> QED BY <1>1, <1>2, <1>3

\* A call of trackBlobs that does not wrap the counter keeps the ids distinct.
LEMMA TrackBlobsIdInv ==
  ASSUME TypeOK, IdInv, NEW c \in Contours, TrackBlobs(c), currentID' >= currentID
  PROVE  IdInv'
<1>1. PICK row \in Matches(c) : /\ blobs' = NextBlobs(c, row)
                                /\ currentID' = IdAfter(Cardinality(NewIn(row)))
  BY DEF TrackBlobs
<1> DEFINE n == CurSize(c)
<1>2. /\ Prev' = DOMAIN c \cup {n + j : j \in Kept(row)}
      /\ \A i \in DOMAIN c : blobs'[i].id = IdOf(row, i)
      /\ \A j \in Kept(row) : n + j \notin DOMAIN c /\ blobs'[n + j].id = blobs[j].id
  BY <1>1, NextVectorIds
<1>3. Kept(row) \subseteq Prev
  BY GhostsArePrev
<1>4. \A i \in DOMAIN c, j \in Kept(row) : IdOf(row, i) # blobs[j].id
  BY MatchesShape DEF Kept, Missing
<1>5. currentID \in Ids /\ currentID' \in Ids
  BY TrackBlobsTypeOK DEF TypeOK
<1>6. currentID >= 1 /\ \A j \in Prev : blobs[j].id \in 1 .. currentID - 1
  BY DEF IdInv
<1>7. ASSUME NEW i \in DOMAIN c PROVE IdOf(row, i) \in 1 .. currentID' - 1
  <2>1. CASE row[i] = New
    <3>1. i \in NewIn(row)
      BY <2>1, MatchesShape DEF NewIn
    <3>2. IdOf(row, i) \in currentID .. currentID' - 1
      BY <1>1, <3>1, NewIdsGrow
    <3> QED BY <1>5, <1>6, <3>2 DEF Ids
  <2>2. CASE row[i] # New
    <3>1. row[i] \in Prev /\ IdOf(row, i) = blobs[row[i]].id
      BY <2>2, MatchesShape DEF IdOf
    <3> QED BY <1>5, <1>6, <3>1 DEF Ids
  <2> QED BY <2>1, <2>2
<1> HIDE DEF n
<1>8. \A j \in Kept(row) : blobs[j].id \in 1 .. currentID' - 1
  BY <1>3, <1>5, <1>6 DEF Ids
<1>9. \A k \in Prev' : blobs'[k].id \in 1 .. currentID' - 1
  BY <1>2, <1>7, <1>8
<1>10. ASSUME NEW a \in Prev', NEW b \in Prev', blobs'[a].id = blobs'[b].id
       PROVE  a = b
  <2>1. CASE a \in DOMAIN c /\ b \in DOMAIN c
    BY <1>1, <1>2, <1>10, <2>1, ContourIdsDistinct
  <2>2. CASE a \notin DOMAIN c /\ b \notin DOMAIN c
    BY <1>2, <1>3, <1>10, <2>2 DEF IdInv, IdsDistinct
  <2>3. CASE a \in DOMAIN c /\ b \notin DOMAIN c
    BY <1>2, <1>4, <1>10, <2>3
  <2>4. CASE a \notin DOMAIN c /\ b \in DOMAIN c
    BY <1>2, <1>4, <1>10, <2>4
  <2> QED BY <2>1, <2>2, <2>3, <2>4
<1>11. currentID' >= 1
  BY <1>5, <1>6 DEF Ids
<1> QED BY <1>9, <1>10, <1>11 DEF IdInv, IdsDistinct

\* Until the counter wraps, every id in use has been issued once.
LEMMA IdInvCorrect == SpecUntilWrap => [](TypeOK /\ IdInv)
<1>1. Init => TypeOK /\ IdInv
  BY InitTypeOK DEF Init, IdInv, IdsDistinct, Prev
<1>2. TypeOK /\ IdInv /\ [Next /\ currentID' >= currentID]_trackerVars
        => (TypeOK /\ IdInv)'
  <2>1. TypeOK /\ IdInv /\ UNCHANGED trackerVars => IdInv'
    BY DEF IdInv, IdsDistinct, Prev, trackerVars
  <2> QED BY <2>1, TrackBlobsTypeOK, TrackBlobsIdInv, StutterTypeOK DEF Next
<1> QED BY <1>1, <1>2, PTL DEF SpecUntilWrap

\* Until the id counter wraps, no two blobs or ghosts have the same id,
\* whatever the camera sees.
THEOREM IdsDistinctCorrect == SpecUntilWrap => []IdsDistinct
BY IdInvCorrect, PTL DEF IdInv

\* No place is out of reach of itself.
LEMMA SamePlaceInReach ==
  ASSUME NEW p \in Places
  PROVE  Dist[p][p] <= RejectDistanceThreshold
BY DistAssumption, TrackerAssumption

\* Until the id counter wraps, an id that survives a frame is within
\* reject_distance_threshold of where it was in the frame before.
THEOREM NeverJumps == SpecUntilWrap => IdNeverJumps
<1> DEFINE Near(j, k) == Dist[blobs'[k].centroid][blobs[j].centroid] <= RejectDistanceThreshold
           Stays == \A j \in DOMAIN blobs, k \in DOMAIN blobs' :
                      blobs'[k].id = blobs[j].id => Near(j, k)
<1>1. ASSUME TypeOK, IdInv, NEW c \in Contours, TrackBlobs(c), currentID' >= currentID
      PROVE  Stays
  <2>1. PICK row \in Matches(c) : /\ blobs' = NextBlobs(c, row)
                                  /\ currentID' = IdAfter(Cardinality(NewIn(row)))
    BY <1>1 DEF TrackBlobs
  <2>2. IdAfter(Cardinality(NewIn(row))) >= currentID
    BY <1>1, <2>1
  <2> SUFFICES ASSUME NEW j \in Prev, NEW k \in Prev', blobs'[k].id = blobs[j].id
               PROVE  Near(j, k)
    BY DEF Prev
  <2>3. CASE k \in DOMAIN c
    <3>1. IdOf(row, k) = blobs[j].id /\ blobs'[k].centroid = c[k]
      BY <1>1, <2>1, <2>3, NextVectorIds
    <3>2. row[k] = j /\ row[k] # New
      BY <1>1, <2>2, <2>3, <3>1, SameIdContinues
    <3>3. Error(c, k, j) <= RejectDistanceThreshold
      BY <1>1, <2>3, <3>2, MatchesShape
    <3> QED BY <3>1, <3>3 DEF Error
  <2>4. CASE k \notin DOMAIN c
    <3>1. PICK m \in Kept(row) : k = CurSize(c) + m
      BY <1>1, <2>1, <2>4, NextVectorIds
    <3>2. blobs'[k].id = blobs[m].id /\ blobs'[k].centroid = blobs[m].centroid
      BY <1>1, <2>1, <3>1, NextVectorIds
    <3>3. m \in Prev
      BY <1>1, GhostsArePrev
    <3>4. m = j
      BY <1>1, <3>2, <3>3 DEF IdInv, IdsDistinct
    <3>5. blobs[j].centroid \in Places
      BY <1>1 DEF TypeOK, TrackedBlob
    <3> QED BY <3>2, <3>4, <3>5, SamePlaceInReach
  <2> QED BY <2>3, <2>4
<1>2. ASSUME TypeOK, IdInv, [Next /\ currentID' >= currentID]_trackerVars
      PROVE  [Stays]_trackerVars
  BY <1>1, <1>2 DEF Next
<1>3. SpecUntilWrap => [][Stays]_trackerVars
  BY <1>2, IdInvCorrect, PTL DEF SpecUntilWrap
<1> QED BY <1>3 DEF IdNeverJumps

-----------------------------------------------------------------------------
(* The size of the vector.                                                 *)

\* The blobs of the vector that have m frames left.
Cohort(m) == {j \in Prev : blobs[j].framesLeft = m}

\* What makes VectorBounded inductive: every frame adds one cohort, of at
\* most MaxBlobs blobs, and a ghost moves to the cohort below its own.
CohortsBounded == \A m \in 0 .. GhostFrames : Cardinality(Cohort(m)) <= MaxBlobs

\* A finite set that injects into another is not larger.
LEMMA ShiftedCount ==
  ASSUME NEW n \in Nat, NEW S \in SUBSET Nat, IsFiniteSet(S),
         NEW T, \A k \in T : k \in Nat /\ k - n \in S
  PROVE  IsFiniteSet(T) /\ Cardinality(T) <= Cardinality(S)
<1> DEFINE f == [k \in T |-> k - n]
<1>1. f \in [T -> S]
  OBVIOUS
<1>2. \A a, b \in T : f[a] = f[b] => a = b
  OBVIOUS
<1>3. f \in Injection(T, S)
  BY <1>1, <1>2 DEF Injection, IsInjective
<1> QED BY <1>3, FS_Injection

\* A call of trackBlobs keeps the cohorts bounded.
LEMMA TrackBlobsCohorts ==
  ASSUME TypeOK, CohortsBounded, NEW c \in Contours, TrackBlobs(c)
  PROVE  CohortsBounded'
<1>1. PICK row \in Matches(c) : blobs' = NextBlobs(c, row)
  BY DEF TrackBlobs
<1> DEFINE n == CurSize(c)
<1>2. n \in Nat /\ DOMAIN c = 1 .. n /\ GhostFrames \in Nat /\ MaxBlobs \in Nat
  BY ContoursShape, TrackerAssumption
<1>3. Prev' = DOMAIN c \cup {n + j : j \in Kept(row)}
  BY <1>1, NextVectorIds
<1>4. ASSUME NEW i \in DOMAIN c PROVE blobs'[i].framesLeft = 0
  <2> DEFINE origin == IF Displaced(c, row, i) THEN c[i] ELSE Origin(c, row, i)
  <2>1. blobs'[i] = Seen(IdOf(row, i), c[i], origin)
    BY <1>1, NextBlobsShape
  <2> HIDE DEF origin
  <2> QED BY <2>1 DEF Seen
<1>5. ASSUME NEW j \in Kept(row)
      PROVE  /\ blobs'[n + j].framesLeft = FramesLeft(j)
             /\ FramesLeft(j) \in 1 .. GhostFrames
             /\ j \in Prev /\ j \in Nat
  <2>1. blobs'[n + j] = Ghost(j)
    BY <1>1, NextBlobsShape
  <2>2. Ghost(j).framesLeft = FramesLeft(j)
    BY DEF Ghost
  <2>3. Ghost(j).framesLeft > 0 /\ Ghost(j).framesLeft \in 0 .. GhostFrames
    BY GhostType DEF TrackedBlob
  <2>4. FramesLeft(j) \in 1 .. GhostFrames
    BY <1>2, <2>2, <2>3
  <2> QED BY <2>1, <2>2, <2>4, GhostsArePrev
<1>6. IsFiniteSet(Prev) /\ Prev \subseteq Nat
  BY DEF TypeOK
<1> HIDE DEF n
<1>7. Cardinality(Cohort(0)') <= MaxBlobs
  <2>1. Cohort(0)' \subseteq DOMAIN c
    BY <1>2, <1>3, <1>5 DEF Cohort
  <2> QED BY <2>1, ContourCount, TrackerAssumption
<1>8. ASSUME NEW m \in 1 .. GhostFrames PROVE Cardinality(Cohort(m)') <= MaxBlobs
  <2> DEFINE below == IF m = GhostFrames THEN 0 ELSE m + 1
  <2>1. below \in 0 .. GhostFrames
    BY <1>2
  <2>2. ASSUME NEW k \in Cohort(m)' PROVE k \in Nat /\ k - n \in Cohort(below)
    <3>1. PICK j \in Kept(row) : k = n + j
      BY <1>2, <1>3, <1>4, <2>2 DEF Cohort
    <3>2. FramesLeft(j) = m /\ j \in Prev /\ j \in Nat
      BY <1>5, <2>2, <3>1 DEF Cohort
    <3>3. /\ blobs[j].framesLeft \in 0 .. GhostFrames
          /\ blobs[j].markedForDeletion <=> blobs[j].framesLeft > 0
      BY <3>2 DEF TypeOK, TrackedBlob
    <3>4. blobs[j].framesLeft = below
      BY <1>2, <3>2, <3>3 DEF FramesLeft
    <3>5. k \in Nat /\ k - n = j
      BY <1>2, <3>1, <3>2
    <3> QED BY <3>2, <3>4, <3>5 DEF Cohort
  <2>3. Cohort(below) \in SUBSET Prev
    BY DEF Cohort
  <2>4. IsFiniteSet(Cohort(below)) /\ Cohort(below) \in SUBSET Nat
    BY <1>6, <2>3, FS_Subset
  <2> HIDE DEF below
  <2>5. /\ IsFiniteSet(Cohort(m)')
        /\ Cardinality(Cohort(m)') <= Cardinality(Cohort(below))
    BY <1>2, <2>2, <2>4, ShiftedCount
  <2>6. Cardinality(Cohort(below)) <= MaxBlobs
    BY <2>1 DEF CohortsBounded
  <2>7. Cardinality(Cohort(m)') \in Nat /\ Cardinality(Cohort(below)) \in Nat
    BY <2>4, <2>5, FS_CardinalityType
  <2> QED BY <1>2, <2>5, <2>6, <2>7
<1> QED BY <1>2, <1>7, <1>8 DEF CohortsBounded

\* A cohort can be numbered from 1 to MaxBlobs.
LEMMA CohortNumbered ==
  ASSUME TypeOK, CohortsBounded, NEW m \in 0 .. GhostFrames
  PROVE  \E f \in [Cohort(m) -> 1 .. MaxBlobs] :
            \A a, b \in Cohort(m) : f[a] = f[b] => a = b
<1> DEFINE S == Cohort(m)
           N == Cardinality(S)
<1>1. IsFiniteSet(S)
  <2>1. IsFiniteSet(Prev) /\ S \in SUBSET Prev
    BY DEF TypeOK, Cohort
  <2> QED BY <2>1, FS_Subset
<1>2. N \in Nat /\ N <= MaxBlobs
  BY <1>1, FS_CardinalityType DEF CohortsBounded
<1>3. IsFiniteSet(1 .. N) /\ Cardinality(1 .. N) = N
  BY <1>2, FS_Interval
<1>4. ExistsBijection(S, 1 .. N)
  BY <1>1, <1>3, FS_SameCardinalityBij
<1>5. PICK f : f \in Injection(S, 1 .. N)
  BY <1>4 DEF ExistsBijection, Bijection
<1>6. f \in [S -> 1 .. N] /\ \A a, b \in S : f[a] = f[b] => a = b
  BY <1>5 DEF Injection, IsInjective
<1>7. 1 .. N \subseteq 1 .. MaxBlobs
  BY <1>2, TrackerAssumption
<1> HIDE DEF N, S
<1>8. f \in [S -> 1 .. MaxBlobs]
  BY <1>6, <1>7
<1> QED BY <1>6, <1>8 DEF S

\* Bounded cohorts make a bounded vector: a blob is told apart by its cohort
\* and its number there.
LEMMA CohortsBoundVector ==
  ASSUME TypeOK, CohortsBounded
  PROVE  VectorBounded
<1> DEFINE Numbers(m, f) == /\ f \in [Cohort(m) -> 1 .. MaxBlobs]
                           /\ \A a, b \in Cohort(m) : f[a] = f[b] => a = b
           number == [m \in 0 .. GhostFrames |-> CHOOSE f : Numbers(m, f)]
           Cells == (0 .. GhostFrames) \X (1 .. MaxBlobs)
           cell == [j \in Prev |-> <<blobs[j].framesLeft, number[blobs[j].framesLeft][j]>>]
<1>1. GhostFrames \in Nat /\ MaxBlobs \in Nat
  BY TrackerAssumption
<1>2. ASSUME NEW m \in 0 .. GhostFrames PROVE Numbers(m, number[m])
  <2>1. \E f : Numbers(m, f)
    BY CohortNumbered
  <2> HIDE DEF Numbers
  <2>2. Numbers(m, CHOOSE f : Numbers(m, f))
    BY <2>1
  <2> QED BY <2>2
<1> HIDE DEF number
<1>3. ASSUME NEW j \in Prev
      PROVE  /\ blobs[j].framesLeft \in 0 .. GhostFrames
             /\ j \in Cohort(blobs[j].framesLeft)
             /\ number[blobs[j].framesLeft][j] \in 1 .. MaxBlobs
  <2>1. blobs[j].framesLeft \in 0 .. GhostFrames /\ j \in Cohort(blobs[j].framesLeft)
    BY DEF TypeOK, TrackedBlob, Cohort
  <2> QED BY <1>2, <2>1
<1>4. cell \in [Prev -> Cells]
  BY <1>3
<1>5. ASSUME NEW a \in Prev, NEW b \in Prev, cell[a] = cell[b] PROVE a = b
  <2>1. /\ blobs[a].framesLeft = blobs[b].framesLeft
        /\ number[blobs[a].framesLeft][a] = number[blobs[b].framesLeft][b]
    BY <1>5
  <2> QED BY <1>2, <1>3, <2>1
<1>6. cell \in Injection(Prev, Cells)
  BY <1>4, <1>5 DEF Injection, IsInjective
<1>7. /\ IsFiniteSet(0 .. GhostFrames) /\ Cardinality(0 .. GhostFrames) = GhostFrames + 1
      /\ IsFiniteSet(1 .. MaxBlobs) /\ Cardinality(1 .. MaxBlobs) = MaxBlobs
  BY <1>1, FS_Interval
<1>8. IsFiniteSet(Cells) /\ Cardinality(Cells) = (GhostFrames + 1) * MaxBlobs
  BY <1>7, FS_Product
<1> HIDE DEF Cells, cell
<1>9. Cardinality(Prev) <= (GhostFrames + 1) * MaxBlobs
  BY <1>6, <1>8, FS_Injection
<1>10. (GhostFrames + 1) * MaxBlobs = MaxBlobs * (GhostFrames + 1)
  BY <1>1
<1> QED BY <1>9, <1>10 DEF VectorBounded

\* However often the id counter wraps, the vector holds at most MaxBlobs blobs
\* for each frame a ghost lives and for the present one.
THEOREM VectorBoundedCorrect == Spec => []VectorBounded
<1>1. Init => CohortsBounded
  <2> SUFFICES ASSUME Init, NEW m \in 0 .. GhostFrames
               PROVE  Cardinality(Cohort(m)) <= MaxBlobs
    BY DEF CohortsBounded
  <2>1. Cohort(m) = {}
    BY DEF Init, Cohort, Prev
  <2> QED BY <2>1, FS_EmptySet, TrackerAssumption
<1>2. CohortsBounded /\ UNCHANGED trackerVars => CohortsBounded'
  BY DEF CohortsBounded, Cohort, Prev, trackerVars
<1>3. TypeOK /\ CohortsBounded /\ [Next]_trackerVars => CohortsBounded'
  BY <1>2, TrackBlobsCohorts DEF Next
<1>4. TypeOK /\ CohortsBounded => VectorBounded
  BY CohortsBoundVector
<1> QED BY <1>1, <1>3, <1>4, TypeCorrect, PTL DEF Spec

-----------------------------------------------------------------------------
(* Sums over finite sets.                                                  *)

\* The element a sum starts with, and what it is then.
First(S) == CHOOSE x \in S : TRUE
SumStep(f, g, S) == IF S = {} THEN 0 ELSE f[First(S)] + g[S \ {First(S)}]

\* sum[S] is the sum of f over S, for the parts S of a set.
IsSum(sum, f, D) == sum = [S \in SUBSET D |-> SumStep(f, sum, S)]

\* Every function on a finite set has a sum: it is fixed on the parts of n
\* members by what it is on the smaller ones.
LEMMA SumExists ==
  ASSUME NEW D, IsFiniteSet(D), NEW f
  PROVE  \E sum : IsSum(sum, f, D)
<1> DEFINE Upto(n, g) == \A S \in SUBSET D : Cardinality(S) <= n => g[S] = SumStep(f, g, S)
           Bad == {n \in Nat : ~\E g : Upto(n, g)}
<1>1. \A S \in SUBSET D : IsFiniteSet(S) /\ Cardinality(S) \in Nat
  BY FS_Subset, FS_CardinalityType
<1>2. Bad = {}
  <2> SUFFICES ASSUME Bad # {} PROVE FALSE
    OBVIOUS
  <2>1. Bad \in SUBSET Nat
    OBVIOUS
  <2>2. PICK n \in Bad : \A m \in Bad : n <= m
    <3> HIDE DEF Bad
    <3> QED BY <2>1, LeastOfNumbers
  <2>3. CASE n = 0
    <3> DEFINE g == [S \in SUBSET D |-> 0]
    <3>1. \A S \in SUBSET D : Cardinality(S) <= 0 => S = {}
      BY <1>1, FS_EmptySet
    <3>2. Upto(0, g)
      BY <3>1 DEF SumStep
    <3> HIDE DEF g, Upto
    <3> QED BY <2>2, <2>3, <3>2
  <2>4. CASE n # 0
    <3>1. n \in Nat /\ n - 1 \in Nat
      BY <2>2, <2>4
    <3>2. n - 1 \notin Bad
      <4> HIDE DEF Bad
      <4> QED BY <2>2, <3>1
    <3>3. PICK g : Upto(n - 1, g)
      BY <3>1, <3>2
    <3> DEFINE h == [S \in SUBSET D |-> SumStep(f, g, S)]
    <3>4. \A S \in SUBSET D : Cardinality(S) <= n - 1 => h[S] = g[S]
      BY <3>3
    <3>5. ASSUME NEW S \in SUBSET D, Cardinality(S) <= n PROVE h[S] = SumStep(f, h, S)
      <4>1. CASE S = {}
        BY <4>1 DEF SumStep
      <4>2. CASE S # {}
        <5> DEFINE T == S \ {First(S)}
        <5>1. First(S) \in S
          BY <4>2 DEF First
        <5>2. T \in SUBSET D /\ Cardinality(T) = Cardinality(S) - 1
          BY <1>1, <5>1, FS_RemoveElement
        <5>3. Cardinality(T) <= n - 1
          BY <1>1, <3>1, <3>5, <5>2
        <5>4. h[T] = g[T]
          BY <3>4, <5>2, <5>3
        <5>5. h[S] = SumStep(f, g, S)
          OBVIOUS
        <5> HIDE DEF h
        <5> QED BY <4>2, <5>4, <5>5 DEF SumStep
      <4> QED BY <4>1, <4>2
    <3> HIDE DEF h
    <3>6. Upto(n, h)
      BY <3>5
    <3> HIDE DEF Upto
    <3> QED BY <2>2, <3>6
  <2> QED BY <2>3, <2>4
<1>3. Cardinality(D) \in Nat /\ \A S \in SUBSET D : Cardinality(S) <= Cardinality(D)
  BY FS_Subset, FS_CardinalityType
<1>4. PICK g : Upto(Cardinality(D), g)
  BY <1>2, <1>3
<1>5. \A S \in SUBSET D : g[S] = SumStep(f, g, S)
  BY <1>3, <1>4
<1> HIDE DEF Upto
<1> DEFINE sum == [S \in SUBSET D |-> g[S]]
<1>6. ASSUME NEW S \in SUBSET D PROVE sum[S] = SumStep(f, sum, S)
  <2>1. S # {} => First(S) \in S
    BY DEF First
  <2>2. S \ {First(S)} \in SUBSET D
    OBVIOUS
  <2>3. sum[S \ {First(S)}] = g[S \ {First(S)}] /\ sum[S] = g[S]
    BY <2>2
  <2> HIDE DEF sum
  <2> QED BY <1>5, <2>3 DEF SumStep
<1>7. sum = [S \in SUBSET D |-> sum[S]]
  OBVIOUS
<1> HIDE DEF sum
<1>8. sum = [S \in SUBSET D |-> SumStep(f, sum, S)]
  BY <1>6, <1>7
<1> QED BY <1>8 DEF IsSum

\* What a sum is, without its recursion.
LEMMA SumEmpty ==
  ASSUME NEW D, NEW f, NEW sum, IsSum(sum, f, D)
  PROVE  sum[{}] = 0
BY DEF IsSum, SumStep

\* What the sum of a part starts with.
LEMMA SumFirst ==
  ASSUME NEW D, NEW f, NEW sum, IsSum(sum, f, D), NEW S \in SUBSET D, S # {}
  PROVE  /\ First(S) \in S /\ S \ {First(S)} \in SUBSET D
         /\ sum[S] = f[First(S)] + sum[S \ {First(S)}]
<1>1. sum[S] = SumStep(f, sum, S)
  BY DEF IsSum
<1>2. First(S) \in S
  BY DEF First
<1> QED BY <1>1, <1>2 DEF SumStep

\* Sums of natural numbers are natural numbers.
LEMMA SumType ==
  ASSUME NEW D, IsFiniteSet(D), NEW f \in [D -> Nat], NEW sum, IsSum(sum, f, D)
  PROVE  \A S \in SUBSET D : sum[S] \in Nat
<1> DEFINE Bad == {S \in SUBSET D : sum[S] \notin Nat}
<1> SUFFICES ASSUME Bad # {} PROVE FALSE
  OBVIOUS
<1>1. Bad \in SUBSET (SUBSET D)
  OBVIOUS
<1>2. PICK S \in Bad : \A x \in S : S \ {x} \notin Bad
  <2> HIDE DEF Bad
  <2> QED BY <1>1, SmallestOfSets
<1>3. S \in SUBSET D /\ S # {}
  <2>1. S \in SUBSET D /\ sum[S] \notin Nat
    BY <1>2
  <2> QED BY <2>1, SumEmpty
<1>4. /\ First(S) \in S /\ S \ {First(S)} \in SUBSET D
      /\ sum[S] = f[First(S)] + sum[S \ {First(S)}]
  BY <1>3, SumFirst
<1>5. sum[S \ {First(S)}] \in Nat
  BY <1>2, <1>4
<1>6. f[First(S)] \in Nat
  BY <1>3, <1>4
<1> QED BY <1>2, <1>4, <1>5, <1>6

\* Any element may come first.
LEMMA SumWithout ==
  ASSUME NEW D, IsFiniteSet(D), NEW f \in [D -> Nat], NEW sum, IsSum(sum, f, D)
  PROVE  \A S \in SUBSET D : \A x \in S : sum[S] = f[x] + sum[S \ {x}]
<1> DEFINE Bad == {S \in SUBSET D : \E x \in S : sum[S] # f[x] + sum[S \ {x}]}
<1> SUFFICES ASSUME Bad # {} PROVE FALSE
  OBVIOUS
<1>1. Bad \in SUBSET (SUBSET D)
  OBVIOUS
<1>2. PICK S \in Bad : \A x \in S : S \ {x} \notin Bad
  <2> HIDE DEF Bad
  <2> QED BY <1>1, SmallestOfSets
<1>3. S \in SUBSET D /\ \E x \in S : sum[S] # f[x] + sum[S \ {x}]
  BY <1>2
<1>4. PICK x \in S : sum[S] # f[x] + sum[S \ {x}]
  BY <1>3
<1> DEFINE p == First(S)
<1>5. p \in S /\ S \ {p} \in SUBSET D /\ sum[S] = f[p] + sum[S \ {p}]
  BY <1>3, SumFirst
<1> HIDE DEF p
<1>6. x # p /\ x \in S \ {p} /\ p \in S \ {x} /\ S \ {x} \in SUBSET D
  BY <1>3, <1>4, <1>5
<1>7. S \ {p} \notin Bad /\ S \ {x} \notin Bad
  BY <1>2, <1>5
<1>8. sum[S \ {p}] = f[x] + sum[(S \ {p}) \ {x}]
  BY <1>5, <1>6, <1>7
<1>9. sum[S \ {x}] = f[p] + sum[(S \ {x}) \ {p}]
  BY <1>6, <1>7
<1>10. (S \ {p}) \ {x} = (S \ {x}) \ {p}
  OBVIOUS
<1>11. f[x] \in Nat /\ f[p] \in Nat /\ sum[(S \ {x}) \ {p}] \in Nat
  <2>1. (S \ {x}) \ {p} \in SUBSET D /\ x \in D /\ p \in D
    BY <1>3, <1>5
  <2> QED BY <2>1, SumType
<1> DEFINE rest == sum[(S \ {x}) \ {p}]
<1>12. sum[S \ {p}] = f[x] + rest /\ sum[S \ {x}] = f[p] + rest /\ rest \in Nat
  BY <1>8, <1>9, <1>10, <1>11
<1> HIDE DEF rest
<1>13. f[p] + (f[x] + rest) = f[x] + (f[p] + rest)
  BY <1>11, <1>12
<1> QED BY <1>4, <1>5, <1>12, <1>13

\* Sums of the same numbers are the same.
LEMMA SumSame ==
  ASSUME NEW D, IsFiniteSet(D), NEW f, NEW g, NEW sum, NEW tot,
         IsSum(sum, f, D), IsSum(tot, g, D),
         NEW T \in SUBSET D, \A x \in T : f[x] = g[x]
  PROVE  sum[T] = tot[T]
<1> DEFINE Bad == {S \in SUBSET T : sum[S] # tot[S]}
<1> SUFFICES ASSUME Bad # {} PROVE FALSE
  OBVIOUS
<1>1. Bad \in SUBSET (SUBSET D)
  OBVIOUS
<1>2. PICK S \in Bad : \A x \in S : S \ {x} \notin Bad
  <2> HIDE DEF Bad
  <2> QED BY <1>1, SmallestOfSets
<1>3. S \in SUBSET T /\ S \in SUBSET D /\ sum[S] # tot[S]
  BY <1>2
<1>4. S # {}
  <2>1. sum[{}] = 0 /\ tot[{}] = 0
    BY SumEmpty
  <2> QED BY <1>3, <2>1
<1>5. /\ First(S) \in S
      /\ sum[S] = f[First(S)] + sum[S \ {First(S)}]
      /\ tot[S] = g[First(S)] + tot[S \ {First(S)}]
  BY <1>3, <1>4, SumFirst
<1>6. S \ {First(S)} \notin Bad
  BY <1>2, <1>5
<1>7. sum[S \ {First(S)}] = tot[S \ {First(S)}]
  BY <1>3, <1>6
<1> QED BY <1>3, <1>5, <1>7

\* A sum of zeros is zero.
LEMMA SumOfZeros ==
  ASSUME NEW D, IsFiniteSet(D), NEW f, NEW sum, IsSum(sum, f, D),
         \A x \in D : f[x] = 0
  PROVE  \A S \in SUBSET D : sum[S] = 0
<1> DEFINE Bad == {S \in SUBSET D : sum[S] # 0}
<1> SUFFICES ASSUME Bad # {} PROVE FALSE
  OBVIOUS
<1>1. Bad \in SUBSET (SUBSET D)
  OBVIOUS
<1>2. PICK S \in Bad : \A x \in S : S \ {x} \notin Bad
  <2> HIDE DEF Bad
  <2> QED BY <1>1, SmallestOfSets
<1>3. S \in SUBSET D /\ S # {}
  <2>1. sum[{}] = 0
    BY SumEmpty
  <2> QED BY <1>2, <2>1
<1>4. /\ First(S) \in S /\ S \ {First(S)} \in SUBSET D
      /\ sum[S] = f[First(S)] + sum[S \ {First(S)}]
  BY <1>3, SumFirst
<1>5. sum[S \ {First(S)}] = 0
  BY <1>2, <1>4
<1>6. f[First(S)] = 0
  BY <1>3, <1>4
<1> QED BY <1>2, <1>4, <1>5, <1>6

\* A sum of natural numbers is zero when all of them are, and only then.
LEMMA SumZero ==
  ASSUME NEW D, IsFiniteSet(D), NEW f \in [D -> Nat], NEW sum, IsSum(sum, f, D)
  PROVE  sum[D] = 0 <=> \A x \in D : f[x] = 0
<1>1. ASSUME sum[D] = 0, NEW x \in D PROVE f[x] = 0
  <2>1. sum[D] = f[x] + sum[D \ {x}]
    BY SumWithout
  <2>2. sum[D \ {x}] \in Nat /\ f[x] \in Nat
    BY SumType
  <2> QED BY <1>1, <2>1, <2>2
<1>2. ASSUME \A x \in D : f[x] = 0 PROVE sum[D] = 0
  BY <1>2, SumOfZeros
<1> QED BY <1>1, <1>2

\* Two sums that agree but for two summands.
LEMMA SumOfTwo ==
  ASSUME NEW D, IsFiniteSet(D), NEW f \in [D -> Nat], NEW g \in [D -> Nat],
         NEW sum, IsSum(sum, f, D), NEW tot, IsSum(tot, g, D),
         NEW a \in D, NEW b \in D, a # b,
         \A x \in D : x # a /\ x # b => f[x] = g[x]
  PROVE  \E rest \in Nat : /\ sum[D] = f[a] + (f[b] + rest)
                           /\ tot[D] = g[a] + (g[b] + rest)
<1> DEFINE Rest == (D \ {a}) \ {b}
<1>1. D \in SUBSET D /\ D \ {a} \in SUBSET D /\ b \in D \ {a} /\ Rest \in SUBSET D
  OBVIOUS
<1>2. sum[D] = f[a] + sum[D \ {a}]
  BY <1>1, SumWithout
<1>3. tot[D] = g[a] + tot[D \ {a}]
  BY <1>1, SumWithout
<1>4. sum[D \ {a}] = f[b] + sum[Rest]
  BY <1>1, SumWithout
<1>5. tot[D \ {a}] = g[b] + tot[Rest]
  BY <1>1, SumWithout
<1>6. \A x \in Rest : f[x] = g[x]
  OBVIOUS
<1> HIDE DEF Rest
<1>7. sum[Rest] \in Nat
  BY <1>1, SumType
<1>8. sum[Rest] = tot[Rest]
  BY <1>1, <1>6, SumSame
<1> QED BY <1>2, <1>3, <1>4, <1>5, <1>7, <1>8

-----------------------------------------------------------------------------
(* The matching: the row chosen costs least.                                *)

\* What the entries of a row cost.
Cost(c, row, i) == IF row[i] = New THEN 0 ELSE Error(c, i, row[i])
Costs(c, row) == [i \in DOMAIN c |-> Cost(c, row, i)]

\* The total of a row is the sum of its costs.
LEMMA TotalIsSum ==
  ASSUME NEW c, IsFiniteSet(DOMAIN c), NEW row
  PROVE  \E sum : IsSum(sum, Costs(c, row), DOMAIN c) /\ TotalError(c, row) = sum[DOMAIN c]
<1> DEFINE D == DOMAIN c
           I == CHOOSE g : g = [S \in SUBSET D |->
                  IF S = {} THEN 0
                  ELSE (IF row[First(S)] = New THEN 0 ELSE Error(c, First(S), row[First(S)]))
                         + g[S \ {First(S)}]]
<1>1. TotalError(c, row) = I[D]
  BY DEF TotalError, MapThenSumSet, MapThenFoldSet, First
<1>2. PICK sum : IsSum(sum, Costs(c, row), D)
  BY SumExists
<1>3. ASSUME NEW g
      PROVE  /\ \A S \in SUBSET D :
                  SumStep(Costs(c, row), g, S) =
                    IF S = {} THEN 0
                    ELSE (IF row[First(S)] = New THEN 0 ELSE Error(c, First(S), row[First(S)]))
                           + g[S \ {First(S)}]
             /\ IsSum(g, Costs(c, row), D) <=>
                  g = [S \in SUBSET D |->
                        IF S = {} THEN 0
                        ELSE (IF row[First(S)] = New THEN 0 ELSE Error(c, First(S), row[First(S)]))
                               + g[S \ {First(S)}]]
  <2>1. ASSUME NEW S \in SUBSET D
        PROVE  SumStep(Costs(c, row), g, S) =
                 IF S = {} THEN 0
                 ELSE (IF row[First(S)] = New THEN 0 ELSE Error(c, First(S), row[First(S)]))
                        + g[S \ {First(S)}]
    <3>1. CASE S = {}
      BY <3>1 DEF SumStep
    <3>2. CASE S # {}
      <4>1. First(S) \in D
        BY <3>2 DEF First
      <4>2. Costs(c, row)[First(S)] =
              IF row[First(S)] = New THEN 0 ELSE Error(c, First(S), row[First(S)])
        BY <4>1 DEF Costs, Cost
      <4> QED BY <3>2, <4>2 DEF SumStep
    <3> QED BY <3>1, <3>2
  <2> QED BY <2>1 DEF IsSum
<1>4. I = [S \in SUBSET D |->
             IF S = {} THEN 0
             ELSE (IF row[First(S)] = New THEN 0 ELSE Error(c, First(S), row[First(S)]))
                    + I[S \ {First(S)}]]
  <2>1. sum = [S \in SUBSET D |->
             IF S = {} THEN 0
             ELSE (IF row[First(S)] = New THEN 0 ELSE Error(c, First(S), row[First(S)]))
                    + sum[S \ {First(S)}]]
    BY <1>2, <1>3
  <2> QED BY <2>1
<1> HIDE DEF I
<1>5. IsSum(I, Costs(c, row), D)
  BY <1>3, <1>4
<1> QED BY <1>1, <1>5

\* The costs of a row that permute may push are natural numbers.
LEMMA CostsType ==
  ASSUME TypeOK, NEW c \in Contours, NEW row \in [DOMAIN c -> Prev \cup {New}]
  PROVE  Costs(c, row) \in [DOMAIN c -> Nat]
<1>1. ASSUME NEW i \in DOMAIN c PROVE Cost(c, row, i) \in Nat
  <2>1. CASE row[i] = New
    BY <2>1 DEF Cost
  <2>2. CASE row[i] # New
    <3>1. row[i] \in Prev
      BY <2>2
    <3>2. blobs[row[i]].centroid \in Places /\ c[i] \in Places
      BY <3>1, ContoursShape DEF TypeOK, TrackedBlob
    <3> QED BY <2>2, <3>2, DistAssumption DEF Cost, Error, DistAssumption
  <2> QED BY <2>1, <2>2
<1> QED BY <1>1 DEF Costs

\* The total of a row is a natural number, and zero when every entry costs
\* nothing, and only then.
LEMMA TotalZero ==
  ASSUME TypeOK, NEW c \in Contours, NEW row \in [DOMAIN c -> Prev \cup {New}]
  PROVE  /\ TotalError(c, row) \in Nat
         /\ TotalError(c, row) = 0 <=> \A i \in DOMAIN c : Cost(c, row, i) = 0
<1> DEFINE D == DOMAIN c
           f == Costs(c, row)
<1>1. IsFiniteSet(D)
  BY ContoursShape
<1>2. PICK sum : IsSum(sum, f, D) /\ TotalError(c, row) = sum[D]
  BY <1>1, TotalIsSum
<1>3. f \in [D -> Nat]
  BY CostsType
<1>4. \A i \in D : f[i] = Cost(c, row, i)
  BY DEF Costs
<1> HIDE DEF f
<1>5. sum[D] \in Nat
  BY <1>1, <1>2, <1>3, SumType
<1>6. sum[D] = 0 <=> \A i \in D : f[i] = 0
  BY <1>1, <1>2, <1>3, SumZero
<1> QED BY <1>2, <1>4, <1>5, <1>6

\* The row chosen has no larger total than any other.
LEMMA ChosenIsCheapest ==
  ASSUME TypeOK, NEW c \in Contours, NEW row \in Matches(c), NEW other \in Matrix(c)
  PROVE  row \in Matrix(c) /\ TotalError(c, row) <= TotalError(c, other)
<1> DEFINE Totals == {TotalError(c, r) : r \in Matrix(c)}
<1>1. Matrix(c) # {} /\ row \in BestOf(c, Matrix(c))
  BY DEF Matches
<1>2. row \in Matrix(c) /\ TotalError(c, row) = Min(Totals)
  BY <1>1 DEF BestOf
<1>3. Totals \in SUBSET Nat
  BY TotalZero DEF Matrix
<1>4. TotalError(c, other) \in Totals
  OBVIOUS
<1> HIDE DEF Totals
<1>5. PICK n \in Totals : \A m \in Totals : n <= m
  BY <1>3, <1>4, LeastOfNumbers
<1>6. \A m \in Totals : Min(Totals) <= m
  BY <1>5 DEF Min
<1> QED BY <1>2, <1>4, <1>6

\* No row of the matrix gives out more new ids than there are to spare.
LEMMA NewWithinExtra ==
  ASSUME TypeOK, NEW c \in Contours, NEW row \in Matrix(c)
  PROVE  Cardinality(NewIn(row)) <= ExtraIDs(c)
<1> DEFINE N == NewIn(row)
           n == CurSize(c)
<1>1. DOMAIN c = 1 .. n /\ n \in Nat
  BY ContoursShape, TrackerAssumption
<1>2. DOMAIN row = DOMAIN c /\ \A i \in DOMAIN c : Reaches(c, row, i)
  BY DEF Matrix
<1>3. N \in SUBSET (1 .. n) /\ \A i \in N : row[i] = New
  BY <1>1, <1>2 DEF NewIn
<1>4. IsFiniteSet(N)
  <2>1. IsFiniteSet(1 .. n)
    BY <1>1, ContoursShape
  <2> QED BY <1>3, <2>1, FS_Subset
<1>5. CASE N = {}
  <2>1. Cardinality(N) = 0
    BY <1>5, FS_EmptySet
  <2>2. ExtraIDs(c) >= 0
    BY <1>1, FS_CardinalityType DEF ExtraIDs, PrevSize, TypeOK
  <2> QED BY <2>1, <2>2
<1>6. CASE N # {}
  <2> DEFINE Above == {n - i : i \in N}
  <2>1. Above \in SUBSET Nat /\ Above # {}
    BY <1>1, <1>3, <1>6
  <2>2. PICK a \in Above : \A b \in Above : a <= b
    BY <2>1, LeastOfNumbers
  <2>3. PICK last \in N : a = n - last
    OBVIOUS
  <2>4. \A i \in N : n - last <= n - i
    BY <2>2, <2>3
  <2> HIDE DEF Above
  <2>5. \A i \in N : i <= last
    BY <1>1, <1>3, <2>4
  <2> DEFINE Earlier == {k \in 1 .. last - 1 : row[k] = New}
  <2>6. Earlier \cup {last} = N /\ last \notin Earlier
    BY <1>1, <1>2, <1>3, <2>5 DEF NewIn
  <2>7. Cardinality(Earlier) + 1 <= ExtraIDs(c)
    BY <1>1, <1>2, <1>3 DEF Reaches, CheckValidNew
  <2> HIDE DEF Earlier, N
  <2>8. IsFiniteSet(Earlier)
    BY <1>4, <2>6, FS_Subset
  <2>9. Cardinality(N) = Cardinality(Earlier) + 1
    BY <2>6, <2>8, FS_AddElement
  <2>10. Cardinality(N) <= ExtraIDs(c)
    BY <2>7, <2>9
  <2> QED BY <2>10 DEF N
<1> QED BY <1>5, <1>6

\* A row that gives out no more new ids than there are reaches each of them.
LEMMA NewReached ==
  ASSUME TypeOK, NEW c \in Contours, NEW row \in [DOMAIN c -> Prev \cup {New}],
         Cardinality(NewIn(row)) <= ExtraIDs(c),
         NEW i \in DOMAIN c, row[i] = New
  PROVE  Reaches(c, row, i)
<1> DEFINE Earlier == {k \in 1 .. i - 1 : row[k] = New}
<1>1. DOMAIN c = 1 .. CurSize(c) /\ CurSize(c) \in Nat /\ IsFiniteSet(DOMAIN c)
  BY ContoursShape, TrackerAssumption
<1>2. NewIn(row) = {k \in DOMAIN c : row[k] = New}
  BY DEF NewIn
<1>3. IsFiniteSet(NewIn(row))
  BY <1>1, <1>2, FS_Subset
<1>4. Earlier \in SUBSET NewIn(row) /\ i \in NewIn(row) /\ i \notin Earlier
  BY <1>1, <1>2
<1> HIDE DEF Earlier
<1>5. /\ Cardinality(NewIn(row)) \in Nat /\ Cardinality(Earlier) \in Nat
      /\ Cardinality(Earlier) < Cardinality(NewIn(row))
  BY <1>3, <1>4, SmallerPart
<1>6. ExtraIDs(c) \in Int
  BY <1>1, FS_CardinalityType DEF ExtraIDs, PrevSize, TypeOK
<1>7. Cardinality(Earlier) + 1 <= ExtraIDs(c)
  BY <1>5, <1>6
<1> QED BY <1>7 DEF Reaches, CheckValidNew, Earlier

-----------------------------------------------------------------------------
(* A still floor keeps its ids.                                            *)

\* No two places are at no distance of each other, as no two pixels are.
PlacesApart == \A p, q \in Places : Dist[p][q] = 0 => p = q

\* Contour i is on blob j: exactly where the blob was.
IsOn(c, i, j) == j \in Prev /\ blobs[j].centroid = c[i]

\* The frame in which everybody keeps still: blobs and contours are apart, and
\* every contour is on a blob, or every blob is under a contour.
StillFrame(c) ==
  /\ \A j, k \in Prev : blobs[j].centroid = blobs[k].centroid => j = k
  /\ \A i, k \in DOMAIN c : c[i] = c[k] => i = k
  /\ \/ \A i \in DOMAIN c : \E j \in Prev : IsOn(c, i, j)
     \/ \A j \in Prev : \E i \in DOMAIN c : IsOn(c, i, j)

\* Every contour continues the blob it is on.
StillRow(c) ==
  [i \in DOMAIN c |-> IF \E j \in Prev : IsOn(c, i, j)
                      THEN CHOOSE j \in Prev : IsOn(c, i, j) ELSE New]

\* New is no position of the vector.
LEMMA NewIsNoBlob == TypeOK => New \notin Prev
BY DEF TypeOK, New

\* The row continues different blobs, each exactly where its contour is.
LEMMA StillRowShape ==
  ASSUME TypeOK, NEW c \in Contours, StillFrame(c)
  PROVE  /\ StillRow(c) \in [DOMAIN c -> Prev \cup {New}]
         /\ \A i \in DOMAIN c : \A j \in Prev : StillRow(c)[i] = j <=> IsOn(c, i, j)
         /\ \A i, k \in DOMAIN c :
              StillRow(c)[i] = StillRow(c)[k] /\ StillRow(c)[i] # New => i = k
<1> DEFINE row == StillRow(c)
<1>1. ASSUME NEW i \in DOMAIN c
      PROVE  \/ row[i] = New /\ ~\E j \in Prev : IsOn(c, i, j)
             \/ row[i] \in Prev /\ IsOn(c, i, row[i])
  BY DEF StillRow
<1>2. row = [i \in DOMAIN c |-> row[i]]
  BY DEF StillRow
<1> HIDE DEF row
<1>3. row \in [DOMAIN c -> Prev \cup {New}]
  BY <1>1, <1>2
<1>4. ASSUME NEW i \in DOMAIN c, NEW j \in Prev PROVE row[i] = j <=> IsOn(c, i, j)
  BY <1>1, NewIsNoBlob DEF IsOn, StillFrame
<1>5. ASSUME NEW i \in DOMAIN c, NEW k \in DOMAIN c, row[i] = row[k], row[i] # New
      PROVE  i = k
  BY <1>1, <1>5 DEF IsOn, StillFrame
<1> QED BY <1>3, <1>4, <1>5 DEF row

\* Of a still frame, exactly as many contours are on no blob as there are ids
\* to spare.
LEMMA StillRowNew ==
  ASSUME TypeOK, NEW c \in Contours, StillFrame(c)
  PROVE  /\ IsFiniteSet(NewIn(StillRow(c))) /\ NewIn(StillRow(c)) \subseteq DOMAIN c
         /\ Cardinality(NewIn(StillRow(c))) = ExtraIDs(c)
<1> DEFINE row == StillRow(c)
           D == DOMAIN c
           N == NewIn(row)
           On == D \ N
<1>1. /\ row \in [D -> Prev \cup {New}]
      /\ \A i \in D : \A j \in Prev : row[i] = j <=> IsOn(c, i, j)
      /\ \A i, k \in D : row[i] = row[k] /\ row[i] # New => i = k
  BY StillRowShape
<1>2. N = {i \in D : row[i] = New}
  BY <1>1 DEF NewIn
<1>3. New \notin Prev
  BY NewIsNoBlob
<1>4. IsFiniteSet(D) /\ IsFiniteSet(Prev) /\ CurSize(c) = Cardinality(D)
      /\ PrevSize = Cardinality(Prev)
  BY ContoursShape DEF TypeOK, CurSize, PrevSize
<1> HIDE DEF row, N
<1>5. /\ IsFiniteSet(N) /\ N \subseteq D /\ IsFiniteSet(On)
      /\ Cardinality(N) \in Nat /\ Cardinality(On) \in Nat
      /\ Cardinality(D) \in Nat /\ Cardinality(Prev) \in Nat
  BY <1>2, <1>4, FS_Subset, FS_CardinalityType
<1>6. Cardinality(On) = Cardinality(D) - Cardinality(N)
  <2>1. D \cap N = N
    BY <1>5
  <2>2. Cardinality(On) = Cardinality(D) - Cardinality(D \cap N)
    BY <1>4, FS_Difference
  <2> QED BY <2>1, <2>2
<1>7. Cardinality(On) <= Cardinality(Prev)
  <2> DEFINE f == [i \in On |-> row[i]]
  <2>1. f \in [On -> Prev]
    BY <1>1, <1>2
  <2>2. \A a, b \in On : f[a] = f[b] => a = b
    BY <1>1, <1>2
  <2>3. f \in Injection(On, Prev)
    BY <2>1, <2>2 DEF Injection, IsInjective
  <2> QED BY <1>4, <2>3, FS_Injection
<1>8. ASSUME \A j \in Prev : \E i \in D : IsOn(c, i, j)
      PROVE  Cardinality(Prev) <= Cardinality(On)
  <2> DEFINE f == [j \in Prev |-> CHOOSE i \in D : IsOn(c, i, j)]
  <2>1. ASSUME NEW j \in Prev PROVE f[j] \in D /\ IsOn(c, f[j], j)
    BY <1>8
  <2>2. ASSUME NEW j \in Prev PROVE f[j] \in On
    BY <2>1, <1>1, <1>2, <1>3
  <2>3. f \in [Prev -> On]
    BY <2>2
  <2> HIDE DEF f
  <2>4. \A j, k \in Prev : f[j] = f[k] => j = k
    <3>1. ASSUME NEW j \in Prev, NEW k \in Prev, f[j] = f[k] PROVE j = k
      BY <2>1, <3>1 DEF IsOn, StillFrame
    <3> QED BY <3>1
  <2>5. f \in Injection(Prev, On)
    BY <2>3, <2>4 DEF Injection, IsInjective
  <2> QED BY <1>5, <2>5, FS_Injection
<1>9. CASE \A j \in Prev : \E i \in D : IsOn(c, i, j)
  <2>1. Cardinality(N) = ExtraIDs(c)
    BY <1>4, <1>5, <1>6, <1>7, <1>8, <1>9 DEF ExtraIDs
  <2> QED BY <1>5, <2>1 DEF row, N
<1>10. CASE \A i \in D : \E j \in Prev : IsOn(c, i, j)
  <2>1. N = {}
    BY <1>10, <1>1, <1>2, <1>3
  <2>2. Cardinality(N) = 0
    BY <2>1, FS_EmptySet
  <2>3. Cardinality(N) = ExtraIDs(c)
    BY <1>4, <1>5, <1>6, <1>7, <2>2 DEF ExtraIDs
  <2> QED BY <1>5, <2>3 DEF row, N
<1> QED BY <1>9, <1>10 DEF StillFrame

\* permute reaches the row, whatever numcheck cuts: a contour on a blob has no
\* closer candidate.
LEMMA StillRowReached ==
  ASSUME TypeOK, NEW c \in Contours, StillFrame(c), PlacesApart
  PROVE  StillRow(c) \in Matrix(c)
<1> DEFINE row == StillRow(c)
<1>1. /\ row \in [DOMAIN c -> Prev \cup {New}]
      /\ \A i \in DOMAIN c : \A j \in Prev : row[i] = j <=> IsOn(c, i, j)
      /\ \A i, k \in DOMAIN c : row[i] = row[k] /\ row[i] # New => i = k
  BY StillRowShape
<1>2. /\ IsFiniteSet(NewIn(row))
      /\ Cardinality(NewIn(row)) = ExtraIDs(c)
      /\ NewIn(row) = {i \in DOMAIN c : row[i] = New}
  BY <1>1, StillRowNew DEF NewIn
<1>3. DOMAIN c = 1 .. CurSize(c) /\ CurSize(c) \in Nat
  BY ContoursShape, TrackerAssumption
<1> HIDE DEF row
<1>4. ASSUME NEW i \in DOMAIN c, row[i] = New PROVE Reaches(c, row, i)
  <2>1. Cardinality(NewIn(row)) <= ExtraIDs(c)
    BY <1>2, FS_CardinalityType
  <2> QED BY <1>1, <1>4, <2>1, NewReached
<1>5. ASSUME NEW i \in DOMAIN c, row[i] # New PROVE Reaches(c, row, i)
  <2>1. row[i] \in Prev /\ IsOn(c, i, row[i])
    BY <1>1, <1>5
  <2>2. \A j \in Prev : Error(c, i, j) \in Nat /\ (Error(c, i, j) = 0 <=> j = row[i])
    <3>1. ASSUME NEW j \in Prev
          PROVE  Error(c, i, j) \in Nat /\ (Error(c, i, j) = 0 <=> j = row[i])
      <4>1. blobs[j].centroid \in Places /\ c[i] \in Places
        BY ContoursShape DEF TypeOK, TrackedBlob
      <4>2. Error(c, i, j) \in Nat /\ (Error(c, i, j) = 0 <=> blobs[j].centroid = c[i])
        BY <4>1, DistAssumption DEF Error, PlacesApart, DistAssumption
      <4> QED BY <4>2, <1>1 DEF IsOn
    <3> QED BY <3>1
  <2>3. CheckValid(row, i, row[i])
    <3>1. \A k \in 1 .. i - 1 : k \in DOMAIN c /\ k # i
      BY <1>3
    <3> QED BY <3>1, <1>1, <1>5 DEF CheckValid
  <2>4. row[i] \in Candidates(c, row, i)
    BY <2>1, <2>2, <2>3, TrackerAssumption DEF Candidates, TrackerAssumption
  <2>5. {j \in Candidates(c, row, i) : Closer(c, i, j, row[i])} = {}
    <3>1. ASSUME NEW j \in Prev PROVE ~Closer(c, i, j, row[i])
      <4>1. row[i] \in Nat
        BY <2>1 DEF TypeOK
      <4> QED BY <2>1, <2>2, <4>1 DEF Closer
    <3> QED BY <3>1 DEF Candidates
  <2>6. NumCheck(c) > 0
    <3>1. PrevSize \in Nat /\ PrevSize # 0
      BY <2>1, FS_CardinalityType, FS_EmptySet DEF TypeOK, PrevSize
    <3> QED BY <3>1 DEF NumCheck
  <2> QED BY <1>5, <2>4, <2>5, <2>6, FS_EmptySet DEF Reaches
<1>6. \A i \in DOMAIN c : Reaches(c, row, i)
  BY <1>4, <1>5
<1>7. row \in Matrix(c)
  BY <1>1, <1>6 DEF Matrix
<1> QED BY <1>7 DEF row

\* The row chosen in a still frame is that row: any other that costs nothing
\* would need more new ids than there are.
LEMMA StillRowChosen ==
  ASSUME TypeOK, NEW c \in Contours, StillFrame(c), PlacesApart, NEW row \in Matches(c)
  PROVE  \A i \in DOMAIN c : \A j \in Prev : IsOn(c, i, j) => row[i] = j
<1> DEFINE still == StillRow(c)
           N == NewIn(row)
<1>1. /\ still \in [DOMAIN c -> Prev \cup {New}]
      /\ \A i \in DOMAIN c : \A j \in Prev : still[i] = j <=> IsOn(c, i, j)
  BY StillRowShape
<1>2. /\ IsFiniteSet(NewIn(still)) /\ NewIn(still) = {i \in DOMAIN c : still[i] = New}
      /\ Cardinality(NewIn(still)) = ExtraIDs(c)
  BY <1>1, StillRowNew DEF NewIn
<1>3. still \in Matrix(c)
  BY StillRowReached
<1> HIDE DEF still
<1>4. row \in Matrix(c) /\ TotalError(c, row) <= TotalError(c, still)
  BY <1>3, ChosenIsCheapest
<1>5. row \in [DOMAIN c -> Prev \cup {New}]
  BY <1>4 DEF Matrix
<1>6. ASSUME NEW i \in DOMAIN c, NEW j \in Prev
      PROVE  Error(c, i, j) = 0 <=> IsOn(c, i, j)
  <2>1. blobs[j].centroid \in Places /\ c[i] \in Places
    BY ContoursShape DEF TypeOK, TrackedBlob
  <2> QED BY <2>1, DistAssumption DEF Error, PlacesApart, DistAssumption, IsOn
<1>7. \A i \in DOMAIN c : Cost(c, still, i) = 0
  <2>1. ASSUME NEW i \in DOMAIN c PROVE Cost(c, still, i) = 0
    BY <1>1, <1>6 DEF Cost
  <2> QED BY <2>1
<1>8. TotalError(c, still) = 0
  BY <1>1, <1>7, TotalZero
<1>9. TotalError(c, row) = 0
  <2>1. TotalError(c, row) \in Nat
    BY <1>5, TotalZero
  <2> QED BY <2>1, <1>4, <1>8
<1>10. \A i \in DOMAIN c : Cost(c, row, i) = 0
  BY <1>5, <1>9, TotalZero
<1>11. ASSUME NEW i \in DOMAIN c, row[i] # New PROVE still[i] = row[i]
  <2>1. row[i] \in Prev
    BY <1>5, <1>11
  <2>2. Error(c, i, row[i]) = 0
    BY <1>10, <1>11 DEF Cost
  <2> QED BY <1>1, <1>6, <2>1, <2>2
<1>12. N = {i \in DOMAIN c : row[i] = New}
  BY <1>5 DEF NewIn
<1>13. NewIn(still) \in SUBSET N
  BY <1>2, <1>11, <1>12
<1>14. IsFiniteSet(N) /\ Cardinality(N) <= Cardinality(NewIn(still))
  <2>1. IsFiniteSet(N)
    BY <1>12, ContoursShape, FS_Subset
  <2>2. Cardinality(N) <= ExtraIDs(c)
    BY <1>4, NewWithinExtra
  <2> QED BY <1>2, <2>1, <2>2
<1> HIDE DEF N
<1>15. N = NewIn(still)
  <2>1. /\ Cardinality(NewIn(still)) <= Cardinality(N)
        /\ Cardinality(N) = Cardinality(NewIn(still)) => N = NewIn(still)
    BY <1>13, <1>14, FS_Subset
  <2>2. Cardinality(N) \in Nat /\ Cardinality(NewIn(still)) \in Nat
    BY <1>2, <1>14, FS_CardinalityType
  <2> QED BY <1>14, <2>1, <2>2
<1>16. ASSUME NEW i \in DOMAIN c, NEW j \in Prev, IsOn(c, i, j) PROVE row[i] = j
  <2>1. still[i] = j /\ j # New
    BY <1>1, <1>16, NewIsNoBlob
  <2>2. row[i] # New
    BY <1>2, <1>12, <1>15, <2>1
  <2> QED BY <1>11, <2>1, <2>2
<1> QED BY <1>16

\* The contours of a call are the blobs the camera saw in it.
LEMMA SeenAreContours ==
  ASSUME TypeOK, NEW c \in Contours, NEW row \in Matches(c), blobs' = NextBlobs(c, row)
  PROVE  SeenIn(blobs') = DOMAIN c
<1>1. /\ DOMAIN blobs' = DOMAIN c \cup {CurSize(c) + g : g \in Kept(row)}
      /\ \A i \in DOMAIN c : blobs'[i].markedForDeletion = FALSE
      /\ \A g \in Kept(row) : blobs'[CurSize(c) + g].markedForDeletion = TRUE
  <2>1. ASSUME NEW i \in DOMAIN c PROVE blobs'[i].markedForDeletion = FALSE
    <3>1. blobs'[i] = Seen(IdOf(row, i), c[i],
                           IF Displaced(c, row, i) THEN c[i] ELSE Origin(c, row, i))
      BY NextBlobsShape
    <3> QED BY <3>1 DEF Seen
  <2>2. ASSUME NEW g \in Kept(row) PROVE blobs'[CurSize(c) + g].markedForDeletion = TRUE
    <3>1. blobs'[CurSize(c) + g] = Ghost(g)
      BY NextBlobsShape
    <3> QED BY <3>1 DEF Ghost
  <2> QED BY <2>1, <2>2, NextBlobsShape
<1> QED BY <1>1 DEF SeenIn

\* The ids of the frames in which everybody keeps still.
LEMMA TrackBlobsStill ==
  ASSUME TypeOK, PlacesApart, NEW c \in Contours, TrackBlobs(c),
         Apart(blobs, Prev), Apart(blobs', SeenIn(blobs')),
         \/ PlacesOf(blobs', SeenIn(blobs')) \subseteq PlacesOf(blobs, Prev)
         \/ PlacesOf(blobs, Prev) \subseteq PlacesOf(blobs', SeenIn(blobs')),
         NEW j \in Prev, NEW k \in SeenIn(blobs'), blobs'[k].centroid = blobs[j].centroid
  PROVE  blobs'[k].id = blobs[j].id
<1>1. PICK row \in Matches(c) : blobs' = NextBlobs(c, row)
  BY DEF TrackBlobs
<1>2. SeenIn(blobs') = DOMAIN c
  BY <1>1, SeenAreContours
<1>3. \A i \in DOMAIN c : blobs'[i].id = IdOf(row, i) /\ blobs'[i].centroid = c[i]
  BY <1>1, NextVectorIds
<1>4. StillFrame(c)
  <2>1. \A a, b \in Prev : blobs[a].centroid = blobs[b].centroid => a = b
    BY DEF Apart
  <2>2. \A a, b \in DOMAIN c : c[a] = c[b] => a = b
    BY <1>2, <1>3 DEF Apart
  <2>3. ASSUME PlacesOf(blobs', SeenIn(blobs')) \subseteq PlacesOf(blobs, Prev)
        PROVE  \A i \in DOMAIN c : \E g \in Prev : IsOn(c, i, g)
    BY <1>2, <1>3, <2>3 DEF PlacesOf, IsOn
  <2>4. ASSUME PlacesOf(blobs, Prev) \subseteq PlacesOf(blobs', SeenIn(blobs'))
        PROVE  \A g \in Prev : \E i \in DOMAIN c : IsOn(c, i, g)
    BY <1>2, <1>3, <2>4 DEF PlacesOf, IsOn
  <2> QED BY <2>1, <2>2, <2>3, <2>4 DEF StillFrame
<1>5. k \in DOMAIN c /\ IsOn(c, k, j)
  BY <1>2, <1>3 DEF IsOn
<1>6. row[k] = j /\ j # New
  BY <1>4, <1>5, StillRowChosen, NewIsNoBlob
<1> QED BY <1>3, <1>5, <1>6 DEF IdOf

\* When no two places are at distance 0, a floor that keeps still keeps its
\* ids, whatever numcheck cuts, and also across a wrap of the id counter.
THEOREM StillFloorCorrect ==
  ASSUME PlacesApart
  PROVE  Spec => StillFloorKeepsIds
<1> DEFINE Keeps ==
             LET before == PlacesOf(blobs, Prev)
                 after == PlacesOf(blobs', SeenIn(blobs'))
             IN  /\ Apart(blobs, Prev)
                 /\ Apart(blobs', SeenIn(blobs'))
                 /\ after \subseteq before \/ before \subseteq after
                 => \A j \in Prev, k \in SeenIn(blobs') :
                      blobs'[k].centroid = blobs[j].centroid => blobs'[k].id = blobs[j].id
<1>1. ASSUME TypeOK, Next PROVE Keeps
  <2>1. PICK c \in Contours : TrackBlobs(c)
    BY <1>1 DEF Next
  <2> QED BY <1>1, <2>1, TrackBlobsStill
<1>2. TypeOK /\ [Next]_trackerVars => [Keeps]_trackerVars
  BY <1>1
<1>3. Spec => [][Keeps]_trackerVars
  BY <1>2, TypeCorrect, PTL DEF Spec
<1> QED BY <1>3 DEF StillFloorKeepsIds

-----------------------------------------------------------------------------
(* Nobody is swapped where numcheck cuts nothing.                          *)

\* numcheck leaves every blob in reach to be tried.
NothingCut(c) == \A i \in DOMAIN c : Cardinality(InReach(c, i)) <= NumCheck(c)

\* Where numcheck cuts nothing, permute tries every assignment of different
\* blobs in reach with new ids for no more contours than there are ids to spare.
LEMMA UncutReached ==
  ASSUME TypeOK, NEW c \in Contours, NothingCut(c),
         NEW row \in [DOMAIN c -> Prev \cup {New}],
         Cardinality(NewIn(row)) <= ExtraIDs(c),
         \A i \in DOMAIN c : row[i] # New => row[i] \in InReach(c, i),
         \A i, k \in DOMAIN c : row[i] = row[k] /\ row[i] # New => i = k
  PROVE  row \in Matrix(c)
<1>1. ASSUME NEW i \in DOMAIN c, row[i] # New PROVE Reaches(c, row, i)
  <2> DEFINE Nearer == {j \in Candidates(c, row, i) : Closer(c, i, j, row[i])}
  <2>1. row[i] \in InReach(c, i) /\ InReach(c, i) \subseteq Prev
    BY <1>1 DEF InReach
  <2>2. CheckValid(row, i, row[i])
    <3>1. \A k \in 1 .. i - 1 : k \in DOMAIN c /\ k # i
      BY ContoursShape, TrackerAssumption
    <3> QED BY <1>1, <3>1 DEF CheckValid
  <2>3. row[i] \in Candidates(c, row, i)
    BY <2>1, <2>2 DEF Candidates, InReach
  <2>4. ~Closer(c, i, row[i], row[i])
    <3>1. Error(c, i, row[i]) \in Nat /\ row[i] \in Nat
      <4>1. blobs[row[i]].centroid \in Places /\ c[i] \in Places /\ row[i] \in Nat
        BY <2>1, ContoursShape DEF TypeOK, TrackedBlob
      <4> QED BY <4>1, DistAssumption DEF Error, DistAssumption
    <3> QED BY <3>1 DEF Closer
  <2>5. Nearer \in SUBSET InReach(c, i) /\ row[i] \notin Nearer
    BY <2>4 DEF Candidates, InReach
  <2>6. IsFiniteSet(InReach(c, i))
    BY <2>1, FS_Subset DEF TypeOK
  <2> HIDE DEF Nearer
  <2>7. /\ Cardinality(InReach(c, i)) \in Nat /\ Cardinality(Nearer) \in Nat
        /\ Cardinality(Nearer) < Cardinality(InReach(c, i))
    BY <2>1, <2>5, <2>6, SmallerPart
  <2>8. NumCheck(c) \in Int
    BY FS_CardinalityType DEF NumCheck, PrevSize, TypeOK
  <2>9. Cardinality(Nearer) < NumCheck(c)
    BY <2>7, <2>8 DEF NothingCut
  <2> QED BY <1>1, <2>3, <2>9 DEF Reaches, Nearer
<1>2. \A i \in DOMAIN c : Reaches(c, row, i)
  BY <1>1, NewReached
<1> QED BY <1>2 DEF Matrix

\* Exchanging the blobs of two contours changes the total by what they cost.
LEMMA ExchangedTotal ==
  ASSUME TypeOK, NEW c \in Contours, NEW row \in [DOMAIN c -> Prev \cup {New}],
         NEW a \in DOMAIN c, NEW b \in DOMAIN c, a # b,
         row[a] # New, row[b] # New,
         NEW other \in [DOMAIN c -> Prev \cup {New}],
         other[a] = row[b], other[b] = row[a],
         \A i \in DOMAIN c : i # a /\ i # b => other[i] = row[i]
  PROVE  \E rest \in Nat :
           /\ TotalError(c, row) = Error(c, a, row[a]) + (Error(c, b, row[b]) + rest)
           /\ TotalError(c, other) = Error(c, a, row[b]) + (Error(c, b, row[a]) + rest)
<1> DEFINE D == DOMAIN c
           f == Costs(c, row)
           g == Costs(c, other)
<1>1. IsFiniteSet(D)
  BY ContoursShape
<1>2. f \in [D -> Nat] /\ g \in [D -> Nat]
  BY CostsType
<1>3. PICK sum : IsSum(sum, f, D) /\ TotalError(c, row) = sum[D]
  BY <1>1, TotalIsSum
<1>4. PICK tot : IsSum(tot, g, D) /\ TotalError(c, other) = tot[D]
  BY <1>1, TotalIsSum
<1>5. /\ f[a] = Error(c, a, row[a]) /\ f[b] = Error(c, b, row[b])
      /\ g[a] = Error(c, a, row[b]) /\ g[b] = Error(c, b, row[a])
  BY DEF Costs, Cost
<1>6. \A i \in D : i # a /\ i # b => f[i] = g[i]
  BY DEF Costs, Cost
<1> HIDE DEF f, g
<1>7. \E rest \in Nat : /\ sum[D] = f[a] + (f[b] + rest)
                        /\ tot[D] = g[a] + (g[b] + rest)
  BY <1>1, <1>2, <1>3, <1>4, <1>6, SumOfTwo
<1> QED BY <1>3, <1>4, <1>5, <1>7

\* Of the row chosen, no two blobs would cost less exchanged.
LEMMA ChosenIsNotSwapped ==
  ASSUME TypeOK, NEW c \in Contours, NothingCut(c), NEW row \in Matches(c),
         NEW a \in DOMAIN c, NEW b \in DOMAIN c, a # b,
         row[a] # New, row[b] # New,
         row[b] \in InReach(c, a), row[a] \in InReach(c, b)
  PROVE  Error(c, a, row[a]) + Error(c, b, row[b])
           <= Error(c, a, row[b]) + Error(c, b, row[a])
<1> DEFINE other == [row EXCEPT ![a] = row[b], ![b] = row[a]]
<1>1. /\ row \in [DOMAIN c -> Prev \cup {New}]
      /\ \A i \in DOMAIN c : row[i] # New => row[i] \in InReach(c, i)
      /\ \A i, k \in DOMAIN c : row[i] = row[k] /\ row[i] # New => i = k
  BY MatchesShape DEF InReach
<1>2. CASE Matrix(c) = {}
  BY <1>2 DEF Matches
<1>3. CASE Matrix(c) # {}
  <2>1. row \in Matrix(c)
    BY <1>3 DEF Matches, BestOf
  <2>2. Cardinality(NewIn(row)) <= ExtraIDs(c)
    BY <2>1, NewWithinExtra
  <2>3. other \in [DOMAIN c -> Prev \cup {New}]
    BY <1>1
  <2>4. /\ other[a] = row[b] /\ other[b] = row[a]
        /\ \A i \in DOMAIN c : i # a /\ i # b => other[i] = row[i]
    BY <1>1
  <2> HIDE DEF other
  <2>5. PICK rest \in Nat :
          /\ TotalError(c, row) = Error(c, a, row[a]) + (Error(c, b, row[b]) + rest)
          /\ TotalError(c, other) = Error(c, a, row[b]) + (Error(c, b, row[a]) + rest)
    BY <1>1, <2>3, <2>4, ExchangedTotal
  <2>6. NewIn(other) = NewIn(row)
    BY <1>1, <2>3, <2>4 DEF NewIn
  <2>7. \A i \in DOMAIN c : other[i] # New => other[i] \in InReach(c, i)
    BY <1>1, <2>4
  <2>8. \A i, k \in DOMAIN c : other[i] = other[k] /\ other[i] # New => i = k
    BY <1>1, <2>4
  <2>9. other \in Matrix(c)
    BY <2>2, <2>3, <2>6, <2>7, <2>8, UncutReached
  <2>10. TotalError(c, row) <= TotalError(c, other)
    BY <2>9, ChosenIsCheapest
  <2>11. \A i \in {a, b}, j \in {row[a], row[b]} : Error(c, i, j) \in Nat
    <3>1. \A i \in {a, b}, j \in {row[a], row[b]} :
             blobs[j].centroid \in Places /\ c[i] \in Places
      BY <1>1, ContoursShape DEF TypeOK, TrackedBlob
    <3> QED BY <3>1, DistAssumption DEF Error, DistAssumption
  <2> QED BY <2>5, <2>10, <2>11
<1> QED BY <1>2, <1>3

\* What the camera saw last is what it just handed over.
LEMMA FrameIsContours ==
  ASSUME TypeOK, NEW c \in Contours, NEW row \in Matches(c), blobs' = NextBlobs(c, row)
  PROVE  LastFrame(blobs') = c
<1>1. SeenIn(blobs') = DOMAIN c
  BY SeenAreContours
<1>2. \A i \in DOMAIN c : blobs'[i].centroid = c[i]
  BY NextVectorIds
<1>3. c = [i \in DOMAIN c |-> c[i]]
  BY DEF Contours
<1> QED BY <1>1, <1>2, <1>3 DEF LastFrame

\* Until the id counter wraps, two people who pass each other are not swapped in
\* a frame in which numcheck cuts nothing.
THEOREM NoSwapCorrect == SpecUntilWrap => NoSwap
<1> DEFINE NotSwapped ==
             LET frame == LastFrame(blobs')
             IN  (\A k \in DOMAIN frame : Cardinality(InReach(frame, k)) <= NumCheck(frame))
                   => ExchangeIsNoBetter(frame)
<1>1. ASSUME TypeOK, IdInv, NEW c \in Contours, TrackBlobs(c), currentID' >= currentID
      PROVE  NotSwapped
  <2>1. PICK row \in Matches(c) : /\ blobs' = NextBlobs(c, row)
                                  /\ currentID' = IdAfter(Cardinality(NewIn(row)))
    BY <1>1 DEF TrackBlobs
  <2>2. ASSUME NothingCut(c), NEW j1 \in Prev, NEW j2 \in Prev,
               NEW k1 \in DOMAIN c, NEW k2 \in DOMAIN c, j1 # j2,
               blobs'[k1].id = blobs[j1].id, blobs'[k2].id = blobs[j2].id,
               j2 \in InReach(c, k1), j1 \in InReach(c, k2)
        PROVE  Error(c, k1, j1) + Error(c, k2, j2) <= Error(c, k1, j2) + Error(c, k2, j1)
    <3>1. IdOf(row, k1) = blobs[j1].id /\ IdOf(row, k2) = blobs[j2].id
      BY <1>1, <2>1, <2>2, NextVectorIds
    <3>2. row[k1] = j1 /\ row[k1] # New
      BY <1>1, <2>1, <2>2, <3>1, SameIdContinues
    <3>3. row[k2] = j2 /\ row[k2] # New
      BY <1>1, <2>1, <2>2, <3>1, SameIdContinues
    <3>4. k1 # k2
      BY <2>2, <3>2, <3>3
    <3> QED BY <1>1, <2>1, <2>2, <3>2, <3>3, <3>4, ChosenIsNotSwapped
  <2>3. NothingCut(c) => ExchangeIsNoBetter(c)
    BY <2>2 DEF ExchangeIsNoBetter
  <2>4. LastFrame(blobs') = c
    BY <1>1, <2>1, FrameIsContours
  <2> QED BY <2>3, <2>4 DEF NothingCut
<1>2. ASSUME TypeOK, IdInv, [Next /\ currentID' >= currentID]_trackerVars
      PROVE  [NotSwapped]_trackerVars
  BY <1>1, <1>2 DEF Next
<1>3. SpecUntilWrap => [][NotSwapped]_trackerVars
  BY <1>2, IdInvCorrect, PTL DEF SpecUntilWrap
<1> QED BY <1>3 DEF NoSwap

-----------------------------------------------------------------------------
(* The tracker implements BlobLifecycle.                                   *)
(*                                                                         *)
(* A call of trackBlobs with the row `row' is the frame of the lifecycle   *)
(* in which the identities of the blobs the row continues stay, and those  *)
(* of its new entries are fresh.  The lemmas say, in this order, what the  *)
(* refinement mapping is at a position of the vector, which identities     *)
(* stay, are fresh, and are missing, and what becomes of the mapping and   *)
(* of the calls in the step.                                               *)

-----------------------------------------------------------------------------
(* The mapping.                                                            *)

\* In a vector without two blobs of one id, the id chooses the position.
LEMMA IdChooses ==
  ASSUME NEW v, NEW j \in DOMAIN v, \A a, b \in DOMAIN v : v[a].id = v[b].id => a = b
  PROVE  (CHOOSE k \in DOMAIN v : v[k].id = v[j].id) = j
OBVIOUS

\* For how many frames a blob has not been seen.
UnseenAt(b) == IF b.markedForDeletion THEN GhostFrames - b.framesLeft + 1 ELSE 0

\* The blob at j is the one of its identity.
LEMMA MappingAt ==
  ASSUME IdInv, NEW j \in Prev
  PROVE  /\ blobs[j].id \in Live
         /\ BlobOf(blobs[j].id) = j
         /\ Unseen(blobs[j].id) = UnseenAt(blobs[j])
<1>1. \A a, b \in DOMAIN blobs : blobs[a].id = blobs[b].id => a = b
  BY DEF IdInv, IdsDistinct, Prev
<1>2. BlobOf(blobs[j].id) = j
  BY <1>1, IdChooses DEF BlobOf, Prev
<1> QED BY <1>2 DEF Live, Unseen, UnseenAt

\* The same of the vector after a step.
LEMMA MappingAtNext ==
  ASSUME IdInv', NEW k \in Prev', NEW id, id = blobs'[k].id
  PROVE  /\ id \in Live'
         /\ BlobOf(id)' = k
         /\ Unseen(id)' = UnseenAt(blobs'[k])
<1>1. \A a, b \in DOMAIN blobs' : blobs'[a].id = blobs'[b].id => a = b
  BY DEF IdInv, IdsDistinct, Prev
<1>2. BlobOf(id)' = k
  BY <1>1, IdChooses DEF BlobOf, Prev
<1> QED BY <1>2 DEF Live, Unseen, UnseenAt

\* Who is in the next vector: the identities of the contours, and those of
\* the ghosts that are kept.
LEMMA LiveNext ==
  ASSUME TypeOK, NEW c \in Contours, NEW row \in Matches(c), blobs' = NextBlobs(c, row)
  PROVE  Live' = {IdOf(row, i) : i \in DOMAIN c} \cup {blobs[j].id : j \in Kept(row)}
<1> DEFINE n == CurSize(c)
<1>1. /\ Prev' = DOMAIN c \cup {n + j : j \in Kept(row)}
      /\ \A i \in DOMAIN c : blobs'[i].id = IdOf(row, i)
      /\ \A j \in Kept(row) : blobs'[n + j].id = blobs[j].id
  BY NextVectorIds
<1> HIDE DEF n
<1>2. Live' = {blobs'[k].id : k \in Prev'}
  BY DEF Live
<1>3. ASSUME NEW id \in Live' PROVE id \in {IdOf(row, i) : i \in DOMAIN c} \cup {blobs[j].id : j \in Kept(row)}
  BY <1>1, <1>2
<1>4. ASSUME NEW id \in {IdOf(row, i) : i \in DOMAIN c} PROVE id \in Live'
  BY <1>1, <1>2
<1>5. ASSUME NEW id \in {blobs[j].id : j \in Kept(row)} PROVE id \in Live'
  BY <1>1, <1>2
<1> QED BY <1>3, <1>4, <1>5

-----------------------------------------------------------------------------
(* Which identities a call sees again, for the first time, and not.        *)

\* The contours that continue a previous blob.
OldIn(row) == {i \in DOMAIN row : row[i] # New}

Stays(row) == {IdOf(row, i) : i \in OldIn(row)}
Fresh(row) == {IdOf(row, i) : i \in NewIn(row)}

\* An injection of a finite set into one of the same size reaches all of it.
LEMMA SameSizeReached ==
  ASSUME NEW S, NEW T, IsFiniteSet(T), Cardinality(S) = Cardinality(T),
         NEW f \in [S -> T], \A a, b \in S : f[a] = f[b] => a = b
  PROVE  \A y \in T : \E x \in S : f[x] = y
<1>1. f \in Injection(S, T)
  BY DEF Injection, IsInjective
<1>2. f \in Surjection(S, T)
  BY <1>1, FS_Injection
<1> QED BY <1>2 DEF Surjection

\* The new ids are the numbers from the counter on, up to where it is next.
LEMMA FreshIds ==
  ASSUME TypeOK, IdInv, NEW c \in Contours, NEW row \in Matches(c), currentID' \in Ids,
         currentID' = IdAfter(Cardinality(NewIn(row))), currentID' >= currentID
  PROVE  Fresh(row) = currentID .. currentID' - 1
<1> DEFINE T == currentID .. currentID' - 1
           f == [i \in NewIn(row) |-> IdOf(row, i)]
<1>1. /\ currentID' = currentID + Cardinality(NewIn(row))
      /\ \A i \in NewIn(row) : IdOf(row, i) \in T
  BY NewIdsGrow
<1>2. NewIn(row) \subseteq DOMAIN c
  BY MatchesShape DEF NewIn
<1>3. f \in [NewIn(row) -> T]
  BY <1>1
<1>4. \A a, b \in NewIn(row) : f[a] = f[b] => a = b
  BY <1>2, ContourIdsDistinct
<1>5. currentID \in Nat /\ currentID' \in Nat
  BY TrackerAssumption DEF TypeOK, Ids
<1>6. Cardinality(NewIn(row)) \in Nat
  BY <1>2, ContourCount
<1>7. IsFiniteSet(T) /\ Cardinality(T) = Cardinality(NewIn(row))
  <2>1. currentID \in Int /\ currentID' - 1 \in Int
    BY <1>5
  <2>2. /\ IsFiniteSet(T)
        /\ Cardinality(T) = IF currentID > currentID' - 1 THEN 0 ELSE (currentID' - 1) - currentID + 1
    BY <2>1, FS_Interval
  <2> QED BY <1>1, <1>5, <1>6, <2>2
<1> HIDE DEF T, f
<1>8. \A y \in T : \E i \in NewIn(row) : f[i] = y
  BY <1>3, <1>4, <1>7, SameSizeReached
<1> QED BY <1>1, <1>8 DEF Fresh, T, f

\* The identities that stay are those of previous blobs, all different.
LEMMA StaysAre ==
  ASSUME TypeOK, NEW c \in Contours, NEW row \in Matches(c)
  PROVE  /\ DOMAIN row = DOMAIN c
         /\ \A i \in OldIn(row) : row[i] \in Prev /\ IdOf(row, i) = blobs[row[i]].id
         /\ Stays(row) \subseteq Live
         /\ {IdOf(row, i) : i \in DOMAIN c} = Stays(row) \cup Fresh(row)
<1>1. DOMAIN row = DOMAIN c
  BY MatchesShape
<1>2. \A i \in OldIn(row) : row[i] \in Prev /\ IdOf(row, i) = blobs[row[i]].id
  BY <1>1, MatchesShape DEF OldIn, IdOf
<1>3. OldIn(row) \cup NewIn(row) = DOMAIN c
  BY <1>1 DEF OldIn, NewIn
<1>4. {IdOf(row, i) : i \in DOMAIN c} = Stays(row) \cup Fresh(row)
  BY <1>3 DEF Stays, Fresh
<1> QED BY <1>1, <1>2, <1>4 DEF Stays, Live

\* The identities that do not stay are those of the blobs that are missing.
LEMMA MissingAre ==
  ASSUME TypeOK, IdInv, NEW c \in Contours, NEW row \in Matches(c),
         currentID' \in Ids, currentID' = IdAfter(Cardinality(NewIn(row))), currentID' >= currentID
  PROVE  /\ Live \ Stays(row) = {blobs[j].id : j \in Missing(row)}
         /\ Live \cap Fresh(row) = {}
<1>1. Live \cap Fresh(row) = {}
  <2>1. \A id \in Live : id \in 1 .. currentID - 1
    BY DEF Live, IdInv
  <2>2. currentID \in Nat
    BY TrackerAssumption DEF TypeOK, Ids
  <2>3. Fresh(row) = currentID .. currentID' - 1
    BY FreshIds
  <2>4. \A id \in Live : id \notin Fresh(row)
    BY <2>1, <2>2, <2>3
  <2> QED BY <2>4
<1>2. ASSUME NEW j \in Prev
      PROVE  blobs[j].id \in Stays(row) <=> j \notin Missing(row)
  <2>1. CASE blobs[j].id \in Stays(row)
    BY <2>1, StaysAre DEF Stays, OldIn, Missing
  <2>2. CASE j \notin Missing(row)
    <3>1. PICK i \in DOMAIN row : IdOf(row, i) = blobs[j].id
      BY <2>2 DEF Missing
    <3>2. i \in DOMAIN c
      BY StaysAre
    <3>3. IdOf(row, i) \in Stays(row) \cup Fresh(row)
      BY <3>2, StaysAre
    <3>4. blobs[j].id \in Live
      BY DEF Live
    <3> QED BY <1>1, <2>2, <3>1, <3>3, <3>4
  <2> QED BY <2>1, <2>2
<1>3. Missing(row) \subseteq Prev
  BY GhostsArePrev
<1>4. Live \ Stays(row) \subseteq {blobs[j].id : j \in Missing(row)}
  BY <1>2 DEF Live
<1>5. {blobs[j].id : j \in Missing(row)} \subseteq Live \ Stays(row)
  BY <1>2, <1>3 DEF Live
<1> QED BY <1>1, <1>4, <1>5

\* A missing blob expires when it has been unseen for GhostFrames frames; if it
\* does not, it is unseen for one frame more.
LEMMA MissingCounts ==
  ASSUME TypeOK, NEW j \in Prev
  PROVE  /\ Expires(j) <=> UnseenAt(blobs[j]) >= GhostFrames
         /\ GhostFrames - FramesLeft(j) + 1 = UnseenAt(blobs[j]) + 1
<1>1. /\ blobs[j].framesLeft \in 0 .. GhostFrames /\ blobs[j].markedForDeletion \in BOOLEAN
      /\ blobs[j].markedForDeletion <=> blobs[j].framesLeft > 0
  BY DEF TypeOK, TrackedBlob
<1>2. GhostFrames \in Nat
  BY TrackerAssumption
<1>3. CASE blobs[j].markedForDeletion
  BY <1>1, <1>2, <1>3 DEF Expires, FramesLeft, UnseenAt
<1>4. CASE ~blobs[j].markedForDeletion
  BY <1>1, <1>2, <1>4 DEF Expires, FramesLeft, UnseenAt
<1> QED BY <1>3, <1>4

-----------------------------------------------------------------------------
(* What a call says.                                                       *)

\* blobOn is called for the fresh identities, blobMoved for the displaced ones.
LEMMA CallsSay ==
  ASSUME TypeOK, NEW c \in Contours, NEW row \in Matches(c), events' = FiredEvents(c, row)
  PROVE  /\ Heard("on")' = Fresh(row)
         /\ Heard("moved")' = {IdOf(row, i) : i \in {k \in OldIn(row) : Displaced(c, row, k)}}
         /\ Heard("off")' = {blobs[j].id : j \in Expired(row)}
<1> DEFINE n == CurSize(c)
           Speaks == {i \in DOMAIN c : row[i] = New \/ Displaced(c, row, i)}
           Late == {n + j : j \in Expired(row)}
<1>1. /\ DOMAIN events' = Speaks \cup Late
      /\ \A i \in Speaks :
           /\ events'[i].kind = IF row[i] = New THEN "on" ELSE "moved"
           /\ events'[i].id = IdOf(row, i)
      /\ \A j \in Expired(row) : events'[n + j].kind = "off" /\ events'[n + j].id = blobs[j].id
  <2>1. DOMAIN events' = Speaks \cup Late
    BY FiredEventsShape
  <2>2. ASSUME NEW i \in Speaks
        PROVE  events'[i].kind = (IF row[i] = New THEN "on" ELSE "moved") /\ events'[i].id = IdOf(row, i)
    <3>1. events'[i] = [kind |-> IF row[i] = New THEN "on" ELSE "moved",
                        at |-> c[i], id |-> IdOf(row, i), order |-> FindOrder(row, i)]
      BY <2>1, FiredEventsShape
    <3> QED BY <3>1
  <2>3. ASSUME NEW j \in Expired(row)
        PROVE  events'[n + j].kind = "off" /\ events'[n + j].id = blobs[j].id
    <3>1. events'[n + j] = [kind |-> "off", at |-> blobs[j].centroid,
                            id |-> blobs[j].id, order |-> OffOrder(row, j)]
      BY FiredEventsShape
    <3> HIDE DEF n
    <3> QED BY <3>1
  <2> QED BY <2>1, <2>2, <2>3
<1>2. /\ DOMAIN row = DOMAIN c
      /\ NewIn(row) = {i \in Speaks : row[i] = New}
      /\ {k \in OldIn(row) : Displaced(c, row, k)} = {i \in Speaks : row[i] # New}
  <2>1. DOMAIN row = DOMAIN c
    BY StaysAre
  <2> QED BY <2>1 DEF NewIn, OldIn
<1> HIDE DEF n
<1>3. Heard("on")' = {events'[e].id : e \in {d \in DOMAIN events' : events'[d].kind = "on"}}
  BY DEF Heard
<1>4. Heard("moved")' = {events'[e].id : e \in {d \in DOMAIN events' : events'[d].kind = "moved"}}
  BY DEF Heard
<1>5. Heard("off")' = {events'[e].id : e \in {d \in DOMAIN events' : events'[d].kind = "off"}}
  BY DEF Heard
<1> HIDE DEF Speaks
<1>6. {d \in DOMAIN events' : events'[d].kind = "on"} = NewIn(row)
  BY <1>1, <1>2
<1>7. {d \in DOMAIN events' : events'[d].kind = "moved"} = {i \in Speaks : row[i] # New}
  BY <1>1
<1>8. {d \in DOMAIN events' : events'[d].kind = "off"} = Late
  BY <1>1
<1>9. Heard("on")' = Fresh(row)
  <2>1. \A i \in NewIn(row) : events'[i].id = IdOf(row, i)
    BY <1>1, <1>2
  <2> QED BY <1>3, <1>6, <2>1 DEF Fresh
<1>10. Heard("moved")' = {IdOf(row, i) : i \in {k \in OldIn(row) : Displaced(c, row, k)}}
  BY <1>1, <1>2, <1>4, <1>7
<1>11. Heard("off")' = {blobs[j].id : j \in Expired(row)}
  <2>1. {events'[e].id : e \in Late} = {events'[n + j].id : j \in Expired(row)}
    OBVIOUS
  <2> QED BY <1>1, <1>5, <1>8, <2>1
<1> QED BY <1>9, <1>10, <1>11

-----------------------------------------------------------------------------
(* What becomes of the mapping.                                            *)

\* The mapping of an identity that was just seen.
LEMMA SeenNext ==
  ASSUME TypeOK, IdInv', NEW c \in Contours, NEW row \in Matches(c), blobs' = NextBlobs(c, row),
         NEW i \in DOMAIN c, NEW id, id = IdOf(row, i)
  PROVE  /\ Unseen(id)' = 0
         /\ blobs'[BlobOf(id)'].origin = IF Displaced(c, row, i) THEN c[i] ELSE Origin(c, row, i)
<1> DEFINE origin == IF Displaced(c, row, i) THEN c[i] ELSE Origin(c, row, i)
<1>1. i \in Prev' /\ blobs'[i].id = IdOf(row, i)
  BY NextVectorIds
<1>2. BlobOf(id)' = i /\ Unseen(id)' = UnseenAt(blobs'[i])
  BY <1>1, MappingAtNext
<1>3. blobs'[i] = Seen(IdOf(row, i), c[i], origin)
  BY NextBlobsShape
<1> HIDE DEF origin
<1>4. ~blobs'[i].markedForDeletion /\ blobs'[i].origin = origin
  BY <1>3 DEF Seen
<1> QED BY <1>2, <1>4 DEF UnseenAt, origin

\* The mapping of an identity that was not.
LEMMA UnseenNext ==
  ASSUME TypeOK, IdInv, IdInv', NEW c \in Contours, NEW row \in Matches(c),
         blobs' = NextBlobs(c, row), NEW j \in Kept(row), NEW id, id = blobs[j].id
  PROVE  /\ Unseen(id)' = Unseen(id) + 1
         /\ blobs'[BlobOf(id)'].origin = blobs[BlobOf(id)].origin
<1> DEFINE k == CurSize(c) + j
<1>1. k \in Prev' /\ blobs'[k].id = blobs[j].id
  BY NextVectorIds
<1>2. BlobOf(id)' = k /\ Unseen(id)' = UnseenAt(blobs'[k])
  BY <1>1, MappingAtNext
<1>3. blobs'[k] = Ghost(j)
  BY NextBlobsShape
<1> HIDE DEF k
<1>4. j \in Prev
  BY GhostsArePrev
<1>5. BlobOf(id) = j /\ Unseen(id) = UnseenAt(blobs[j])
  BY <1>4, MappingAt
<1>6. UnseenAt(Ghost(j)) = GhostFrames - FramesLeft(j) + 1 /\ Ghost(j).origin = blobs[j].origin
  BY DEF UnseenAt, Ghost
<1> QED BY <1>2, <1>3, <1>4, <1>5, <1>6, MissingCounts

-----------------------------------------------------------------------------
(* A call is a frame of the lifecycle.                                     *)

\* Whatever permutation was chosen, the calls of a frame are one of the lifecycle's.
LEMMA CallIsFrame ==
  ASSUME TypeOK, IdInv, IdInv', NEW c \in Contours, NEW row \in Matches(c),
         blobs' = NextBlobs(c, row), events' = FiredEvents(c, row), currentID' \in Ids,
         currentID' = IdAfter(Cardinality(NewIn(row))), currentID' >= currentID
  PROVE  Lifecycle!Next
<1> DEFINE stays == Stays(row)
           fresh == Fresh(row)
           place == [id \in stays \cup fresh |-> c[CHOOSE i \in DOMAIN c : IdOf(row, i) = id]]
           gone == {blobs[j].id : j \in Expired(row)}
           moved == {IdOf(row, i) : i \in {k \in OldIn(row) : Displaced(c, row, k)}}
           alive == (Live \ gone) \cup fresh
<1>1. /\ stays \subseteq Live /\ Live \cap fresh = {}
      /\ {IdOf(row, i) : i \in DOMAIN c} = stays \cup fresh
      /\ Live \ stays = {blobs[j].id : j \in Missing(row)}
  BY StaysAre, MissingAre
<1>2. ASSUME NEW i \in DOMAIN c PROVE place[IdOf(row, i)] = c[i]
  <2>1. IdOf(row, i) \in stays \cup fresh
    BY <1>1
  <2>2. (CHOOSE k \in DOMAIN c : IdOf(row, k) = IdOf(row, i)) = i
    BY ContourIdsDistinct
  <2> QED BY <2>1, <2>2
<1>3. place \in [stays \cup fresh -> Places]
  <2>1. ASSUME NEW id \in stays \cup fresh PROVE place[id] \in Places
    BY <1>1, <1>2, ContoursShape
  <2> QED BY <2>1
<1> HIDE DEF place
<1>4. {id \in Live \ stays : Unseen(id) >= GhostFrames} = gone
  <2>1. \A j \in Missing(row) : Unseen(blobs[j].id) >= GhostFrames <=> j \in Expired(row)
    <3> SUFFICES ASSUME NEW j \in Missing(row)
                 PROVE  Unseen(blobs[j].id) >= GhostFrames <=> Expires(j)
      BY DEF Expired
    <3>1. j \in Prev
      BY GhostsArePrev
    <3> QED BY <3>1, MappingAt, MissingCounts
  <2>2. Expired(row) \subseteq Missing(row)
    BY DEF Expired
  <2> QED BY <1>1, <2>1, <2>2
<1>5. {id \in stays : Dist[blobs[BlobOf(id)].origin][place[id]] >= MinimumDisplacementThreshold} = moved
  <2>1. ASSUME NEW i \in OldIn(row)
        PROVE  Dist[blobs[BlobOf(IdOf(row, i))].origin][place[IdOf(row, i)]] >= MinimumDisplacementThreshold
                 <=> Displaced(c, row, i)
    <3>1. row[i] \in Prev /\ IdOf(row, i) = blobs[row[i]].id /\ i \in DOMAIN c /\ row[i] # New
      BY StaysAre DEF OldIn
    <3>2. BlobOf(IdOf(row, i)) = row[i]
      BY <3>1, MappingAt
    <3> QED BY <1>2, <3>1, <3>2 DEF Displaced
  <2> QED BY <2>1 DEF Stays
<1>6. alive = Live'
  <2>1. Live' = stays \cup fresh \cup {blobs[j].id : j \in Kept(row)}
    BY <1>1, LiveNext
  <2>2. \A j \in Missing(row) : blobs[j].id \in gone <=> j \in Expired(row)
    BY GhostsArePrev DEF IdInv, IdsDistinct, Expired
  <2>3. gone \cap stays = {}
    BY <1>1 DEF Expired
  <2>4. Live \ gone = stays \cup {blobs[j].id : j \in Kept(row)}
    BY <1>1, <2>2, <2>3 DEF Kept
  <2> QED BY <2>1, <2>4
<1>7. ASSUME NEW id \in Live'
      PROVE  /\ Unseen(id)' = IF id \in stays \cup fresh THEN 0 ELSE Unseen(id) + 1
             /\ blobs'[BlobOf(id)'].origin
                  = IF id \in fresh \cup moved THEN place[id] ELSE blobs[BlobOf(id)].origin
             /\ id \notin fresh => id \in Live
  <2>1. CASE id \in fresh
    <3>1. PICK i \in NewIn(row) : id = IdOf(row, i)
      BY <2>1 DEF Fresh
    <3>2. i \in DOMAIN c /\ row[i] = New
      BY StaysAre DEF NewIn
    <3>3. Origin(c, row, i) = c[i] /\ ~Displaced(c, row, i)
      BY <3>2 DEF Origin, Displaced
    <3> QED BY <1>2, <2>1, <3>1, <3>2, <3>3, SeenNext
  <2>2. CASE id \in stays
    <3>1. PICK i \in OldIn(row) : id = IdOf(row, i)
      BY <2>2 DEF Stays
    <3>2. row[i] \in Prev /\ id = blobs[row[i]].id /\ i \in DOMAIN c /\ row[i] # New
      BY <3>1, StaysAre DEF OldIn
    <3>3. BlobOf(id) = row[i]
      BY <3>2, MappingAt
    <3>4. Origin(c, row, i) = blobs[BlobOf(id)].origin
      BY <3>2, <3>3 DEF Origin
    <3>5. id \in moved <=> Displaced(c, row, i)
      BY <3>1, <3>2, ContourIdsDistinct, StaysAre DEF OldIn
    <3>6. id \notin fresh
      BY <1>1, <2>2
    <3>7. /\ Unseen(id)' = 0
          /\ blobs'[BlobOf(id)'].origin = IF Displaced(c, row, i) THEN c[i] ELSE Origin(c, row, i)
      BY <3>1, <3>2, SeenNext
    <3> QED BY <1>1, <1>2, <2>2, <3>1, <3>2, <3>4, <3>5, <3>6, <3>7
  <2>3. CASE id \notin stays \cup fresh
    <3>1. PICK j \in Kept(row) : id = blobs[j].id
      BY <1>1, <2>3, LiveNext
    <3>2. id \notin moved
      BY <2>3 DEF Stays
    <3>3. id \in Live
      BY <3>1, GhostsArePrev DEF Live
    <3> QED BY <2>3, <3>1, <3>2, <3>3, UnseenNext
  <2> QED BY <2>1, <2>2, <2>3
<1>8. /\ Heard("on")' = fresh /\ Heard("moved")' = moved /\ Heard("off")' = gone
  BY CallsSay
<1>9. fresh = currentID .. currentID' - 1
  BY FreshIds
<1>10. /\ currentID \in Nat /\ currentID' \in Nat /\ currentID >= 1
       /\ currentID' < IdLimit /\ IdLimit \in Nat
  BY TrackerAssumption DEF TypeOK, Ids, IdInv
<1>11. /\ 1 .. currentID' - 1 = (1 .. currentID - 1) \cup fresh
       /\ fresh \subseteq (Ids \ {0}) \ (1 .. currentID - 1)
  BY <1>9, <1>10 DEF Ids
<1>12. Lifecycle!Frame(stays, fresh, place)
  <2> HIDE DEF stays, fresh, moved, gone, alive
  <2>1. ([id \in Live |-> Unseen(id)])'
          = [id \in alive |-> IF id \in stays \cup fresh THEN 0
                              ELSE [d \in Live |-> Unseen(d)][id] + 1]
    BY <1>6, <1>7
  <2>2. ([id \in Live |-> blobs[BlobOf(id)].origin])'
          = [id \in alive |-> IF id \in fresh \cup moved THEN place[id]
                              ELSE [d \in Live |-> blobs[BlobOf(d)].origin][id]]
    BY <1>6, <1>7
  <2>3. Lifecycle!Live = Live
    BY DEF Lifecycle!Live
  <2>4. {id \in Live \ stays : [d \in Live |-> Unseen(d)][id] >= GhostFrames} = gone
    BY <1>4
  <2>5. {id \in stays : Dist[[d \in Live |-> blobs[BlobOf(d)].origin][id]][place[id]]
                          >= MinimumDisplacementThreshold} = moved
    BY <1>1, <1>5 DEF stays
  <2>6. (1 .. currentID - 1)' = (1 .. currentID - 1) \cup fresh
    BY <1>11
  <2>7. ([on |-> Heard("on"), moved |-> Heard("moved"), off |-> Heard("off")])'
          = [on |-> fresh, moved |-> moved, off |-> gone]
    BY <1>8
  <2> QED BY <2>1, <2>2, <2>3, <2>4, <2>5, <2>6, <2>7 DEF Lifecycle!Frame, alive
<1>13. fresh \in SUBSET ((Ids \ {0}) \ (1 .. currentID - 1)) /\ stays \in SUBSET Live
  BY <1>1, <1>11
<1> HIDE DEF stays, fresh, moved, gone, alive
<1> QED BY <1>3, <1>12, <1>13 DEF Lifecycle!Next, Lifecycle!Live

\* The tracker starts as the lifecycle does.
LEMMA InitIsInit == Init => Lifecycle!Init
<1> SUFFICES ASSUME Init PROVE Lifecycle!Init
  OBVIOUS
<1>1. Prev = {} /\ DOMAIN events = {} /\ currentID = 1
  BY DEF Init, Prev
<1>2. Live = {}
  BY <1>1 DEF Live
<1>3. \A kind : Heard(kind) = {}
  BY <1>1 DEF Heard
<1>4. 1 .. currentID - 1 = {}
  BY <1>1
<1>5. [id \in Live |-> Unseen(id)] = << >> /\ [id \in Live |-> blobs[BlobOf(id)].origin] = << >>
  BY <1>2
<1> QED BY <1>3, <1>4, <1>5 DEF Lifecycle!Init

\* Until the id counter wraps, whatever the camera sees, the listener hears of
\* every identity one on, the moves that are due, and one off when it has not
\* been seen for more than GhostFrames frames; and never of it again.
THEOREM TrackerImplementsLifecycle == SpecUntilWrap => ImplementsLifecycle
<1>1. ASSUME TypeOK, IdInv, NEW c \in Contours, TrackBlobs(c), currentID' >= currentID
      PROVE  Lifecycle!Next
  <2>1. PICK row \in Matches(c) : /\ blobs' = NextBlobs(c, row)
                                  /\ events' = FiredEvents(c, row)
                                  /\ currentID' = IdAfter(Cardinality(NewIn(row)))
    BY <1>1 DEF TrackBlobs
  <2>2. currentID' \in Ids /\ IdInv'
    BY <1>1, TrackBlobsTypeOK, TrackBlobsIdInv DEF TypeOK
  <2> QED BY <1>1, <2>1, <2>2, CallIsFrame
<1>2. UNCHANGED trackerVars => UNCHANGED Lifecycle!lifecycleVars
  BY DEF trackerVars, Lifecycle!lifecycleVars, Live, Prev, Unseen, BlobOf, Heard
<1>3. TypeOK /\ IdInv /\ [Next /\ currentID' >= currentID]_trackerVars
        => [Lifecycle!Next]_(Lifecycle!lifecycleVars)
  BY <1>1, <1>2 DEF Next
<1> QED BY <1>3, IdInvCorrect, InitIsInit, PTL
        DEF SpecUntilWrap, ImplementsLifecycle, Lifecycle!Spec

=============================================================================
