------------------------------- MODULE Permute -------------------------------
(***************************************************************************)
(* The matching of trackBlobs as the code computes it, one loop iteration  *)
(* or one step of the recursion at a time: the bubble sort of `closest',   *)
(* permute with its stack `ids' and its count of tries, and the loop that  *)
(* keeps the first row with the lowest error.  BlobTracker says by sets    *)
(* and quantifiers which rows permute pushes and which one is taken; a     *)
(* call that ends here is one step of BlobTracker, with the row it takes.  *)
(*                                                                         *)
(* Abstractions.                                                           *)
(*  - `blobs' is the vector of the previous frame, called prev in the      *)
(*    code, until the call ends; then it is the vector of the new frame.   *)
(*  - A call permute(start) has the locals i and numchecked.  At any time  *)
(*    there is one call for every entry up to the deepest, so that the     *)
(*    locals of permute(s) are tried[s] and numchecked[s].                 *)
(*  - tried[s] goes on beyond the loop: PrevSize + 1 after it, where the   *)
(*    new id is tried, and PrevSize + 2 when permute(s) has nothing left.  *)
(*  - best_error is the error of the row best_error_ndx.  It starts above  *)
(*    the error of any row.                                                *)
(***************************************************************************)
EXTENDS BlobTracker, Sequences

VARIABLES
  contours,            \* the frame of the call
  pc,                  \* what trackBlobs is doing, "idle" outside a call
  loopI, loopJ, loopK, \* the loop counters i, j, k of trackBlobs, from 1
  closest,             \* closest[i]: the previous blobs, closest to contour i first
  ids,                 \* the entries of the row permute is building
  start,               \* the entry the deepest call of permute is at, 0: no call
  tried, numchecked,   \* the locals of the calls of permute
  matrix,              \* the rows that permute pushed
  best                 \* best_error_ndx, 0: none

callVars == <<contours, pc, loopI, loopJ, loopK, closest, ids, start, tried,
              numchecked, matrix, best>>
permuteVars == <<trackerVars, callVars>>

-----------------------------------------------------------------------------
(* The bubble sort.                                                        *)

\* Mutant of InOrder: filled from position 0 on.
InOrderFromZero == [k \in 1 .. PrevSize |-> k - 1]

\* closest before the sort: every position of the previous vector in order.
InOrder ==
  [k \in 1 .. PrevSize |->
     CHOOSE j \in Prev : Cardinality({m \in Prev : m < j}) = k - 1]

Begin(c) ==
  /\ pc = "idle" /\ pc' = "sort"
  /\ contours' = c
  /\ closest' = [i \in DOMAIN c |-> InOrder]
  /\ ids' = [i \in DOMAIN c |-> New]
  /\ tried' = [i \in DOMAIN c |-> 1]
  /\ numchecked' = [i \in DOMAIN c |-> 0]
  /\ loopI' = 1 /\ loopJ' = 1 /\ loopK' = 1
  /\ start' = 0 /\ matrix' = << >> /\ best' = 0
  /\ UNCHANGED trackerVars

\* Mutant of Swapped: tmp is not written back.
SwapLost(s, k) == [s EXCEPT ![k] = s[k + 1]]

Swapped(s, k) == [s EXCEPT ![k] = s[k + 1], ![k + 1] = s[k]]

Sorting == pc = "sort" /\ loopI \in DOMAIN contours

Compare ==
  /\ Sorting /\ loopJ <= PrevSize /\ loopK <= PrevSize - loopJ
  /\ LET s == closest[loopI]
     IN  closest' = IF Error(contours, loopI, s[loopK + 1]) < Error(contours, loopI, s[loopK])
                    THEN [closest EXCEPT ![loopI] = Swapped(s, loopK)]
                    ELSE closest
  /\ loopK' = loopK + 1
  /\ UNCHANGED <<trackerVars, contours, pc, loopI, loopJ, ids, start, tried,
                 numchecked, matrix, best>>

NextPass ==
  /\ Sorting /\ loopJ <= PrevSize /\ loopK > PrevSize - loopJ
  /\ loopJ' = loopJ + 1 /\ loopK' = 1
  /\ UNCHANGED <<trackerVars, contours, pc, loopI, closest, ids, start, tried,
                 numchecked, matrix, best>>

NextContour ==
  /\ Sorting /\ loopJ > PrevSize
  /\ loopI' = loopI + 1 /\ loopJ' = 1 /\ loopK' = 1
  /\ UNCHANGED <<trackerVars, contours, pc, closest, ids, start, tried,
                 numchecked, matrix, best>>

\* permute(0), if there is a contour.
CallPermute ==
  /\ pc = "sort" /\ loopI \notin DOMAIN contours
  /\ pc' = "permute"
  /\ start' = IF CurSize(contours) > 0 THEN 1 ELSE 0
  /\ UNCHANGED <<trackerVars, contours, loopI, loopJ, loopK, closest, ids, tried,
                 numchecked, matrix, best>>

-----------------------------------------------------------------------------
(* permute.                                                                *)

\* The loop goes on to the next previous blob, or stops when it has checked
\* numcheck of them.
NextTry(i, checked) ==
  IF checked >= NumCheck(contours) THEN PrevSize + 1 ELSE i + 1

\* permute(start + 1) is called.
Call ==
  /\ start' = start + 1
  /\ tried' = [i \in DOMAIN tried |-> IF i = start + 1 THEN 1 ELSE tried[i]]
  /\ numchecked' = [i \in DOMAIN tried |-> IF i = start + 1 THEN 0 ELSE numchecked[i]]

\* permute(start) returns, and its caller goes on: after the call in the loop
\* it counts the try, after the call for the new id it has nothing left.
Return ==
  LET caller == start - 1
      inLoop == caller > 0 /\ tried[caller] <= PrevSize
  IN  /\ start' = caller
      /\ numchecked' =
           [i \in DOMAIN tried |->
              IF i = caller /\ inLoop THEN numchecked[i] + 1 ELSE numchecked[i]]
      /\ tried' =
           [i \in DOMAIN tried |->
              IF i # caller THEN tried[i]
              ELSE IF inLoop THEN NextTry(tried[i], numchecked[i] + 1)
              ELSE PrevSize + 2]

Permuting == pc = "permute" /\ start \in DOMAIN contours

Push ==
  /\ pc = "permute" /\ start = CurSize(contours) + 1
  /\ matrix' = Append(matrix, ids)
  /\ Return
  /\ UNCHANGED <<trackerVars, contours, pc, loopI, loopJ, loopK, closest, ids, best>>

TooFar ==
  /\ Permuting /\ tried[start] <= PrevSize
  /\ Error(contours, start, closest[start][tried[start]]) > RejectDistanceThreshold
  /\ tried' = [tried EXCEPT ![start] = PrevSize + 1]
  /\ UNCHANGED <<trackerVars, contours, pc, loopI, loopJ, loopK, closest, ids, start,
                 numchecked, matrix, best>>

TryBlob ==
  /\ Permuting /\ tried[start] <= PrevSize
  /\ LET j == closest[start][tried[start]]
     IN  /\ Error(contours, start, j) <= RejectDistanceThreshold
         /\ ids' = [ids EXCEPT ![start] = j]
         /\ \/ CheckValid(ids, start, j) /\ Call
            \/ /\ ~CheckValid(ids, start, j)
               /\ tried' = [tried EXCEPT ![start] = NextTry(@, numchecked[start])]
               /\ UNCHANGED <<start, numchecked>>
  /\ UNCHANGED <<trackerVars, contours, pc, loopI, loopJ, loopK, closest, matrix, best>>

TryNew ==
  /\ Permuting /\ tried[start] = PrevSize + 1
  /\ ids' = IF ExtraIDs(contours) > 0 THEN [ids EXCEPT ![start] = New] ELSE ids
  /\ LET valid == ExtraIDs(contours) > 0 /\ CheckValidNew(contours, ids, start)
     IN  \/ valid /\ Call
         \/ /\ ~valid
            /\ tried' = [tried EXCEPT ![start] = PrevSize + 2]
            /\ UNCHANGED <<start, numchecked>>
  /\ UNCHANGED <<trackerVars, contours, pc, loopI, loopJ, loopK, closest, matrix, best>>

NothingLeft ==
  /\ Permuting /\ tried[start] = PrevSize + 2
  /\ Return
  /\ UNCHANGED <<trackerVars, contours, pc, loopI, loopJ, loopK, closest, ids, matrix,
                 best>>

-----------------------------------------------------------------------------
(* The row with the lowest error.                                          *)

Permuted ==
  /\ pc = "permute" /\ start = 0
  /\ pc' = "best" /\ loopJ' = 1
  /\ UNCHANGED <<trackerVars, contours, loopI, loopK, closest, ids, start, tried,
                 numchecked, matrix, best>>

\* Mutant of Better: the last row with the lowest error.
BetterOrEqual(m) ==
  best = 0 \/ TotalError(contours, matrix[m]) <= TotalError(contours, matrix[best])

Better(m) ==
  best = 0 \/ TotalError(contours, matrix[m]) < TotalError(contours, matrix[best])

CompareError ==
  /\ pc = "best" /\ loopJ <= Len(matrix)
  /\ best' = IF Better(loopJ) THEN loopJ ELSE best
  /\ loopJ' = loopJ + 1
  /\ UNCHANGED <<trackerVars, contours, pc, loopI, loopK, closest, ids, start, tried,
                 numchecked, matrix>>

\* The row the ids are taken from: without one every contour keeps id -1.
Chosen == IF best = 0 THEN [i \in DOMAIN contours |-> New] ELSE matrix[best]

Finish ==
  /\ pc = "best" /\ loopJ > Len(matrix)
  /\ pc' = "idle"
  /\ blobs' = NextBlobs(contours, Chosen)
  /\ events' = FiredEvents(contours, Chosen)
  /\ currentID' = IdAfter(Cardinality(NewIn(Chosen)))
  /\ UNCHANGED <<contours, loopI, loopJ, loopK, closest, ids, start, tried,
                 numchecked, matrix, best>>

-----------------------------------------------------------------------------
PermuteInit ==
  /\ Init
  /\ contours = << >> /\ pc = "idle"
  /\ loopI = 1 /\ loopJ = 1 /\ loopK = 1
  /\ closest = << >> /\ ids = << >> /\ tried = << >> /\ numchecked = << >>
  /\ start = 0 /\ matrix = << >> /\ best = 0

\* The rest of a call that has begun.
Continue ==
  \/ Compare \/ NextPass \/ NextContour \/ CallPermute
  \/ Push \/ TooFar \/ TryBlob \/ TryNew \/ NothingLeft
  \/ Permuted \/ CompareError \/ Finish

PermuteNext == (\E c \in Contours : Begin(c)) \/ Continue

PermuteSpec == PermuteInit /\ [][PermuteNext]_permuteVars

-----------------------------------------------------------------------------
(* Correctness.                                                            *)

Pushed == {matrix[m] : m \in DOMAIN matrix}

\* Type invariant: in a call no index leaves its array.
PermuteTypeOK ==
  /\ pc \in {"idle", "sort", "permute", "best"}
  /\ contours \in Contours
  /\ loopI \in 1 .. CurSize(contours) + 1 /\ loopJ \in Nat \ {0} /\ loopK \in Nat \ {0}
  /\ pc # "idle" => closest \in [DOMAIN contours -> [1 .. PrevSize -> Prev]]
  /\ pc # "idle" => ids \in [DOMAIN contours -> Prev \cup {New}]
  /\ start \in 0 .. CurSize(contours) + 1
  /\ pc # "idle" => tried \in [DOMAIN contours -> 1 .. PrevSize + 2]
  /\ numchecked \in [DOMAIN contours -> Nat]
  /\ pc # "idle" => matrix \in Seq([DOMAIN contours -> Prev \cup {New}])
  /\ best \in 0 .. Len(matrix)

\* permute has returned, and the row to take is known.
Decided == pc = "best" /\ loopJ > Len(matrix)

\* permute pushes exactly the rows of Matrix, each of them once, and in the
\* order of Before.
PermuteIsMatrix ==
  Decided =>
    /\ Pushed = IF contours = << >> THEN {} ELSE Matrix(contours)
    /\ \A a, b \in DOMAIN matrix :
         a < b => /\ Before(contours, matrix[a], matrix[b])
                  /\ ~Before(contours, matrix[b], matrix[a])

\* The row the best-error loop keeps is the one and only row of Matches.
BestIsMatches ==
  Decided => Matches(contours) = {Chosen}

\* Every contour has a match, and as many as possible continue a blob: a row
\* matches all contours or all but ExtraIDs of them, and no previous blob twice.
RowsAreFull ==
  Decided =>
    \A row \in Pushed :
      /\ Cardinality(NewIn(row)) = ExtraIDs(contours)
      /\ \A i, k \in DOMAIN row : row[i] = row[k] /\ row[i] # New => i = k

\* What the listener hears and what the tracker remembers changes once in a
\* call, at its end, and as BlobTracker says.
CallIsTrackBlobs == [][pc = "best" /\ pc' = "idle" /\ TrackBlobs(contours)]_trackerVars

=============================================================================
