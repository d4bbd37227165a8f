------------------------------ MODULE MCPermute ------------------------------
(***************************************************************************)
(* TLC instance of Permute, on one image row: calls of trackBlobs from any *)
(* previous vector up to a bound, and calls one after the other.           *)
(***************************************************************************)
EXTENDS Permute

CONSTANTS
  Positions,
  Inputs,     \* bound: the inputs of the instance, as records of a number of contours
              \* cur, a number of previous blobs prev, the columns both are taken from,
              \* and whether there is one of a class of symmetric inputs only
  Later       \* bound: the like, of the calls that follow each other

MCDist ==
  [p \in Positions |-> [q \in Positions |-> IF p > q THEN p - q ELSE q - p]]

\* Two contours against more blobs than the four closest; and many contours,
\* so that numcheck drops to three, on two columns.
MCInputs == {[cur |-> 2, prev |-> 5, columns |-> {0, 1, 3}, reduced |-> FALSE],
             [cur |-> 5, prev |-> 4, columns |-> {0, 1}, reduced |-> TRUE]}

MCLater == [cur |-> 2, prev |-> 2, columns |-> {0, 3}]

\* On two columns only blobs of one column are equally far from a contour, so
\* that the order of the columns in the vector does not matter to the matching;
\* and the columns are mirror images of each other.
InOrderOfColumns(c) == \A k, m \in DOMAIN c : k < m => c[k] <= c[m]
FirstIsLeft(c) == c # << >> => c[1] = 0

Columns(input, n) == UNION {[1 .. m -> input.columns] : m \in 0 .. n}

\* The previous vectors: blobs of the last frame with the ids 1, 2, ....
Vectors(input) ==
  {[k \in DOMAIN c |-> Seen(k, c[k], c[k])] :
     c \in {d \in Columns(input, input.prev) : input.reduced => InOrderOfColumns(d)}}

Frames(input) ==
  {c \in Columns(input, input.cur) : input.reduced => FirstIsLeft(c)}

MCInit ==
  /\ \E input \in Inputs : blobs \in Vectors(input)
  /\ currentID = PrevSize + 1 /\ events = << >>
  /\ contours = << >> /\ pc = "idle"
  /\ loopI = 1 /\ loopJ = 1 /\ loopK = 1
  /\ closest = << >> /\ ids = << >> /\ tried = << >> /\ numchecked = << >>
  /\ start = 0 /\ matrix = << >> /\ best = 0

\* bound: a call with a vector of blobs that were all seen in the last frame.
BeginFirst ==
  /\ contours = << >> /\ \A j \in Prev : ~blobs[j].markedForDeletion
  /\ \E input \in Inputs :
       blobs \in Vectors(input) /\ \E c \in Frames(input) : Begin(c)

\* bound: calls one after the other, ghosts and wrapped ids included, of frames
\* with few contours on few columns while there is nothing elsewhere.
BeginNext ==
  /\ PrevSize <= Later.prev
  /\ \A j \in Prev : {blobs[j].centroid, blobs[j].origin} \subseteq Later.columns
  /\ \E c \in Columns(Later, Later.cur) : Begin(c)

MCBegin == pc = "idle" /\ (BeginFirst \/ BeginNext)

MCNext == MCBegin \/ Continue

MCSpec == MCInit /\ [][MCNext]_permuteVars

=============================================================================
