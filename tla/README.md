# A verification project for openFloor

openFloor tracks the people on a floor with a camera and tells clients over TCP
who joined, moved and left. These modules model the chain from the camera to the
screen: the blob tracker that decides *who is who*, the application around it, the
server and its connections, and the two Processing programs of the repository that
listen: the example client and the meditation game. TLC checks them on small
instances, TLAPS proves the theorems listed below for all values of the constants.

Paths in this file are relative to the repository; `ofxCvBlobTracker.cpp` is
the one in `openCVBlobTracking/addons/ofxOpenCVBlobTrackingExt/`, which the
application is built with, `testApp.cpp` the one in
`openCVBlobTracking/apps/blobTracking/blobTracking-OSX/src/`, and the classes `ofxTCP*`
and `ofxThread` those under `openCVBlobTracking/addons/`.

## The system

    camera -> contour finder -> ofxCvBlobTracker --blobOn/Moved/Off--> testApp
                                     ^                                   |
                                     +---- trackBlobs (each frame) ------+
                                                                         | sendToAll
                     operator's keys, clicks --------------------------> |
                                                                         v
      Processing client, applet <-- TCP stream -- ofxTCPClient <- ofxTCPServer
      (reader thread, drawing thread)                              (accept thread)

| component | state it keeps | operations | what is hard about it | what makes it correct |
|---|---|---|---|---|
| `ofxCvBlobTracker` | `blobs` (seen blobs and ghosts), `currentID`, `history`; scratch: `matrix`, `ids`, `extraIDs`, `numcheck` | `trackBlobs`, `findOrder`, `getById`, `setListener` | best-fit matching with cut-offs and ties; ghosts; events fired while the vector is half rebuilt; id wrap-around | ids are distinct, do not jump or swap, stay on a still floor; a blob has one on, then one off; drift is reported; the vector stays small |
| `testApp` | `usersTracking[25]` by *order*, play area, offset, corner-selection state, `bLearnBakground`, `currNonMoodFrame` | `update`, `blobOn/Moved/Off`, `keyPressed`, `mousePressed`, `setup` | state indexed by an order that changes when others come and go; area changed while people are inside; unchecked index | whom it holds inside has joined and not left; nobody moves who has not joined; mood is reported for ever |
| `ofxTCPServer`, `ofxThread` | `TCPConnections[32]`, `count`, `threadRunning` | `setup`, `close`, `sendToAll`, `receive`, `disconnectClient`, accept thread | the two threads share `count` and the array without a lock; `count` never falls; stop detaches a thread that may be blocked | no client is used before it is set up; a broadcast reaches all who are there; who waits is accepted, who leaves is closed; `close` leaves one client at most |
| `ofxTCPClient` over `ofxTCPManager` | `partialPrevMsg`, `tmpStr`, `connected` | `send`, `receive`, `close` | partial sends, errors between them, several messages in one read, zeros in the stream | both ends read whole messages, in order, and each that arrived |
| Processing client | `users` table | `run`, `parsetxt`, `add`, `drawAll` | a line with a coordinate 0.0 is ignored; it may connect late and read late | it shows exactly the users who are there |
| Meditation applet | `status`, `readyTime`, `meditateTime`; the table with each `User`'s `movement`, `history`, `status`, `score` | `draw`, `updateStatus`, `setAllMeditating`, `setAllEnded`, `add`, `update` | reader and drawing thread share table, users and vectors; only single calls are synchronised | nobody joins late or is left meditating; who plays is settled when it runs; nobody who meditated to the end has moved less than the winner (a user who was missed, or made ready again, when it began keeps the score 0 and may be named the winner); a meditation ends |
| contour finder, images, Flash port, UDP manager, openFrameworks, Poco, ... | - | - | image processing or third-party code | not modelled; what the contour finder can return is the input of the model |

Calls are synchronous from the camera to `sendToAll`: one thread runs `update`,
the listener, and the operator's handlers. The other threads are the accept
thread of the server and the reader thread of each Processing program.

## The modules

| module | models | uses |
|---|---|---|
| `BlobTracker` | `ofxCvBlobTracker`: one step is one call of `trackBlobs` | - |
| `BlobLifecycle` | abstract: what a listener may rely on per identity, no matching | - |
| `Permute` | the matching as the code computes it, step by step: bubble sort, recursion with its stack, best-error loop | `BlobTracker` |
| `TestApp` | `testApp`: frames, the listener calls, the operator | `BlobTracker` |
| `TCPChannel` | one connection, byte by byte: `send`, `SendAll`, `receive`, `removeZeros` | - |
| `LossyQueue` | abstract: what the two ends of a connection promise each other | - |
| `TCPServer` | the accept thread and the main thread on `count` and the slots; `ofxThread` | - |
| `OpenFloor` | the composition: application, connection, table of the Processing client | `TestApp` |
| `Meditate` | the applet: reader thread and drawing thread | - |
| `MC...` | instances for TLC: columns and distances, peers, users | the above |
| `...Proofs` | theorems: `BlobTrackerProofs`, `PermuteProofs`, `TestAppProofs`, `OpenFloorProofs`, `TCPChannelProofs`, `TCPServerProofs`, `MeditateProofs` | the above, `LeastNumber` |
| `LeastNumber` | two facts the proofs use for induction: a set of numbers has a least member, a set of finite sets one with no smaller in it | - |

### BlobTracker

*State.* `blobs` is the tracker's vector, `currentID` the counter, `events` the
listener calls of the last `trackBlobs`. The vector is a function over an
increasing set of positions; contours of the new frame take 1..n, and the ghost
of the previous position j takes n+j, which is their order in the C++ vector.

*The call.* `TrackBlobs(c)` does everything `trackBlobs` does for the contours
`c`: `Matches(c)` is the row of `matrix` that is taken, `IdOf` the id a contour
gets, `NextBlobs` the vector left behind, `FiredEvents` the calls with the order
`findOrder` computes *at the time of each call* - new blobs further down still
have id -1 (`IdDuring`), and ghosts are put back one after the other
(`OffOrder`).

*The matching.* `Matrix(c)` says which rows `permute` pushes without its
recursion: each entry is reached from those before it (`Reaches`), that is, it
is one of the `numcheck` closest previous blobs within
`reject_distance_threshold` that no earlier contour took, or a new id if
`extraIDs` allows one. `BestOf` takes the row with the lowest total, the first
pushed (`Before`) among equals. `Permute` does it as the code does, and implements
`BlobTracker` (below); that is why the other modules and proofs may use the set form.

*What `numcheck` costs.* `NoSwap` speaks of the frames in which no contour has more
blobs in reach than `numcheck`, which is 4 for up to four contours and falls to 1
beyond ten. Otherwise the cheaper row need not be in `matrix` (the comment at
`ofxCvBlobTracker.cpp:154` says why rows are left out), and people can be swapped: of five
contours at 19, 6, 50, 32, 22 on blobs at 29, 3, 4, 30, 25, all in reach and `numcheck` 3,
the first takes the blob at 25 and the fifth the one at 3, distance 25 in total where the
exchange would be 19.

*Abstractions.* Places and distances are constants (`Dist` with `Dist[p][p] = 0`
is all the proofs assume, but for `StillFloorCorrect`); the sum `deltaLocTotal` is the distance of `origin`
and `centroid`; `deltaLoc`, `deltaArea`, `predictedPos` and older `history` are
written and never read. Distances are whole numbers; rounding of floats is not
modelled.

### Permute

`BlobTracker` with the inside of the call: one step is one iteration of a loop or one
step of the recursion.

*State.* What of `trackBlobs` lives during a call: the counters `loopI`, `loopJ`, `loopK`,
`closest`, `ids`, `matrix`, and `best` (`best_error_ndx`); `pc` says which loop it is in. The
recursion has one call for every entry of the row up to the deepest, `start`, so
the locals `i` and `numchecked` of the calls are two functions on the entries, `tried` and
`numchecked`. After the loop over `closest` comes the new id (`tried = PrevSize + 1`), and then
nothing (`PrevSize + 2`).

*Actions.* `Begin` (lines 91-164); `Compare`, `NextPass`, `NextContour` (the bubble sort);
`CallPermute`; `Push`, `TooFar`, `TryBlob`, `TryNew`, `NothingLeft` (`permute`; `Call` and
`Return` are its calling itself); `Permuted`, `CompareError` (the best-error loop); `Finish`,
which sets the ids and tells the listener. Positions count from 1, not from 0. In the code
`blobs` holds the new contours from the start of the call and the old vector is `prev`; here
`blobs` stays the old vector until `Finish`. `best_error` starts at 99999 in the code, and
here above any error: the model is of floors where the errors of a row do not
add up to that, over a hundred times the width of the image.

### BlobLifecycle

An identity is announced once, is reported again exactly when it is displaced by
the threshold from where it was last reported, and is declared gone exactly when
it has been unseen for more than `GhostFrames` frames; it is never announced
again. `ImplementsLifecycle` is the refinement, with `Unseen`, `BlobOf`, `Heard`
as its mapping. It holds until the id counter wraps.

### TestApp

A frame is the step `Frame` (mood report, background, `trackBlobs`), then one step
`HandleEvent` per pending call; nothing else happens before the calls are
done (`Idle`), as in the single-threaded program. `BlobOn`, `BlobMoved`, `BlobOff` are
the three callbacks with their exact tests of `usersTracking[order]`. An order
beyond the array reads an arbitrary status (undefined behaviour). `wire` holds the
message the last step sent, and `present` is a history variable: who joined or moved
and did not leave since, by the messages. The operator's steps are the corner
selection in its two clicks, the background key and the offset keys; which value
the +/- keys adjust is left out, because threshold and blob sizes only change
which contours are found, and those are arbitrary.

Columns of one row stand for the image: the two axes are computed alike and
independently. Settings are the constants; a setting outside the limits of the
offset keys is not considered.

### TCPChannel and LossyQueue

*State.* `partialPrevMsg` of the sender, `tmpStr` and `connected` of the receiver; between
them `stream`, every byte the network ever took, and `arrived`, how many of them were
read. `sent` and `received` are histories of what `send` and `receive` returned.

*The calls.* `Send` is one call: `SendAll` hands the network any part of the kept rest
and the new frame, or reports an error if nothing could be handed over, and `KeptBack`
is what the four branches of `send` leave in `partialPrevMsg`. `Receive` is one call, too: a
complete message in `tmpStr` is returned before anything is read (`ReceiveBuffered`), up to
`MaxRead` bytes are read, stripped of zeros by the very loop of `removeZeros` (which moves
bytes while it scans) and appended as a C string (`ReceiveBytes`), or the end is noticed
and the client closes itself (`ReceiveEnd`). The network may tear the stream anywhere,
refuse bytes and reset the connection; the sender may close.

*Abstractions.* A text is two bytes and a newline, the terminator `[/TCP]` two bytes, so
that each can be torn; the zero "for flash" is a byte.

*The abstract specification* is a queue that accepts or drops a message as a whole
and delivers those accepted in order, each once. `ImplementsLossyQueue` maps `sent` to
accepted and the messages in `received` to delivered; a fragment or a mixture would map
to a message that was never accepted. `LinesAreMessages` is the same question for the
Processing client, which splits at newlines and cuts the terminator of the *previous*
message off the front of a line by its length.

### TCPServer

`accepting` is where the accept thread is in `threadedFunction`: the test of
`isThreadRunning`, the test of `count`, `Accept` into the slot at `count`, the slot's
`setup`, `count++`. `main` is the call the main thread is in; the loops of `sendToAll`,
of `testApp::update` over the clients, and of `close` take one step per slot, each
reading `count` anew. `startThread` sets its flag and then makes the thread; `stopThread`
clears it and goes on without waiting. A peer connects, is accepted and leaves once.
An accept may fail at any time, and the thread goes round again; one under which the socket
is closed may fail, return one more peer, or stay blocked. `audience` and `heard` are histories of the broadcast that is under way.

### OpenFloor

`TestApp` with one client. `SendToAll` puts what a step sends into `channel` if the client is
connected (`connected`: from the start, since later, or not); `Connect` is the accept
thread, whatever the application is doing; `ReadLine` is `parsetxt` for one line, with its
early return when a coordinate is 0.0 (`Heeded`), then `add` or `users.remove`. Lines arrive
whole and in order: that is what `TCPChannel` shows of a connection on which no send fails.
A send that fails loses a whole message; a lost LEFT leaves a user on the screen, and
nothing in the program repairs that.

### Meditate

The reader thread's `add` and `update` are cut where they touch what the drawing thread
touches: the look-up in the table, the test of the game's status, the `put`, the test of the
user's status, `movement.remove(0)` and `movement.add`, `isStill`, `setReady`. The drawing
thread's `draw` is an enumeration of the table (`Look`, `Judge`: `movement.size()`, then the
two `get`s) and `updateStatus` with its enumerations `countStill`, `setAllMeditating` and
`setAllEnded`. An enumeration may or may not meet a user who is put in meanwhile
(`todo`). Positions are young or old, near the one before or not; the score is
whether any recorded position was away from the place of meditation.

## The runs

The passing runs explore their state spaces completely. `MCBlobTracker!MCSpec` and `MCAppSpec` stop before a
step that would wrap the id counter, because the properties they check are about ids
that are unique; `app`, `open_floor` and `permute` let it wrap (bound: `IdLimit`), so that an old id may
be larger than all the new ones. Everything else that grows is bounded by the program
itself or by a constant named in the module as a bound.

| run | properties | bounds and why they are enough |
|---|---|---|
| `tracker` | `TypeOK` `IdsDistinct` `DriftIsReported` `IdNeverJumps` `NoSwap` `StillFloorKeepsIds` `ImplementsLifecycle` | 3 columns, 2 blobs, ghosts for 2 frames, 5 ids: a step of one column is in reach and too short to report, two columns are out of reach; vectors with ghosts of both ages; identities seen, unseen, seen again, gone |
| `permute` | `PermuteTypeOK` `PermuteIsMatrix` `BestIsMatches` `RowsAreFull` `CallIsTrackBlobs` | all lists of up to 2 contours against all vectors of up to 5 blobs on 3 columns (more blobs than the `numcheck` of 4, ties, out of reach), and up to 5 contours against up to 4 blobs on 2 columns (`numcheck` of 3; the columns are mirror images, so the first blob is only put on one of them); from each vector one call (`Inputs`, `BeginFirst`); and up to 2 contours on 2 columns in one call after the other, as long as the vector, ghosts included, has at most 2 entries when a call begins (`Later`, `BeginNext`), with ghosts of one frame and ids that wrap |
| `app` | `AppTypeOK` `SlotInBounds` `VectorBounded` `InsideIsShown` `MovesOnlyWhilePresent` | one user on four columns, three of them out of reach of each other, so that the vector gets full; an area smaller than the image; clicks on two columns in any order, so also a swapped and an empty area; offset -1..1; exactly as many slots as there can be orders: with 2 instead of 3 `SlotInBounds` fails |
| `open_floor` | `ListenerAgrees` `NoPhantomUsers` `ScreenShowsPresent` `ScreenClears` `MoodIsReported` | one user, area = image, as by default, and no user in the column where a coordinate is zero; up to two lines on the way to a client that is there from the start, comes late or never comes |
| `channel` | `ChannelTypeOK` `Framing` `LinesAreMessages` `ImplementsLossyQueue` `WholeMessagesArrive` | four messages of six bytes, reads of up to seven: a read holds less than a message, more than one, or the parts of two; a rest is kept across two refused messages |
| `server` | `ServerTypeOK` `SetUpBelowCount` `BroadcastReachesAll` `PeersKeepSlots` `CloseLeavesOne` `WaitingIsAccepted` `GoneIsClosed` | three peers and two slots: the maximum is reached with a peer waiting; a slot is accepted into while the other is sent to, received from or closed, and when `close` is over |
| `game` | `GameTypeOK` `NobodyLeftMeditating` `WinnerHasLeast` `LateComersStayOut` `PlayersAreSettled` `MeditationEnds` | two users and a game that starts with one, so that the other may come, be late, or become ready while the first is told to meditate; histories of two positions, which is what `isStill` reads |

Deadlock is checked except in `permute`, where the calls end at the bounds, in
`channel`, which ends when all messages are offered and the receiver has closed, and in
`server`, which ends closed, with the accept thread ended or blocked for good.

*Fairness.*

- `FairFloorSpec`: weak fairness of the next frame (the camera goes on delivering; `update` is
  called 30 times a second), of `HandleEvent` (a callback returns) and of `ReadLine` (the
  reader thread reads every 50 ms). Nothing of the operator, of what the camera sees,
  or of a client's connecting.
- `TCPChannel!FairSpec`: weak fairness of `Receive`, which `update` calls for every
  client. Nothing of the network's taking bytes, or of `send`.
- `TCPServer!FairSpec`: weak fairness of the accept thread and of a call that is under way (no
  thread stops inside a call), strong fairness of the receive loop: between two of
  them the main thread does other things, but `update` comes to it again and again.
  Strong fairness also of `Accept`: the socket does not refuse for ever a peer who goes on
  waiting, while single failures only make the thread try again. A blocked accept need not
  fail, and need not return.
- `Meditate!FairSpec`: weak fairness of the drawing thread (frames go on unless something is
  thrown) and of time. Nothing of the messages.

Runs that show a disagreement. Each checks one statement of the documentation or the
code's comments; `PROJECT.json` quotes it.

| run | what happens |
|---|---|
| `standing_id` | A stands still, B jumps out of reach. Two contours, two previous blobs: `extraIDs` is 0, no row exists, both get new ids, and A is reported as new beside A's own ghost. |
| `phantom_user` | Two users appear in one frame. The first is told its order while the second still has id -1 in the half-built vector, so both are told order 1 and both join as user 1. When they leave in one frame, both leave as user 0: LEFT 1 is never sent. |
| `left_ignored` | A user walks out over the left edge. LEFT carries the coordinate clamped to 0.0, and `parsetxt` returns before it looks at the code: the user stays in the client's table. |
| `server_full` | Two peers (32 in the program) connect and leave. `count` is still the maximum, and the accept thread ends for good although no slot is connected. |
| `idle_game` | The player moves in the frame in which the countdown ends. `countStill` is too low and the game goes back to waiting, but the test of the countdown is not in an else: the meditation starts with nobody ready. |

Two more observations, without runs of their own: with an area smaller than the image
`ListenerAgrees` does not hold even for one user (inside, jumps outside: the new blob has
the order of its own ghost, `blobOn` overwrites the slot, LEFT is never sent); and the
drawing thread of the applet ends with an exception if the reader removes a position
between `movement.size()` and `movement.get` (the case `drawing = "thrown"` in
`MeditationEnds`).

## What is proved

Everything a run checks is proved for every value of the constants, except the
properties listed at the end of this section. Assumptions: those named in the modules (`DistAssumption`, `TrackerAssumption`,
`AppAssumption`, `ColumnsAssumption`, `ChannelAssumption`, `ServerAssumption`,
`MeditateAssumption`), evaluated by TLC in every run that extends them. In particular the
distance need not be a metric, and there may be any number of places, peers or
users, infinitely many included.

`BlobTrackerProofs`:

- `TypeCorrect`: `Spec => []TypeOK`, wrap-around included. `TypeOK` is inductive; the
  conjunct that ties `markedForDeletion` to `framesLeft > 0` is what makes
  `framesLeft` stay in range.
- `DriftCorrect`: `Spec => []DriftIsReported`, inductive over `TypeOK`.
- `IdsDistinctCorrect`: `SpecUntilWrap => []IdsDistinct`. Not inductive: a new id could
  meet an old one. `IdInv` adds that every id in the vector is below the counter.
  The argument: a row takes no previous blob twice (`MatchesShape`), new ids grow
  with the position and start at the counter (`NewIdsGrow`), and a ghost is kept only if
  no contour has its id. Without the restriction it is false: 65535 ids
  later the counter issues an id that may be alive.
- `NeverJumps`: `SpecUntilWrap => IdNeverJumps`. By `IdInv`, a contour with the id
  of a previous blob was matched with *that* blob (`SameIdContinues`).
- `VectorBoundedCorrect`: `Spec => []VectorBounded`. `CohortsBounded` strengthens it: the
  blobs with m frames left are at most `MaxBlobs`, because each cohort injects into
  the one above it in the frame before; the vector injects into cohort x number.

- `StillFloorCorrect`: `Spec => StillFloorKeepsIds`, if no two places are at distance 0, as no
  two pixels are and as in the run. In such a frame the row that continues every contour
  with the blob it is on (`StillRow`) is in `Matrix`: nothing is closer than distance 0, so
  `numcheck` cannot cut it, and it asks for exactly `ExtraIDs` new ids (`StillRowNew`, by
  counting). It costs nothing, so the chosen row costs nothing (`ChosenIsCheapest`,
  `TotalZero`) and differs from it at most by more new ids, for which there is no room
  (`NewWithinExtra`).
- `NoSwapCorrect`: `SpecUntilWrap => NoSwap`. Where `numcheck` cuts nothing, `Matrix` is the set
  of all assignments of different blobs in reach with at most `ExtraIDs` new ids
  (`UncutReached`); the exchanged row is one of them, so it is not cheaper
  (`ExchangedTotal`, `ChosenIsCheapest`). That ids tell who continues whom is `IdInv` again.

  Both need what a sum over a finite set is. `MapThenSumSet` is defined by a recursive
  function on sets, of which the section *Sums over finite sets* shows that it exists
  (`SumExists`) and does not depend on the order of summation (`SumWithout`), by
  counterexamples of least size.

- `TrackerImplementsLifecycle`: `SpecUntilWrap => ImplementsLifecycle`. Invariant: `TypeOK`
  and `IdInv`. One call of `trackBlobs` is one frame of the lifecycle: under `IdInv` an id
  chooses its position in the vector (`IdChooses`), so `unseen` and `reported` can be read off
  the position; the identities of continued blobs and kept ghosts stay, those of new entries
  lie from the old counter up to the new one, and expired ghosts have been unseen for exactly
  `GhostFrames` frames. `on`, `moved` and `off` are then what `FiredEvents` says.

`PermuteProofs`, all of `PermuteSpec`, for any number of contours, blobs and calls, ghosts
and a wrapping id counter included:

- `PermuteTypeCorrect` (`PermuteTypeOK`): no index leaves its array. Not inductive alone: that
  `ids` only holds previous blobs needs `closest` to, and that the deepest call is at an entry
  of the row needs the calls above it.
- `PermuteIsMatrixCorrect` (`PermuteIsMatrix`): `permute` pushes exactly the rows of `Matrix`, each
  once, in the order of `Before`.
- `BestIsMatchesCorrect` (`BestIsMatches`): `Matches` has one member, and the best-error loop keeps it.
- `RowsAreFullCorrect` (`RowsAreFull`): a row of `Matrix` has at most `ExtraIDs` new ids by
  `CheckValidNew` and at least as many by counting (`NewAtLeastExtra`).
- `CallsAreTrackBlobs` (`CallIsTrackBlobs`) and, from it, `PermuteImplementsTracker`:
  `PermuteSpec => Spec`. A call is one step of `BlobTracker` at its end and stutters before it,
  so the theorems about `Spec` hold of the code's loops and recursion.

The inductive invariant is `CallInv`, with `TypeOK`. Its parts:

- `SortInv`: the contours already gone over have their `closest` sorted; in the one at hand,
  what earlier passes moved to the end is sorted and no closer than the rest, and entry
  `loopK` is the farthest of this pass so far. Blobs equally far from the contour stay in the
  order of the vector (`CompareSorts`), which is why the sorted list is the order of `Closer`
  (`StableSorted`) and not only some order by distance.
- `RecursionInv`: halfway through the recursion, a row of `Matrix` has been pushed if and only if it is
  behind the stack, that is, if at the first entry where it leaves `ids` its choice was tried
  before the one `ids` has. `numchecked[s]` counts the valid ones among the blobs that `permute(s)`
  has tried. With `numcheck` and the first blob too far away the loop stops early; that it
  misses nothing then is that what follows in `closest` is no candidate
  (`NoneBeyondFar`, `NoneBeyondNumCheck`), and that what it tries and finds valid is one is
  `CandidateReached`. The three ways on are `MoveOn`, `CallStep`, `ReturnStep`.
- `OrderInv`: the pushed rows are in the order of `Before`, which never holds both ways
  (`BeforeAsymmetric`), so no row is pushed twice.
- `BestInv`: `best` is the first of the rows looked at with the lowest total (`FirstIsBest`).

`TestAppProofs`:

- `AppTypeCorrect`: `AppSpec => []AppTypeOK`.
- `InsideIsShownCorrect`: `AppSpec => []InsideIsShown`, for any area, any operator and any
  order the tracker may compute.
- `SlotsSuffice`: if `HardLimit > MaxBlobs * (GhostFrames + 1)` then
  `AppSpec => []SlotInBounds`: an order counts distinct blobs of the vector left
  behind, whose size is bounded. With 25 slots and 2 ghost frames this covers
  `MaxUsers` up to 8.
- `JoinsBeforeMoving`: under the same assumption nobody moves or leaves on the wire who
  has not joined, from the two above.
- `OneUserIsNoPhantom`: with one user, no clicks, no offset and an area that is
  the whole image, `AppSpec => []NoPhantomUsers /\ []ListenerAgrees`. `OneUser` is the
  inductive invariant: calls for seen blobs have order 0, and when the vector is empty
  the call that makes the shown user leave is still pending. Run `phantom_user` and the
  first observation above show that both restrictions are needed.

`OpenFloorProofs`:

- `ScreenCorrect`: `FloorSpec => []ScreenShowsPresent`, for any number of users and any
  `ChannelLimit`, if the operator moves no corner (`Clicks = {}`), and no place is so near the
  left edge that an offset makes a coordinate zero. `left_ignored` shows what
  happens otherwise. `ScreenInv` says it of the lines still under way: who *will* be
  shown when they are read (`WillShow`: shown or joined by a line, and not left by a later one)
  are those who are present, for a client connected from the start, and a part of them for
  one that came late. Writing a line and reading one leave it true
  (`Applied`, `ReadAsMeant`).
- `ListenerCorrect`: the theorem `OneUserIsNoPhantom` for the composition, in which clients
  connect and read meanwhile; and `EmptyFloorEmptyScreen`, from the two: on an empty floor, when
  all is told and read, the screen is empty.

`TCPChannelProofs`:

- `FramingCorrect`: without send timeouts (the default), `Spec => []Framing`, for any number
  of messages, however they are torn and whichever are refused. `Framing` is
  inductive together with the types of the sender's state: a successful `SendAll` moves a
  prefix of rest and frame from the one side of `\o` to the other, an error moves
  nothing. With timeouts it is false: `SendAll` returns `SOCKET_TIMEOUT` after bytes were
  taken, and `send` keeps the old rest. Nothing in the program sets a timeout; but `SendAll`
  compares the unsigned difference of two clock readings with `NO_TIMEOUT`
  (ofxTCPManager.cpp:250), so that the theorem also assumes that the clock does not step back
  while a send is under way.
- `ChannelTypeCorrect`: `Spec => []ChannelTypeOK`, with timeouts too. Its hard parts are that
  `removeZeros`, which moves bytes in the buffer it scans, ends and yields exactly the bytes that
  are no zeros (`ZeroMoved` is its loop), and that a receiver closes only with no
  terminator in `tmpStr`.
- `LinesCorrect`: without send timeouts, `Spec => []LinesAreMessages`. From `Framing`: line k of
  the stream ends inside frame k, and what is in front of it is the terminator of
  frame k - 1, which the client cuts off by its length.
- `ChannelImplementsLossyQueue`: without send timeouts, `Spec => ImplementsLossyQueue`. The
  invariant is `LinkInv`: types, `Framing`, that accepted messages were offered, and
  `ReceiverInv`: what was received, followed by `tmpStr`, are the bytes that arrived but
  for the zeros, so that what `receive` returns is the next accepted message
  whole. The proof counts the bytes that are no zeros (`Clean`, `Place`): each frame has five.

`TCPServerProofs`, for any number of peers and slots and every interleaving:

- `ServerTypeCorrect`, `SetUpCorrect` (`SetUpBelowCount`), `BroadcastCorrect`
  (`BroadcastReachesAll`), `SlotsCorrect` (`PeersKeepSlots`), all from one invariant `IInv`. What
  makes the code right without a lock is the order *slot first, count last*: only the
  accept thread writes `count`, the slot at `count` is set up before it is counted
  (`SetUpAtCount`), a connected slot is below `count` or is the one being set up
  (`ConnectedIsCounted`), and an accept only ever writes the slot at `count`. `AudienceAhead` says
  that who is still to hear the broadcast sits at or above its loop variable.
- `CloseCorrect` (`CloseLeavesOne`), from `IInv` and `CloseInv`: the slots the loop of `close` has
  passed stay closed (`ClosedSoFar`), so that when it is over only the client not yet counted
  can be connected; and the accept thread, which finds its flag cleared before the next
  accept, has that one or takes one more, not both (`StoppedOK`).

`MeditateProofs`, for any number of users:

- `NobodyLeftCorrect` (`NobodyLeftMeditating`): `MeditatorsOK` says that at the end of a meditation
  those still to be told are all who meditate; it is preserved because only the drawing
  thread sets somebody meditating, and the table never loses a user.
- `LateComersCorrect` (`LateComersStayOut`): whoever is late finds the reader's status
  set, because it is set before and never reset (`LateOK`).
- `PlayersCorrect` (`PlayersAreSettled`): when the meditation runs, `setAllMeditating` is over and
  `setAllEnded` has not begun (`PhaseOK`), so that only the reader's `setReady` writes a status; it
  does so for the user in hand alone, and whose update begins later is found meditating.
- `WinnerCorrect` (`WinnerHasLeast`): `WinnerInv` adds `WinnerOK`, that there is one winner so far
  among those who have been told, and that who meditated to the end has been told in the only
  meditation there is and has no less; a user whom the reader is creating is not in the
  table yet (`NewcomerOK`), so that nobody is reset behind the enumeration.
- `GameTypesCorrect` (`GameTypeOK`), for any finite set of users: a `movement` never outgrows
  `HistoryLength` although `remove` and `add` are two steps (`MovementOK`), no enumeration meets
  a user who is not in the table (`NoNullUser`; the applet's table only grows, while the example
  client removes users: its race at processingExample/PositionReader.pde:173 is not checked),
  and `countStill` counts nobody twice (`TallyOK`). The set has to be finite for the count to be a number.

`LeastNumber` stands in for induction: the library's induction theorems take the property as
an operator, which the provers cannot instantiate, but a *set* of counterexamples can be passed,
and that it has a least member follows from the theorem on well-founded relations.

Only model-checked:

- all that needs fairness (`ScreenClears`, `MoodIsReported`, `WholeMessagesArrive`,
  `WaitingIsAccepted`, `GoneIsClosed`, `MeditationEnds`), which the proof system does not reason about;
- the disagreements, which are counterexamples.

Definitions whose comment begins with "Mutant of" are not part of the model: each is
a plausible slip in one definition, and the property it is listed for in
`PROJECT.json` fails when it takes that definition's place.

## What is not modelled

- `testApp`: the PtBlob? request of `update` (its result is not used, and no client
  of the repository sends it; any client may, and for an id that is not there `getById` falls
  off its end, which is undefined behaviour),
  `averageBnWVal` (arithmetic over pixels; the scene may have any mood), reading the
  settings file, drawing.
- `ofxTCPServer`: `send` to one client and the raw variants, which nothing in the
  program calls; a second `setup` after `close`; the line of log that reads
  `TCPConnections[count]` one past the array, which no state depends on.
- `ofxTCPClient`, `ofxTCPManager`: setting up as a client, the raw variants, socket options.
- `ofxThread`: `lock` and `unlock`; nobody takes the mutex.
- Processing client: its modes pipe, mouse and mouse2; what is drawn.
- Left out for good: the contour finder and images (their result is the input of the
  model), the UDP manager (unused by the application), the Flash port (one handler
  without state), copies of the tracker for other versions of openFrameworks (not
  built), and the vendored libraries, openFrameworks, Poco, OpenCV, FreeType, FMOD, GLee
  and others, which are nearly all of the repository's lines and none of its logic.

What would come next: several users on the open floor, for which an invariant has to say which orders
may repeat within one frame; and whether `NoSwap` can be stated for a contour whose
blobs `numcheck` does cut.
