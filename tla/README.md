# PuzzleWithMe in TLA+

Specifications, model-checking configurations and machine-checked proofs for
PuzzleWithMe, a server that lets up to twenty guests solve one jigsaw puzzle
together. The repository is the reference: every definition is translated from
the code named in `PROJECT.json` under `map`.

## 1. The system

| Component | State it keeps | Operations | Talks to |
|---|---|---|---|
| Snapping (`packages/geometry/src/snap.ts`) | none | clamp a group, evaluate a drop | called by the room engine |
| Puzzle generation (`packages/geometry/src/{grid,puzzle,path,variety,scatter}.ts`) | none | grid for a picture, piece outlines and their redrawing, seeded scatter | engine (scatter), client (drawing) |
| Room engine (`apps/server/src/engine/room.ts`) | groups, holds, identities, connected players, credited pieces, status, solving clock | join, rename, leave, grab, move, drop, expireIdleHolds, serialize, reload | registry |
| Room registry (`apps/server/src/net/registry.ts`) | live rooms with their connections and checkpoint timers; loads and evictions in flight | join, apply, leave, evict, checkpoint, sweep, shutdown | engine (synchronous calls), store (promises), sockets |
| WebSocket layer (`apps/server/src/net/ws.ts`) | per socket: message queue, session, alive flag | upgrade, message, close, heartbeat | registry |
| Room store (`apps/server/src/store/*.ts`) | rooms, memberships, display names, gallery | create, load, save, record membership | registry, HTTP |
| HTTP API and images (`apps/server/src/http`, `images`) | image blobs | create room, list sessions, gallery, profile | store, image store |
| Account migration (`store/account-migration.ts`, `migrate-accounts.ts`) | none | merge browser ids into an account, offline | store |
| Client sync (`apps/web/src/sync/*.ts`) | board copy, one optimistic drag, socket, timers | connect, begin/move/end drag, handle message, reconnect, heartbeat | server over a WebSocket |
| Board input (`apps/web/src/board/input.ts`) | pointers, gesture | press, drag, pinch, release | client sync, camera |
| Renderer and camera (`apps/web/src/board/{renderer,camera}.ts`, `room/BoardCanvas.tsx`) | scene graph, GPU state, camera, component's life | reconcile, rebuild, tick, mount, unmount, pan, zoom, resize | client sync's store |
| Pages, themes, protocol types, authentication, deployment | presentation or none | | |

How they interact: a browser sends intents over its socket; `ws.ts` handles the
frames of one socket strictly in order and hands them to `registry.ts`, which
calls the engine **synchronously** and fans the result out to the connections
registered in the room. Only the registry awaits (store loads, saves, membership
writes), so it is where handlers of different sockets interleave. The client
applies a drag before the server has granted it and reconciles on the answers.

What is hard here:

* **engine**: long sequences of legal calls. Merges re-key groups, holds outlive
  what they refer to, credit must be given once, solving time is kept in
  stretches opened and closed by joins, second tabs, leaves and completion, and
  a reload rebuilds the table from the deviations alone;
* **snapping**: chains of groups, ties, clamping of wide groups;
* **registry**: every await: a join that is half done while others play, leave or
  evict the room; failed saves; crashes between a broadcast and its checkpoint;
* **client**: grants, refusals, releases and snapshots that arrive around an
  optimistic drag; reconnects with intents in flight; two watchdogs;
* **HTTP API and migration**: requests of the same person in parallel, made of store
  and disk calls that fail or stop half-way; browser ids merged into accounts;
* **screen**: a scene that throws half-way or loses its GPU, fingers that come and go
  while the server changes what is dragged, a component that unmounts while it loads;
* **geometry**: rounding that flips a grid, redrawn edges shared by two pieces, a
  scatter squeezed into what is left around the frame, a camera clamped for a screen
  that has since been resized.

`PROJECT.json` lists each hazard at its line with the properties that cover it.

What makes each component correct:

* engine: pieces stay partitioned, joined pieces stay joined and locked ones stay
  put, a held group is its holder's alone, scores add up to the credited pieces,
  solving time is exact, completion is final, reload is faithful;
* registry: each joined connection sees the room it plays in; guests in the engine
  are guests with a connection; what is announced as completed is durable; a crash
  takes back no confirmed join of pieces;
* client: once it has taken its messages its board equals the server's, and it drags
  only what it holds; one connection at a time, given up when dead and only then;
* service: rooms, pictures, galleries and histories fit each other whatever failed;
  a merge of accounts loses nothing;
* screen: it shows the store or is about to be rebuilt from it; a led group is in hand;
* geometry: a picture has one grid however it is reached, pieces fit and fit only
  their neighbours, the scatter has room, no piece is out of reach.

## 2. Modules

| Module | Models | Role |
|---|---|---|
| `Snap` | `snap.ts`, ids and frame of `puzzle.ts` | pure operators; constants and their assumptions |
| `RoomEngine` | `engine/room.ts` | one action per method; `Spec` |
| `RoomEngineProps` | | the properties of `RoomEngine`, and the inductive invariant `IInv` |
| `Jigsaw` | what a room promises | abstract specification without geometry, ids or time |
| `RoomEngineJigsaw` | | the refinement mapping, `ImplementsJigsaw` |
| `MCRoomEngine` | | constants for TLC; two checks of `Snap`'s definitions |
| `RoomRegistry` | `net/registry.ts`, socket lifecycle of `ws.ts`, store as the registry sees it | one action per stretch of a handler between awaits; `Spec`, `FairSpec` |
| `RoomRegistryProps` | | the properties of `RoomRegistry` |
| `MCRoomRegistry` | | owners of sockets for TLC |
| `Board` | `board-store.ts`, `reconcile.ts` | a browser's copy of the table as a value, its operations as operators |
| `SyncRoom` | `sync-client.ts`, pointer of `input.ts`, fan-out of `registry.ts` | browsers `INSTANCE Board` and the referee (`EXTENDS RoomEngine`) over ordered sockets that break |
| `Connection` | timers, retries and watchdog of `sync-client.ts`, `backoff.ts`, sockets and keepalive of `ws.ts` | one action per timer, frame or fault |
| `AccountMigration` | `account-migration.ts` | what a migration makes of the database |
| `RoomService` | `http/handler.ts`, writes of `sqlite-room-store.ts`, `record-membership.ts`, `names.ts`, image stores | requests cut at their awaits; `EXTENDS AccountMigration` |
| `BoardView` | `renderer.ts` (scene), `input.ts` (gestures), `BoardCanvas.tsx` | the screen against its store, the pointers and the browser |
| `Lengths` | `Math.max`, `Math.min` | used by the modules below |
| `Picture` | `grid.ts`, `process-image.ts` | grid and size of a picture |
| `Tab`, `Cut` | `path.ts`, `puzzle.ts`, `variety.ts` | the drawing of one tab; pieces, edges, silhouettes |
| `Layout` | `scatter.ts` | play area, mat, scatter cells |
| `Camera` | `camera.ts` | clamped pan and zoom; `EXTENDS Layout` |
| `Table` | upload, generation and opening of a board, camera gestures | composes `Picture` to `Camera` |
| `SyncRoomProps`, `ConnectionProps`, `RoomServiceProps`, `BoardViewProps`, `TableProps` | | the properties of the module named |
| `MCSyncRoom`, `MCConnection`, `MCRoomService`, `MCBoardView`, `MCTable` | | constants for TLC |
| `SumLemmas` | | proofs about least numbers and about sums over finite sets |
| `RoomEngineProofs` | | proofs about `Snap`, of the properties of `RoomEngine`, and that it implements `Jigsaw` |
| `RoomRegistryProofs`, `ConnectionProofs`, `RoomServiceProofs`, `BoardViewProofs` | | proofs of the properties of the module named |
| `SyncRoomProofs` | | proofs of the properties of `SyncRoom`: groups, scores and roster; holds and places |
| `TableProofs` | | proofs about tabs, grids, areas and the camera, and of the properties of `Table` |

### From code to model

`RoomEngine` keeps the engine's maps as functions: `groups` (id to pieces,
position, locked), `holds`, `identities`, and the sets `connected` and `credited`;
`status`, `activeMs` and `activeSince` are the fields of the same name (`null` is
`NotActive`). `now` is the injected clock, `solving` a history variable that counts
the time somebody was connected to an active room. Each method runs to completion
in JavaScript, so each is one atomic action; a call the engine refuses changes
nothing and is left out, its conditions being the guard of the action.

Abstractions, and why they are harmless for the properties stated:

* coordinates are integers (floats in the code) and distances are compared through
  squares; properties about rounding are out of scope;
* a group id `group-<pieceId>` is identified with its piece; `row-col` strings
  become numbers in the same order for boards of up to ten rows and columns (the
  order matters only for ties);
* a resume token is identified with the guest it was minted for: both are random
  and minted together, and a guest's token never changes;
* a generated name is any name not yet taken in the room; cursor colours and
  message texts are left out;
* the code walks a queue of groups to find what a drop joins; `Component` is the
  same set defined by closure, and `room_row` checks that they agree;
* a client may report any position of `Reports`; the engine does not constrain it.

`RoomRegistry` follows each socket's handler: `phase` says at which await it is
(`gated` waits for an eviction's flush, `loading` for the shared load, `naming` for the
display name, `recording` for the first membership write, `retrying` in the delay
after a failed one), `ref` which `LiveRoom` it has in hand. `rooms` holds the
incarnations of the room still referred to, `live` is the entry of the `rooms` map.
`saves` are the writes issued and not settled, each with its state as serialized at
the call; the entry of kind `evict` is the `evicting` promise. `seen[c]` is what the
messages sent to socket `c` add up to (the messages of one socket arrive in order).
`overtaken` is history, read by no guard: the sockets whose join was overtaken, between an
await and its continuation, by something `join` does not look at again. Their socket closed,
the room left memory, or the pieces, holds or roster of their snapshot changed (`Overtakes`).

* The frames queued behind a pending join are handled after it, also if the socket closed
  meanwhile (`ws.ts:207-213`); so `MayAct` asks for a joined session, not for an open socket.

* The engine is reduced to a table: a layout, holds and players. `Home` stands for
  "joined or locked for good"; whether a drop gets there is left open.
* Sockets are authenticated in production, so a user is its guest. A fresh guest
  minted in an evicted incarnation would get another id in the next one; here it is
  the same guest, which only adds behaviours.
* `AsyncStore = FALSE` is the production store: better-sqlite3 is synchronous and its
  promises settle in microtasks, before the next socket event or timer
  (`EventLoopFree`). Then a join yields to other handlers only in the delay of the
  membership retry. `AsyncStore = TRUE` is any store behind the `RoomStore` interface,
  settling its writes in the order issued.
* `Incidents` says what may go wrong in an instance: crash, shutdown, rejected save,
  load or membership write.
* A socket whose close came before its session existed stays registered (a ghost). An
  instance has few sockets, so when all are ghosts nothing happens any more: those
  runs do not check for deadlock.

`SyncRoom` has the referee in full and, per client, its `board`, its `drag`
(`SyncClient.drag`), whether a finger has hold of a group (`grip`), its current and its
previous socket, and the frames in flight each way (`up`, `down`), which stay in order.
A reconnect opens the other socket while the server may still have the old one.

* The join, its presence message and its snapshot are one step here; what may happen
  between them is `RoomRegistry`'s subject. Each client is authenticated as the same
  user at every join, as in production.
* Moves are throttled in the code; here a move may or may not be sent. Idle holds are
  found at any time instead of by a clock. Losing a socket loses what is in flight on it.
* A room that nobody is in may be evicted and reloaded, which rebuilds the same table
  (`RoundTrip`); the step is left out. Cursors and interpolation are left out.

`Connection` counts time in ticks of ten seconds. A due timer fires before the next
tick; a sound network delivers within one; a network that dies tells neither end.
Frames are names: `ping`, `pong`, `snapshot` and so on. What happens to the timers on
every path (open, close, unmount, error, refusal) is translated line by line.

`RoomService` keeps the database (`db`), which rooms exist, which files each image has,
and the requests in progress as records of who asked for what and how far they got.
Each store or disk call is a step, each may fail, and the server may stop between any two
and start again; the migration runs while it is down. `whose`, `uploader`, `creator`,
`told` and `joined` are history: what persons did, against which the rows are judged.

* Production always authenticates, so a user id is an account's, except in what the
  browser-id days left in the database. An instance has one mapping per migration. It
  merges all the ids of a person that have a name, and only those, as its operator
  promises, and may resolve the label of any room of `Resolvable`, conflict or not, also to
  none (the explicit `null` of `account-migration.ts:13`, which erases it).
* Every account is born with a name, so `ensureUserDisplayName` finds one. `EnsureName` has
  its minting, but no account takes that branch, and nothing is claimed of two mints at once.
* An S3 put shows both files at once, the disk one after the other: the disk's steps
  include what S3 can show. Requests that only read, or are refused before they write,
  are one action, `LeavesNoTrace`. The in-memory store is for tests.

`BoardView` keeps of a group what the screen tells apart: whether it is locked and who
holds it; of a node whether it is as the store has it. An error may interrupt a
reconciliation in any group and after any part of its work, `MaxFaults` times, and a
rebuild whenever the context is lost. The GPU context may be lost any number of times.

`Table` goes through the stages of a table and forgets what the next stage does not read.
All its numbers are the code's: 50 pixels a cell, 2048 a side, pitches in tenths, tabs in
1/10000 of a cell, scales in 1/10000; the room for jitter is rounded down. One viewport
stands for `app.screen`, which clamps the camera, and for the canvas's client size, by which
`input.ts` zooms: with `autoDensity` and no size of its own in the style sheet, Pixi sets
the second from the first in one call. What lags behind a resize is both of them
(`OnResize`). Logarithms are computed by a series to 1/32000. Random draws are free: every
corner of the parameter box for rooms of two pieces, three chosen tabs for up to four;
larger rooms are scattered and looked at but not cut piece by piece. Two silhouettes differ
in so many sides, instead of by a distance over sampled points.

Definitions under the comment "Mutated form" are deliberate bugs used to check that
each property can fail. They take no part in `Spec`.

## 3. Runs

The engine's runs and `sync_room` use the scale `Cell = 6, Tol = 1, Overhang = 2`
(100 : 15 : 38 in the code): small numbers in about the same ratios, so that a report can
be on the frame, within the tolerance of it, next to another piece, or far away.

A property of a run is often a conjunction of named parts, each stated and commented in
the properties' module; the run checks all of them. Type
invariants that are not a property of their own are such parts (`ServiceTypeOK` in
`PicturesAreWhole`, `ClientsTypeOK` in `BoardPartitions`).

| Run | Instance | Checks |
|---|---|---|
| `room_row` | 1x3 board, 2 guests, no clock | the inductive invariant `IInv` (partition, locks, live holds, credit, completion, solving time, identities), reload is faithful, a held group is exclusive, drops land inside, what a drop joins does not depend on list order, refinement of `Jigsaw` |
| `room_square` | 2x2 board, 1 guest | permanence, with cascades in two dimensions |
| `room_timed` | 1x2 board, 3 guests for 2 slots, user ids, names, clock | `IInv`, scores, finality of the record |
| `registry_sync` | synchronous store; 3 sockets of 2 guests, 2 pieces; crash, shutdown, failed saves and loads | everybody in play has been told the room's table; guests in the room have sockets and the reverse; sessions are on the live room |
| `registry_async` | asynchronous store; 2 sockets, 2 pieces, room cap 1; failed loads; fairness | no room stays for nobody, nothing confirmed is lost in evictions and reloads, announced completion is stored, every join is settled, everything confirmed gets stored for good |
| `registry_stop` | synchronous store; sockets of 2 guests, room cap 2, 2 pieces; shutdown, failed membership writes | shutdown keeps what was confirmed; with joins waiting in the retry while others play, leave and evict, a socket whose join nothing overtook is served: open, in the live room, with its board; a guest without an open socket is one whose join was overtaken |
| `sync_room` | 1x2 board, 2 browsers, 3 events (presses, renames, lost sockets, idle holds) | boards partition the pieces at all times; a client that has taken its messages agrees with the referee on groups, locks, scores, status and roster; free groups lie where they are; holders are true |
| `sync_truth` | the same | finding, section 5 |
| `connection` | 3 sockets, 2 faults, ticks of 10 s: heartbeat 1, silence 3, backoff 1 and 2, sweep 3; fairness | one socket, silent when closed; each end notices a dead peer in its window and no living one is given up; a client gets back in, a vanished guest leaves |
| `room_service` | 2 persons, one with 2 browser ids; 2 rooms, 2 pictures, 2 slots, 3 requests, 2 failing calls, any stops | rooms show whole pictures of their makers; galleries and histories are true and complete; a merge loses nothing; shown names stay |
| `board_view` | 2 groups, 3 fingers, 1 mount, 1 error; context losses unlimited; fairness | the scene is the store's or is to be rebuilt; locked pieces beneath; one gesture; a led group is in hand; no orphan scene; a frozen scene thaws |
| `table` | 12 files, 7 piece counts up to 1000, 3 screens, 3 gestures | the grid is the upload's; pieces fit and have no twin; they are scattered off each other and the frame; the searches find a grid near the shape and the count, and a cell for each piece; camera and zoom |

Two sockets are enough for one to leave, evict and reload the room while the other
joins; the third lets one guest have two tabs while somebody else keeps the room.
`MaxSaves` bounds the checkpoints in flight, not the evictions or completions. In
`registry_stop` two strangers are in the room together while one's join waits for its
membership write, which is where a join yields with the production store; one of them can
play, close, evict the room, or be the one who is overtaken. Pieces are symmetric there.
That a join is overtaken at the other awaits too, with an asynchronous store, is covered
by the proof only (`UndisturbedAreServedCorrect`).

Three pieces are the least for which a drop can join two groups at once and a third
party can hold a neighbour; four in a square the least for which two merges meet in
a cycle and an anchor is not the outermost piece. Two guests suffice for every
conflict over a hold (the engine compares a holder with the caller only), three for
the room cap of two. Guests are symmetric where no property names one.

Two browsers are the least that can conflict over a group; a 1x2 board has a merge, a
lock, a completion and a group in the other's hand. Three events are the least for a
conflict in which a socket is lost, and for a press, an idle release and another press.
More of them are out of the run's reach, and do matter (five let a lapsed hold hide the
next holder, section 5): what holds however many there are is proved (section 4). A
player who has used up the events stops, so deadlock is not checked there.

Two faults in `connection` let a network die while the client recovers from another;
three sockets are those a client may have left behind within the sweep's window. Ages
stop counting at `MaxAge`, beyond every window. With ticks of five seconds (twice the
resolution, 891 thousand states) all its properties hold as well. In `room_service`
three requests let two conflict and one look at what is left; the database starts with a
room of the browser-id days, so that migration has histories and scores to merge, and
mappings resolve that room's label (`Resolvable`), the one that can conflict. In
`board_view` three fingers are one more than a pinch needs. In `table` the files include
one whose grid is another after the downscale (2900x3950, 150 pieces) and one with
pixels enough only before it (3000x1000, 1000 pieces); piece counts below 100 are not
offered to users and stand for small boards cut exhaustively. Also checked once: a 2x3
board cut with two tabs (214 thousand states), and boards of 500 pieces.

**Fairness.** No liveness is claimed of the engine: it acts only when called.
`FairSpec` of the registry assumes weak fairness of what the process does by itself:
store promises settle (fulfilled or rejected), handlers resumed from an await go on,
the retry delay and the checkpoint timer elapse. Nothing is assumed of the sockets:
they need not join, act or close. `FairSpec` of `Connection` assumes that time passes
(strongly, since due timers and deliveries hold it back), that timers fire, that a sound
network delivers and opens or refuses sockets, and that the browser reports the end of a
socket it was told to close. Nothing is assumed of faults. `BoardView` assumes only that
frames are drawn (weak fairness of `Tick`, the ticker of Pixi).

## 4. Proofs

What the runs check on a small instance the theorems state for every value of the
constants: any number of guests, sockets, pieces, persons, requests and faults, any
windows and delays. Each rests on the named ASSUMEs of the modules (sizes and bounds are
numbers, the sets of names do not overlap) and on the hypotheses given here.

### The engine

`RoomEngineProofs` proves for every board size, tolerance, play area, scatter, set
of guests, users and names, room cap and set of reports:

* `Invariance`: `Spec => []IInv`. `IInv` conjoins the type invariant with the
  partition of the pieces, locked groups on the frame, live holds, credit, completion,
  solving time and unique users, and with `ClockAgrees`. They need each other: that a
  merge keeps the partition needs the result to be well formed, that credit matches
  joined groups needs a group's id to be among its pieces, that solving time is exact
  needs the running stretch to agree with who is connected (`ClockAgrees`), which in
  turn needs the status. Each action has its own lemma (`JoinInv` ... `DropInv`).
* from it its parts one by one, and the reload: `TypeCorrect`, `PartitionCorrect`,
  `LockedCorrect`, `HoldsCorrect`, `CreditCorrect`, `CompletionCorrect`,
  `SolvingTimeCorrect`, `IdentityCorrect`, `RoundTripCorrect`;
* the action properties: `HeldExclusive`, `CompletedFrozen`, `ScoresGrow`, `RecordFinal`
  (the two before it), `LandingCorrect`, `ProgressPermanent`. The last needs a second
  invariant, that every piece of a locked group is on its own frame position;
* `ScoresSumCorrect`: the scores add up to the credited pieces. `ScoresKept` says so of
  the sum as a function of the table of players, and that there are finitely many.
  `SumLemmas` shows that a sum over a finite set does not depend on the order in which
  `MapThenSumSet` takes its elements, splits into parts, and follows a change of one
  number. Its inductions are by descent: a set of naturals in which each member has a
  smaller one is empty (`Descent`), since a non-empty one has a least member.

It proves the refinement, `RefinementCorrect`: under the mapping of
`RoomEngineJigsaw` every step of the engine is a step of `Jigsaw` or leaves its variables
alone. `Jigsaw` knows no ids, so the mapping finds a block's hand by its pieces; that a
block has one id (`IInv`'s partition) makes this the hold of the group. Each action of the
engine has a lemma that names its step: a join is `Arrive`, a drop is `PutDown` with the
blocks it absorbs, an idle release is `TakeBack`; a move or a rename is no step at all.

Its first part is the geometry they use: minima exist and are chosen
(`NatMin`, `BestCandidateExists`, `PickReferenceExists`), clamping puts a group that
fits inside the area (`ClampInside`), a frame lock is inside it (`FrameInside`), and a
drop on any well-formed table yields a well-formed group of exactly the absorbed
pieces (`EvaluateSnapOutcome`).

The assumptions are the named ASSUMEs of `Snap` and `RoomEngine`: positive sizes, a
play area that exceeds the frame by a tab's overhang on each side (as `playArea` of
`scatter.ts` does), a positive cap and timeout.

### The registry

`RoomRegistryProofs`. What may go wrong is in `Incidents`; a hypothesis that an incident
does not happen, or that the store is the synchronous one of production, is one the
property fails without (section 5).

| Theorem | Hypotheses | Invariant beside the types |
|---|---|---|
| `MemoryIsSoundCorrect` | none | `Handover`: the last write of a room that left memory is its eviction or the shutdown, and nobody reads or opens the room before it settled; `LiveIsInhabited`: a live room has a socket or a handler on its way |
| `AnnouncedIsStoredCorrect` | no failing save | `CompletionIsLast`: every write after a completion, and the room itself, is complete |
| `StoreIsSoundCorrect`, `ConfirmedIsKeptCorrect` | no failing save, no crash; shutdowns only with the synchronous store | `ConfirmedIsKept` over the live room, the last write or the store, whichever holds the room now |
| `UndisturbedAreServedCorrect` | none: any store, any incident | `Undisturbed`: a handler between its awaits whose join nothing overtook has its socket open and its room live, and once it is in the engine its snapshot is good (`Served`) |
| `ViewsAgreeCorrect`, `PresenceIsRealCorrect` | synchronous store, and no membership write fails | `SyncInv`: one handler at a time is between its awaits (`OneAtATime`), and every socket has been told everything but the guest who is being registered (`ToldAll`) |

`join` reads the room, the snapshot and the socket before its awaits and uses them after.
`UndisturbedAreServed` says which interruptions are harmful, and that these are all: every
step either leaves a waiting handler's room, board and socket as they were or puts the
socket in `overtaken` (`NotedStep`: every action keeps that record), its own steps take it
from one phase to the next with its room in hand (`JoinAdvances`), and once registered it is
told each change (`ServedStays`). It rests on `Handover`, by which the room is not opened
twice.

The two of the last line are one induction: that a socket in play is told everything
needs that no room is evicted under a joining handler, which needs that the engine's
guests are those of the registered sockets, which needs that no second handler runs
meanwhile. With a synchronous store the retry of a membership write is the only place
where one could: the hypothesis that none fails excludes it, so these two say nothing of a
join that yields, and are not counted among the main results. Section 5 shows them fail there.

### The connection

`ConnectionProofs`, for every heartbeat and sweep interval, liveness timeout and backoff:

* `OneConnectionCorrect` (a client mounted once): `Bookkeeping` says what the timers and
  sockets amount to between two steps; `SingleSocket` and `ClosedIsSilent` are not
  inductive without it, since a reconnect or a late close is harmless only if nothing
  else is pending.
* `DeadIsNoticedCorrect` (a client mounted once): `Watchful` relates the silence, the time
  since the last heartbeat and what is on its way in both queues; `ByeIsSaid` says that a
  server that hung up has its close frame on the way; `SweepsCount` and `PongIsComing` do
  the same for the server's keepalive.
* `NeverReapsCorrect`: an action property from `SweepsCount` and `PongIsComing`.

### The service

`RoomServiceProofs`, for any number of persons, browser ids, rooms, pictures, requests
in progress, failing calls and stops:

* `PicturesAreWholeCorrect`. `RequestsAreSound` says how far a request is and what it
  has stored so far (the room it makes is its own and not there before its turn), and
  `IdsAreTrue` that an id in an account, a gallery or a history is the same person's:
  without it a merge of accounts could give a picture away.
* `HistoryIsTrueCorrect`, if fewer writes fail than a write is attempted (`MaxFaults <
  MaxAttempts`; with more, `recordMembershipWithRetry` gives up and the maker is answered
  all the same). `RowsAreTrue` counts the attempts of a request against the failures so
  far, and says that a request that goes on to the gallery has its membership.
* `HistoryIsEarnedCorrect`: the same without the hypothesis, for what does not depend on it.
* `HistoryOnlyGrowsCorrect` and `NameIsKeptCorrect`: what no step may take away.
* `LabelsAreKeptCorrect`, with finitely many ids: the label a person gave a room is still one
  of theirs after a migration, unless the mapping resolves that room; then it is the label
  resolved there, or none if it is resolved to none. A merge without a resolution is accepted
  only if the labels agree (`OneLabel`).
* `HistoryIsPreservedCorrect`, with finitely many ids (of others no sum is defined): the
  history and the labels, and that a migration conserves scores. A person's score is a sum
  over their ids; the migration gives one of the ids what the merged ones had together
  (`SumMerges`).

### The browsers

`SyncRoomProofs`, for any number of guests with a browser each, any board, names and
numbers of drags, reconnections and idle holds. It builds on `IInv`: the actions of
`SyncRoom` are those of the engine with what browsers and sockets add, and the lemmas of
`RoomEngineProofs` are cited for the referee's part.

* `ConvergesCorrect` and `BoardPartitionsCorrect` follow from `SyncInvariance`. `View` is
  what a board shows: pieces and locks of its groups, scores, progress, status and roster,
  without what the local pointer may change (positions, hands, the client's own name);
  `Truth` is the same of the referee. `Follows` says that the frames in flight to a client
  take its view, frame by frame and each time through a partition of the pieces, to the
  truth, as long as its socket is joined. A board alone is not inductive: what it will be
  after the next frame depends on the frames before it.
* A frame is taken in two halves: `ReconcileSeen`, that what `reconcile` makes of a board
  shows what `Seen` says, whatever drag is in progress; and, per action of the server, that
  `Seen` of what it broadcasts is the change of the truth (`DropTold` for merges and
  scores). A snapshot starts afresh: the groups it leaves out are where they were scattered
  (`SnapshotTrue`), because a group that does not deviate is one piece on its seeded place.
* A guest is present as long as one of their sockets is joined (`WireInv`): it is why a
  late close of an old socket takes nobody out of the roster.

Its second half adds who holds a group and where it lies.

* `RestsInPlaceCorrect` and `HoldsAgreeCorrect` follow from `HandsInvariance`. A client is
  deaf to part of what it is told of the group it drags, so its board may be wrong of that
  group, also after the drag. `HandInv` therefore says two things of a client and a group.
  The frames in flight lead, one by one, from a state its board is near (`Near`: it shows
  no third guest's hand, and a locked group as it is) to who holds the group and where it
  rests (`Tells`). And either the board shows that state (`Settled`), or something will put
  it right: a frame on its way down that ends the drag (a snapshot, a result or a refusal,
  `Ending`), a drop on its way up that will be answered by one (`Dropping`), or the pointer
  still has the group, whose grab is on its way up or was granted (`Dragging`).
* `GrantInv` says that a grant, taken or in flight, is true until a frame that ends the drag.
* `Sent` says what of this the server keeps: a refusal is sent only while another guest
  holds the group, a move only while somebody does. A snapshot is right about every group,
  listed in it or not (`SnapshotExact`).
* Excepted are, of each client, the groups taken from its own idle hand since it last
  connected (`lapsed`): of these the board may stay wrong (section 5).

### The screen

`BoardViewProofs`, for any groups, fingers, mounts, errors and losses of the GPU context.
`SceneIsSoundCorrect` and `GesturesAreSoundCorrect` follow from `Inductive`:

* `SceneInv` is kept in the middle of an interrupted reconciliation too: the nodes on the
  page are remembered ones, placed pieces beneath loose ones, and no node is drawn as placed
  whose group is not. Only while a rebuild is scheduled may a node be missing, left over or
  not as the store has it. What one turn does to one group (`Turn`) gives what a whole
  reconciliation does, in whatever order the groups take their turns.
* `MountsInv` says that mounts come one after the other, each cleaned up before the next,
  and `AsleepInv` that a page without a scene has no nodes, fingers, gesture or rebuild
  pending: without them an unmounted component's scene could be found again by the next.
* `OneGesture` and `LedIsInHand` need beside them only that a drag is of a mount that was
  live.

### The table

`TableProofs`, for any set of files, piece counts and screens, any number of attempts,
distance to keep and gestures. The tabs of a `shape2:` seed are any of `DrawnTabs`, in the
model's steps of a percent; those of a plain seed are the corners of their ranges, as in
the run.

* `JudgedCorrect`: `StageInv` says that what the gallery keeps of a picture is the size it
  was uploaded with.
* `PiecesFitCorrect` follows from `Invariance`. `EdgesInv` says that a piece and its
  neighbours hold the same curves (`Matched`), but for those of the piece under the pen,
  whose copies wait for `Commit`; `PenInv` that the best drawing so far is as far from the
  finished pieces as the pen has noted; `SeenInv` that the silhouettes it is compared
  with are those of the finished pieces as they lie now, in every turn. The last
  is what a redrawing could break: a commit changes the neighbours' copies, and it is the
  restriction to right and bottom sides that keeps these off finished pieces. That the tabs
  hold (`TabHolds`) is arithmetic over `DrawnTabs`, of which the run has the corners.
* `ScatterCorrect`: two cells of a lattice are a pitch apart (`ScatterRoomy`), whichever
  try is chosen, and a cell that is not `InsideFrame` clears the frame by its footprint.
* `CameraCorrect`: what is left of the mat when it is panned as far as it goes
  (`ClampEdge`) against the panel, for any scale from `MinScale` to `MaxScale`
  and also when a resize has left the camera outside of them. Roots and
  quotients are the rounded ones of the model.

The assumptions are the named ones of `Table`: positive file sizes, piece counts and
numbers of attempts, screens with whole numbers of pixels, tabs among `DrawnTabs`.

### Only model-checked

* `SearchesSucceed`: that the rows, columns, pitches and jitters tried hold what is looked
  for. It is a fact about particular numbers, checked for the shapes and piece counts of the
  run (`NearSquare` for the counts offered; it fails for some below: 1920x1080 cut in three).
  Where no try of `Tries` had a cell for each piece the code would throw; none is known.

* `JoinsAreDetermined` compares with a recursive definition.
* Liveness: `JoinIsSettled`, `ConfirmedIsStored`, `EventuallySettled`,
  `GuestEventuallyGone`, `Unfrozen`. The prover does not handle fairness.

## 5. Findings and observations

One disagreement between the code and its documents is kept as a run:

* `sync_truth`: `reconcile.ts:116-121` ignores a release of the group its client is
  dragging. The registry's sweep releases a group that is held still for too long, so the
  player goes on dragging what they no longer hold, the drop is refused, and the board keeps
  the group in their hand and where they left it until a reconnect or another drop of it
  (NFR-6, SPEC.md:92). It may even show the hand of a player who is gone: the client presses
  a group before it is told that another has just taken it, the other's hold ends, the
  client is granted the group, and its own hold is taken before its drop arrives. Its drag
  was deaf to both releases and to its own `held`; once it drags something else, its board
  shows the group in the other player's hand. Five events, beyond the bound of the runs,
  lead there. What the code does keep, for every group not taken from the client's own idle
  hand since it last connected (`lapsed`), is `RestsInPlace` and `HoldsAgree`.

The following were met while modelling. Their properties are stated in the modules and
are violated by the code; each can be reproduced by adding the property to the named
configuration (and the incident to its `Incidents`, where it is not there).

| Property | Add to | What happens | What is said |
|---|---|---|---|
| `MergeMovesWithinTol` (`RoomEngineProps`) | `RoomRow.cfg`, `Reports <- DriftReports` | groups released in place may lie within the tolerance of each other without having joined; a later drop joins the chain and its far end moves by the sum of the misfits | `snap.ts:203` "all are within tolerance by construction" |
| `RestInsideArea` (`RoomEngineProps`) | `RoomRow.cfg` | moves are not clamped; a disconnect or an idle timeout releases a group where its last move put it | `constants.ts:144` "Pieces scatter and clamp inside the hem" |
| `ViewsAgree` (`RoomRegistryProps`) | `RegistrySync.cfg`, "record" | a join's snapshot is built before the membership write and sent after it; when the write is retried, what others do meanwhile never reaches the joiner | SPEC.md:141 "must yield exactly the state every other player sees" |
| `NoGhosts` | `RegistrySync.cfg`, "record" | a socket that closes while its join retries leaves a guest who takes a slot and keeps the room in memory | SPEC.md:151 "removes the player from presence" |
| `TabsKeepGuest` | `RegistrySync.cfg`, "record" | the same delay lets a join register in an evicted room, and a closing tab take out a guest whose other tab is joining | `registry.ts:403`, `registry.ts:321` |
| `ConfirmedIsKept` | `RegistrySync.cfg`, "crash" | merges and locks are broadcast before the debounced save | SPEC.md:91 (NFR-5) |
| `AnnouncedIsStored` | `RegistrySync.cfg`, "save" | completion is broadcast even if its save failed | `registry.ts:41` "Broadcast only after an immediate persist completes" |
| `StalledIsLeft` (`ConnectionProps`) | `Connection.cfg` | the watchdog starts with the first snapshot: a socket that dies before it is waited on for ever | `sync-client.ts:69` "Silence past this window means the socket is dead" |
| `MatInView` (`TableProps`) | `Table.cfg` | on a screen of 667x375 a board of 100 pieces panned up after opening leaves the screen: the overscroll exceeds the mat's height | `camera.ts:75` "so the mat can't be dragged entirely out of view" |

Without a failed membership write the first three registry properties hold (`registry_sync`);
with one, `UndisturbedAreServed` is what the code keeps (`registry_stop`).
`JoinIsSettled` counts a join whose load was rejected as settled: its socket stays open
with no answer.

Seen, and outside what the properties say:

* `rollbackGrab` shows a refused group as free although the refusal says who holds it,
  until the next message about it (FR-19).
* A press between a socket's opening and its snapshot, or a second press on a group
  whose drop is not answered yet, leaves a hold at the server that the client does not
  know; the idle sweep ends it. `HoldsAgree` says nothing of such a hold.
* A player's own new name stays on their board when the rename is refused because the room
  is completed; `Converges` speaks of the names of the others.
* `backoff.ts:14` speaks of jitter; `RoomClient.tsx` passes no `random`, so there is none.
  A room that does not exist is retried for ever at the longest delay.
* Under React's strict mode a client is closed and connected again by two mounts at once
  (`MaxMounts = 2`): `SingleSocket` fails. Production mounts once.
* A pinch keeps its baseline when the first of three fingers lifts, and jumps. A
  component that unmounts while Pixi starts destroys its application twice. A group that
  merges away under a cancelled drag leaves `SyncClient.drag` on an id that is gone.
* `onResize` clamps the camera with the size `app.screen` has at that moment, which Pixi
  may not have updated yet, and never clamps the scale again (FR-27). `fitCamera`'s result is
  not clamped. `updatePinch` (`input.ts:198`) stores a distance of zero where `beginPinch`
  stores one: two fingers that coincide in two moves make the camera not a number.
  The model's fingers stay apart.
* `scatter.ts:48-55` says that the pieces' cells lie inside the bounds; for 5x5, 10x10 and 10x15
  boards some eligible cells reach outside them (never outside the play area,
  `ScatterIsRoomy`). Tabs of plain seeds do not keep to the corridor that `variety.ts` keeps.

## 6. Plan

Done: the engine, the registry, the connection, the HTTP API with the account migration,
the browsers against the referee, the screen, and the path from a picture to a table,
each with its proofs.

Next: an engine with merges in place of the registry's table, and a membership retry and
an eviction inside `SyncRoom`.

Not modelled: the drawing itself (paths, atlas, textures, themes, animation, sound), the
pages and their forms, cursors and interpolation, listings and other queries, multipart
parsing, validation of frames and image encoding, the cryptography of the authentication check,
the stateless proxy, and deployment scripts. None of them keeps state another part
depends on.
