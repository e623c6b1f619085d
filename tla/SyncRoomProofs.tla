--------------------------- MODULE SyncRoomProofs ---------------------------
(***************************************************************************)
(* Theorems about browsers in one room, for every board, every number of   *)
(* guests and every bound of the model: whatever is in flight to a client  *)
(* leads from what its board shows to what the referee knows.              *)
(***************************************************************************)
EXTENDS SyncRoomProps, RoomEngineProofs, SequenceTheorems

-----------------------------------------------------------------------------
(* The kinds of values on the boards and in the frames. *)

Map(S, T) == UNION {[D -> T] : D \in SUBSET S}

Spot == Point \cup {None}
BoardGroup == [pieces : SUBSET Pieces, position : Spot, locked : BOOLEAN,
               heldBy : Guests \cup {None}]
BoardType == [groups : Map(Pieces, BoardGroup), players : Map(Guests, Names),
              scores : Map(Guests, Nat), placed : Nat, status : {"active", "completed"}]
DragType == [group : Pieces \cup {None}, origin : Spot, granted : BOOLEAN]

UpFrame ==
  [type : {"join"}] \cup [type : {"grab"}, id : Pieces \cup {None}]
    \cup [type : {"move"}, id : Pieces \cup {None}, position : Point]
    \cup [type : {"drop"}, id : Pieces \cup {None}, position : Reports]
    \cup [type : {"rename"}, name : Names]

SnapshotFrame ==
  [type : {"snapshot"}, groups : Map(Pieces, BoardGroup), players : Map(Guests, Names),
   scores : Map(Guests, Nat), placed : Nat, status : {"active", "completed"}]
HandFrame ==
  [type : {"grab_result"}, id : Pieces, outcome : {"granted", "held_by"}]
    \cup [type : {"group_moved", "released"}, id : Pieces, position : Point]
    \cup [type : {"held"}, id : Pieces, by : Guests] \cup [type : {"error"}]
SnapFrame ==
  [type : {"snap_result"}, id : Pieces, merged : SUBSET Pieces, group : Group, placed : Nat,
   credit : [guest : Guests, n : Nat]]
RosterFrame ==
  [type : {"presence"}, event : {"joined", "renamed"}, guest : Guests, name : Names]
    \cup [type : {"presence"}, event : {"left"}, guest : Guests, name : {None}]
DoneFrame == [type : {"completion"}, placed : Nat, scores : [Guests -> Nat]]
DownFrame == SnapshotFrame \cup HandFrame \cup SnapFrame \cup RosterFrame \cup DoneFrame

ClientInv ==
  /\ board \in [Guests -> BoardType] /\ drag \in [Guests -> DragType]
  /\ grip \in [Guests -> BOOLEAN]
  /\ link \in [Guests -> {"down", "joining", "connected"}]
  /\ cur \in [Guests -> {1, 2}]
  /\ srv \in [Sockets -> {"none", "open", "joined"}]
  /\ up \in [Sockets -> Seq(UpFrame)] /\ down \in [Sockets -> Seq(DownFrame)]
  /\ events \in 0..MaxEvents /\ lapsed \in SUBSET (Guests \X Pieces)

-----------------------------------------------------------------------------
(* What a board shows of the referee's state, and what a frame does to it.  *)
(* Positions and hands are left out, which the local pointer may change, and*)
(* a client's own name, which it sets before the referee knows.             *)

Shape(g) == [pieces |-> g.pieces, locked |-> g.locked]
Shapes(gs) == [id \in DOMAIN gs |-> Shape(gs[id])]
Masked(players, c) == [g \in DOMAIN players |-> IF g = c THEN None ELSE players[g]]

View(b, c) ==
  [groups |-> Shapes(b.groups), players |-> Masked(b.players, c),
   scores |-> [g \in Guests |-> ScoreOn(b, g)], placed |-> b.placed, status |-> b.status]

Truth(c) ==
  [groups |-> Shapes(groups),
   players |-> Masked([g \in connected |-> identities[g].name], c),
   scores |-> [g \in Guests |-> identities[g].placedCount],
   placed |-> Cardinality(credited), status |-> status]

SeenSnap(v, m) ==
  [groups |-> Put(Without(v.groups, m.merged), m.id, Shape(m.group)), players |-> v.players,
   scores |-> [g \in Guests |-> IF g = m.credit.guest THEN v.scores[g] + m.credit.n ELSE v.scores[g]],
   placed |-> m.placed, status |-> v.status]

SeenRoster(c, v, m) ==
  [groups |-> v.groups,
   players |->
     IF m.event = "left" THEN Without(v.players, {m.guest})
     ELSE IF m.event = "joined" \/ m.guest \in DOMAIN v.players
       THEN Put(v.players, m.guest, IF m.guest = c THEN None ELSE m.name)
     ELSE v.players,
   scores |-> v.scores, placed |-> v.placed, status |-> v.status]

SeenDone(v, m) ==
  [groups |-> v.groups, players |-> v.players, scores |-> m.scores, placed |-> m.placed,
   status |-> "completed"]

Seen(c, v, m) ==
  IF m.type = "snapshot" THEN View(ApplySnapshot(EmptyBoard, m), c)
  ELSE IF m.type = "snap_result" THEN SeenSnap(v, m)
  ELSE IF m.type = "presence" THEN SeenRoster(c, v, m)
  ELSE IF m.type = "completion" THEN SeenDone(v, m)
  ELSE v

\* Groups that partition the pieces, each under the id of one of its own.
Whole(gs) ==
  /\ DOMAIN gs \subseteq Pieces
  /\ UNION {gs[id].pieces : id \in DOMAIN gs} = Pieces
  /\ \A i, j \in DOMAIN gs : i # j => gs[i].pieces \cap gs[j].pieces = {}
  /\ \A id \in DOMAIN gs : id \in gs[id].pieces

\* The frames q take the view v to w, by way of whole boards.
Leads(c, v, q, w) ==
  \E h : /\ h[0] = v /\ h[Len(q)] = w
         /\ \A k \in 0..Len(q) : Whole(h[k].groups)
         /\ \A k \in 1..Len(q) : h[k] = Seen(c, h[k - 1], q[k])

WireInv ==
  /\ DOMAIN identities = Guests
  /\ connected = {Owner(s) : s \in Joined}
  /\ \A s \in Sockets : ~Listening(s) => down[s] = << >>

Fed(c) == srv[Sock(c)] = "joined" /\ link[c] # "down"

\* What is in flight to a client leads somewhere; of a joined one, to the truth.
Follows(c) ==
  \E w : Leads(c, View(board[c], c), down[Sock(c)], w) /\ (Fed(c) => w = Truth(c))

SyncInv == IInv /\ ClientInv /\ WireInv /\ \A c \in Guests : Follows(c)

-----------------------------------------------------------------------------
(* The operators of the board. *)

LEMMA InMap ==
  ASSUME NEW S, NEW T, NEW f
  PROVE  f \in Map(S, T) <=> DOMAIN f \subseteq S /\ f \in [DOMAIN f -> T]
BY DEF Map

LEMMA PutIn ==
  ASSUME NEW S, NEW T, NEW f \in Map(S, T), NEW k \in S, NEW v \in T
  PROVE  Put(f, k, v) \in Map(S, T)
<1>1. DOMAIN f \subseteq S /\ f \in [DOMAIN f -> T]
  BY InMap
<1>2. DOMAIN Put(f, k, v) = DOMAIN f \cup {k} /\ Put(f, k, v) \in [DOMAIN f \cup {k} -> T]
  BY <1>1 DEF Put
<1> QED
  BY <1>1, <1>2, InMap

LEMMA WithoutIn ==
  ASSUME NEW S, NEW T, NEW f \in Map(S, T), NEW ks
  PROVE  Without(f, ks) \in Map(S, T)
<1>1. DOMAIN f \subseteq S /\ f \in [DOMAIN f -> T]
  BY InMap
<1>2. DOMAIN Without(f, ks) = DOMAIN f \ ks /\ Without(f, ks) \in [DOMAIN f \ ks -> T]
  BY <1>1 DEF Without
<1> QED
  BY <1>1, <1>2, InMap

Unseen(n, b, c) == n \in BoardType /\ View(n, c) = View(b, c)

\* A change of one group that keeps its pieces and its lock is not seen.
LEMMA PatchUnseen ==
  ASSUME NEW b \in BoardType, NEW c, NEW id, NEW g,
         id \in DOMAIN b.groups => g \in BoardGroup /\ Shape(g) = Shape(b.groups[id])
  PROVE  Unseen(Patch(b, id, g), b, c)
<1>1. CASE id \notin DOMAIN b.groups
  BY <1>1 DEF Patch, Unseen
<1>2. CASE id \in DOMAIN b.groups
  <2> DEFINE gs == [b.groups EXCEPT ![id] = g]
             n == Patch(b, id, g)
  <2>1. DOMAIN b.groups \subseteq Pieces /\ b.groups \in [DOMAIN b.groups -> BoardGroup]
    BY InMap DEF BoardType
  <2>2. gs \in [DOMAIN b.groups -> BoardGroup] /\ DOMAIN gs = DOMAIN b.groups
    BY <1>2, <2>1
  <2>3. gs \in Map(Pieces, BoardGroup)
    BY <2>1, <2>2, InMap
  <2>4. Shapes(gs) = Shapes(b.groups)
    BY <1>2, <2>1 DEF Shapes
  <2>5. /\ n \in BoardType /\ n.groups = gs /\ n.players = b.players /\ n.scores = b.scores
        /\ n.placed = b.placed /\ n.status = b.status
    BY <1>2, <2>3 DEF Patch, BoardType
  <2> HIDE DEF n, gs
  <2>6. View(n, c) = View(b, c)
    BY <2>4, <2>5 DEF View, ScoreOn
  <2> QED
    BY <2>5, <2>6 DEF n, Unseen
<1> QED
  BY <1>1, <1>2

\* In particular of its position and of the hand that holds it.
LEMMA HandUnseen ==
  ASSUME NEW b \in BoardType, NEW c, NEW id, NEW pos \in Spot, NEW g \in Guests \cup {None}
  PROVE  /\ Unseen(Patch(b, id, [b.groups[id] EXCEPT !.position = pos]), b, c)
         /\ Unseen(Patch(b, id, [b.groups[id] EXCEPT !.heldBy = g]), b, c)
         /\ Unseen(Patch(b, id, [b.groups[id] EXCEPT !.heldBy = g, !.position = pos]), b, c)
<1> DEFINE moved == [b.groups[id] EXCEPT !.position = pos]
           held == [b.groups[id] EXCEPT !.heldBy = g]
           both == [b.groups[id] EXCEPT !.heldBy = g, !.position = pos]
<1>1. ASSUME id \in DOMAIN b.groups
      PROVE  /\ moved \in BoardGroup /\ Shape(moved) = Shape(b.groups[id])
             /\ held \in BoardGroup /\ Shape(held) = Shape(b.groups[id])
             /\ both \in BoardGroup /\ Shape(both) = Shape(b.groups[id])
  <2>1. b.groups[id] \in BoardGroup
    BY <1>1, InMap DEF BoardType
  <2> QED
    BY <2>1 DEF BoardGroup, Shape
<1> HIDE DEF moved, held, both
<1>2. /\ Unseen(Patch(b, id, moved), b, c) /\ Unseen(Patch(b, id, held), b, c)
      /\ Unseen(Patch(b, id, both), b, c)
  BY <1>1, PatchUnseen
<1> QED
  BY <1>2 DEF moved, held, both

-----------------------------------------------------------------------------
(* What a frame makes of a board: Reconcile keeps the types, and changes the *)
(* view as Seen says, whatever the local drag.                               *)

Reconciled(m, b, d, c) ==
  /\ Reconcile(m, b, d, c).board \in BoardType
  /\ Reconcile(m, b, d, c).drag \in DragType
  /\ View(Reconcile(m, b, d, c).board, c) = Seen(c, View(b, c), m)

LEMMA NoDragType == NoDrag \in DragType
BY DEF NoDrag, DragType, Spot

\* Frames about hands and positions are not seen.
LEMMA ReconcileHand ==
  ASSUME NEW b \in BoardType, NEW d \in DragType, NEW c \in Guests, NEW m \in HandFrame
  PROVE  Reconciled(m, b, d, c)
<1>1. /\ m.type \in {"grab_result", "group_moved", "released", "held", "error"}
      /\ Seen(c, View(b, c), m) = View(b, c)
  BY DEF HandFrame, Seen
<1>2. None \in Guests \cup {None} /\ None \in Spot
  BY DEF Spot
<1>3. CASE m.type = "grab_result"
  <2>1. Reconcile(m, b, d, c) = ReconcileGrabResult(m, b, d)
    BY <1>3 DEF Reconcile
  <2>2. CASE m.outcome = "granted"
    <3>1. /\ Reconcile(m, b, d, c).board = b
          /\ Reconcile(m, b, d, c).drag = IF d.group = m.id THEN [d EXCEPT !.granted = TRUE] ELSE d
      BY <2>1, <2>2 DEF ReconcileGrabResult, Plan
    <3>2. Reconcile(m, b, d, c).drag \in DragType
      BY <3>1 DEF DragType
    <3> QED
      BY <1>1, <3>1, <3>2 DEF Reconciled
  <2>3. CASE m.outcome # "granted" /\ d.group = m.id
    <3>1. /\ Reconcile(m, b, d, c).board =
               Patch(b, m.id, [b.groups[m.id] EXCEPT !.heldBy = None, !.position = d.origin])
          /\ Reconcile(m, b, d, c).drag = NoDrag
      BY <2>1, <2>3 DEF ReconcileGrabResult, Plan, RollbackGrab
    <3>2. d.origin \in Spot
      BY DEF DragType
    <3>3. Unseen(Patch(b, m.id, [b.groups[m.id] EXCEPT !.heldBy = None, !.position = d.origin]), b, c)
      BY <1>2, <3>2, HandUnseen
    <3> QED
      BY <1>1, <3>1, <3>3, NoDragType DEF Reconciled, Unseen
  <2>4. CASE m.outcome # "granted" /\ d.group # m.id
    <3>1. Reconcile(m, b, d, c).board = b /\ Reconcile(m, b, d, c).drag = d
      BY <2>1, <2>4 DEF ReconcileGrabResult, Plan
    <3> QED
      BY <1>1, <3>1 DEF Reconciled
  <2> QED
    BY <2>2, <2>3, <2>4
<1>4. CASE m.type = "group_moved"
  <2>1. /\ Reconcile(m, b, d, c).board \in
             {b, Patch(b, m.id, [b.groups[m.id] EXCEPT !.position = m.position])}
        /\ Reconcile(m, b, d, c).drag = d
    BY <1>4 DEF Reconcile, ReconcileMoved, ApplyGroupMoved, Plan
  <2>2. m.position \in Spot
    BY <1>4 DEF HandFrame, Spot
  <2>3. Unseen(Patch(b, m.id, [b.groups[m.id] EXCEPT !.position = m.position]), b, c)
    BY <1>2, <2>2, HandUnseen
  <2> QED
    BY <1>1, <2>1, <2>3 DEF Reconciled, Unseen
<1>5. CASE m.type = "held"
  <2>1. /\ Reconcile(m, b, d, c).board \in
             {b, Patch(b, m.id, [b.groups[m.id] EXCEPT !.heldBy = m.by])}
        /\ Reconcile(m, b, d, c).drag = d
    BY <1>5 DEF Reconcile, ReconcileHeld, ApplyGroupHeld, Plan
  <2>2. m.by \in Guests
    BY <1>5 DEF HandFrame
  <2>3. Unseen(Patch(b, m.id, [b.groups[m.id] EXCEPT !.heldBy = m.by]), b, c)
    BY <2>2, <1>2, HandUnseen
  <2> QED
    BY <1>1, <2>1, <2>3 DEF Reconciled, Unseen
<1>6. CASE m.type = "released"
  <2>1. /\ Reconcile(m, b, d, c).board \in
             {b, Patch(b, m.id, [b.groups[m.id] EXCEPT !.heldBy = None, !.position = m.position])}
        /\ Reconcile(m, b, d, c).drag = d
    BY <1>6 DEF Reconcile, ReconcileReleased, ApplyGroupReleased, Plan
  <2>2. m.position \in Spot
    BY <1>6 DEF HandFrame, Spot
  <2>3. Unseen(Patch(b, m.id, [b.groups[m.id] EXCEPT !.heldBy = None, !.position = m.position]), b, c)
    BY <1>2, <2>2, HandUnseen
  <2> QED
    BY <1>1, <2>1, <2>3 DEF Reconciled, Unseen
<1>7. CASE m.type = "error"
  <2>1. Reconcile(m, b, d, c).board = b /\ Reconcile(m, b, d, c).drag = d
    BY <1>7 DEF Reconcile, Plan
  <2> QED
    BY <1>1, <2>1 DEF Reconciled
<1> QED
  BY <1>1, <1>3, <1>4, <1>5, <1>6, <1>7

\* A snapshot makes the same board of every board.
LEMMA ReconcileSnapshot ==
  ASSUME NEW b \in BoardType, NEW d \in DragType, NEW c \in Guests, NEW m \in SnapshotFrame
  PROVE  Reconciled(m, b, d, c)
<1> DEFINE gs == ApplySnapshot(b, m).groups
<1>1. m.type = "snapshot"
  BY DEF SnapshotFrame
<1>2. /\ Reconcile(m, b, d, c).board = ApplySnapshot(b, m)
      /\ Reconcile(m, b, d, c).drag = NoDrag
      /\ Seen(c, View(b, c), m) = View(ApplySnapshot(EmptyBoard, m), c)
  BY <1>1 DEF Reconcile, Plan, Seen
<1>3. ApplySnapshot(b, m) = ApplySnapshot(EmptyBoard, m)
  BY DEF ApplySnapshot
<1>4. DOMAIN m.groups \subseteq Pieces /\ m.groups \in [DOMAIN m.groups -> BoardGroup]
  BY InMap DEF SnapshotFrame
<1>5. \A p \in Pieces : Untouched(p) \in BoardGroup
  BY PlaceAssumption DEF Untouched, BoardGroup, Spot
<1>6. DOMAIN gs \subseteq Pieces /\ gs \in [DOMAIN gs -> BoardGroup]
  BY <1>4, <1>5 DEF ApplySnapshot
<1>7. gs \in Map(Pieces, BoardGroup)
  BY <1>6, InMap
<1>8. ApplySnapshot(b, m) \in BoardType
  BY <1>7 DEF ApplySnapshot, BoardType, SnapshotFrame
<1> QED
  BY <1>2, <1>3, <1>8, NoDragType DEF Reconciled

LEMMA ReconcileRoster ==
  ASSUME NEW b \in BoardType, NEW d \in DragType, NEW c \in Guests, NEW m \in RosterFrame
  PROVE  Reconciled(m, b, d, c)
<1> DEFINE n == ApplyPresence(b, m)
<1>1. /\ m.type = "presence" /\ m.event \in {"joined", "left", "renamed"} /\ m.guest \in Guests
      /\ m.event # "left" => m.name \in Names
  BY DEF RosterFrame
<1>2. /\ Reconcile(m, b, d, c).board = n /\ Reconcile(m, b, d, c).drag = d
      /\ Seen(c, View(b, c), m) = SeenRoster(c, View(b, c), m)
  BY <1>1 DEF Reconcile, Plan, Seen
<1>3. b.players \in Map(Guests, Names)
  BY DEF BoardType
<1>4. DOMAIN b.players \subseteq Guests /\ b.players \in [DOMAIN b.players -> Names]
  BY <1>3, InMap
<1>5. PICK ps \in Map(Guests, Names) :
        /\ n = [b EXCEPT !.players = ps]
        /\ Masked(ps, c) = SeenRoster(c, View(b, c), m).players
  <2>1. CASE m.event = "joined"
    <3>1. n = [b EXCEPT !.players = Put(b.players, m.guest, m.name)]
      BY <2>1 DEF ApplyPresence
    <3>2. Put(b.players, m.guest, m.name) \in Map(Guests, Names)
      BY <1>1, <1>3, <2>1, PutIn
    <3>3. Masked(Put(b.players, m.guest, m.name), c) = SeenRoster(c, View(b, c), m).players
      BY <2>1 DEF Masked, Put, SeenRoster, View
    <3> QED
      BY <3>1, <3>2, <3>3
  <2>2. CASE m.event = "left"
    <3>1. n = [b EXCEPT !.players = Without(b.players, {m.guest})]
      BY <2>2 DEF ApplyPresence
    <3>2. Without(b.players, {m.guest}) \in Map(Guests, Names)
      BY <1>3, WithoutIn
    <3>3. Masked(Without(b.players, {m.guest}), c) = SeenRoster(c, View(b, c), m).players
      BY <2>2 DEF Masked, Without, SeenRoster, View
    <3> QED
      BY <3>1, <3>2, <3>3
  <2>3. CASE m.event = "renamed" /\ m.guest \in DOMAIN b.players
    <3> DEFINE ps == [b.players EXCEPT ![m.guest] = m.name]
    <3>1. n = [b EXCEPT !.players = ps]
      BY <2>3 DEF ApplyPresence
    <3>2. DOMAIN ps = DOMAIN b.players /\ ps \in [DOMAIN b.players -> Names]
      BY <1>1, <1>4, <2>3
    <3>3. ps \in Map(Guests, Names)
      BY <1>4, <3>2, InMap
    <3>4. Masked(ps, c) = SeenRoster(c, View(b, c), m).players
      BY <1>4, <2>3 DEF Masked, Put, SeenRoster, View
    <3> QED
      BY <3>1, <3>3, <3>4
  <2>4. CASE m.event = "renamed" /\ m.guest \notin DOMAIN b.players
    <3>1. n = b /\ b = [b EXCEPT !.players = b.players]
      BY <2>4 DEF ApplyPresence, BoardType
    <3>2. Masked(b.players, c) = SeenRoster(c, View(b, c), m).players
      BY <2>4 DEF Masked, SeenRoster, View
    <3> QED
      BY <1>3, <3>1, <3>2
  <2> QED
    BY <1>1, <2>1, <2>2, <2>3, <2>4
<1> HIDE DEF n
<1>6. /\ n \in BoardType /\ n.groups = b.groups /\ n.players = ps /\ n.scores = b.scores
      /\ n.placed = b.placed /\ n.status = b.status
  BY <1>5 DEF BoardType
<1>7. View(n, c) = SeenRoster(c, View(b, c), m)
  BY <1>5, <1>6 DEF View, ScoreOn, SeenRoster
<1> QED
  BY <1>2, <1>6, <1>7 DEF Reconciled

LEMMA ReconcileDone ==
  ASSUME NEW b \in BoardType, NEW d \in DragType, NEW c \in Guests, NEW m \in DoneFrame
  PROVE  Reconciled(m, b, d, c)
<1> DEFINE n == ApplyCompletion(b, m)
<1>1. /\ m.type = "completion" /\ m.scores \in [Guests -> Nat] /\ m.placed \in Nat
  BY DEF DoneFrame
<1>2. /\ Reconcile(m, b, d, c).board = n /\ Reconcile(m, b, d, c).drag = d
      /\ Seen(c, View(b, c), m) = SeenDone(View(b, c), m)
  BY <1>1 DEF Reconcile, Plan, Seen
<1>3. m.scores \in Map(Guests, Nat)
  BY <1>1, InMap
<1>4. /\ n \in BoardType /\ n.groups = b.groups /\ n.players = b.players /\ n.scores = m.scores
      /\ n.placed = m.placed /\ n.status = "completed"
  BY <1>1, <1>3 DEF BoardType, ApplyCompletion
<1> HIDE DEF n
<1>5. [g \in Guests |-> ScoreOn(n, g)] = m.scores
  BY <1>1, <1>4 DEF ScoreOn
<1>6. View(n, c) = SeenDone(View(b, c), m)
  BY <1>4, <1>5 DEF View, SeenDone
<1> QED
  BY <1>2, <1>4, <1>6 DEF Reconciled

\* The merged groups go, the new one comes, and its credit is counted.
LEMMA ReconcileSnap ==
  ASSUME NEW b \in BoardType, NEW d \in DragType, NEW c \in Guests, NEW m \in SnapFrame
  PROVE  Reconciled(m, b, d, c)
<1> DEFINE n == ApplySnapResult(b, m)
           gs == AfterSnap(b, m)
           ss == ApplyCredits(b, m)
<1>1. /\ m.type = "snap_result" /\ m.id \in Pieces /\ m.group \in Group /\ m.placed \in Nat
      /\ m.credit.guest \in Guests /\ m.credit.n \in Nat
  BY DEF SnapFrame
<1>2. /\ Reconcile(m, b, d, c).board = n
      /\ Reconcile(m, b, d, c).drag \in {d, NoDrag}
      /\ Seen(c, View(b, c), m) = SeenSnap(View(b, c), m)
  BY <1>1 DEF Reconcile, Plan, Seen, AfterDropOf
<1>3. Landed(m) \in BoardGroup /\ Shape(Landed(m)) = Shape(m.group)
  BY <1>1 DEF Landed, BoardGroup, Group, Shape, Spot
<1>4. b.groups \in Map(Pieces, BoardGroup) /\ b.scores \in Map(Guests, Nat)
  BY DEF BoardType
<1>5. gs \in Map(Pieces, BoardGroup)
  BY <1>1, <1>3, <1>4, PutIn, WithoutIn DEF AfterSnap
<1>6. ss \in Map(Guests, Nat)
  <2>1. ScoreOn(b, m.credit.guest) + m.credit.n \in Nat
    <3>1. ScoreOn(b, m.credit.guest) \in Nat
      BY <1>4, InMap DEF ScoreOn
    <3> QED
      BY <1>1, <3>1
  <2> QED
    BY <1>1, <1>4, <2>1, PutIn DEF ApplyCredits
<1>7. /\ n \in BoardType /\ n.groups = gs /\ n.players = b.players /\ n.scores = ss
      /\ n.placed = m.placed /\ n.status = b.status
  BY <1>1, <1>5, <1>6 DEF BoardType, ApplySnapResult
<1>8. Shapes(gs) = Put(Without(Shapes(b.groups), m.merged), m.id, Shape(m.group))
  <2>1. /\ DOMAIN gs = (DOMAIN b.groups \ m.merged) \cup {m.id}
        /\ \A i \in DOMAIN gs : gs[i] = IF i = m.id THEN Landed(m) ELSE b.groups[i]
    BY DEF AfterSnap, Put, Without
  <2> HIDE DEF gs
  <2> QED
    BY <1>3, <2>1 DEF Shapes, Put, Without
<1>9. \A g \in Guests : ScoreOn(n, g) = IF g = m.credit.guest THEN ScoreOn(b, g) + m.credit.n
                                        ELSE ScoreOn(b, g)
  <2>1. \A g \in Guests : ScoreOn(b, g) \in Nat
    BY <1>4, InMap DEF ScoreOn
  <2>2. CASE m.credit.n = 0
    <3>1. n.scores = b.scores
      BY <1>7, <2>2 DEF ApplyCredits
    <3>2. \A g \in Guests : ScoreOn(n, g) = ScoreOn(b, g)
      BY <3>1 DEF ScoreOn
    <3> QED
      BY <2>1, <2>2, <3>2
  <2>3. CASE m.credit.n # 0
    <3>1. n.scores = Put(b.scores, m.credit.guest, ScoreOn(b, m.credit.guest) + m.credit.n)
      BY <1>7, <2>3 DEF ApplyCredits
    <3> HIDE DEF n
    <3> QED
      BY <3>1 DEF ScoreOn, Put
  <2> QED
    BY <2>2, <2>3
<1> HIDE DEF n, gs, ss
<1>10. View(n, c) = SeenSnap(View(b, c), m)
  BY <1>7, <1>8, <1>9 DEF View, SeenSnap
<1> QED
  BY <1>2, <1>7, <1>10, NoDragType DEF Reconciled

LEMMA ReconcileSeen ==
  ASSUME NEW b \in BoardType, NEW d \in DragType, NEW c \in Guests, NEW m \in DownFrame
  PROVE  Reconciled(m, b, d, c)
BY ReconcileHand, ReconcileSnapshot, ReconcileRoster, ReconcileDone, ReconcileSnap DEF DownFrame

-----------------------------------------------------------------------------
(* Frames in a row. *)

LEMMA LeadsNowhere ==
  ASSUME NEW c, NEW v
  PROVE  /\ Whole(v.groups) => Leads(c, v, << >>, v)
         /\ \A w : Leads(c, v, << >>, w) => w = v
<1>1. Len(<< >>) = 0
  OBVIOUS
<1>2. ASSUME Whole(v.groups) PROVE Leads(c, v, << >>, v)
  <2> DEFINE h == [k \in 0..0 |-> v]
  <2>1. /\ h[0] = v /\ \A k \in 0..0 : Whole(h[k].groups)
        /\ \A k \in 1..0 : h[k] = Seen(c, h[k - 1], (<< >>)[k])
    BY <1>2
  <2> HIDE DEF h
  <2> QED
    BY <1>1, <2>1 DEF Leads
<1>3. ASSUME NEW w, Leads(c, v, << >>, w) PROVE w = v
  BY <1>1, <1>3 DEF Leads
<1> QED
  BY <1>2, <1>3

LEMMA LeadsWhole ==
  ASSUME NEW c, NEW v, NEW q \in Seq(DownFrame), NEW w, Leads(c, v, q, w)
  PROVE  Whole(v.groups) /\ Whole(w.groups)
<1>1. Len(q) \in Nat
  BY LenProperties
<1>2. 0 \in 0..Len(q) /\ Len(q) \in 0..Len(q)
  BY <1>1
<1> QED
  BY <1>2 DEF Leads

LEMMA LeadsByOne ==
  ASSUME NEW c, NEW v, NEW m, Whole(v.groups), Whole(Seen(c, v, m).groups)
  PROVE  Leads(c, v, <<m>>, Seen(c, v, m))
<1> DEFINE h == [k \in 0..1 |-> IF k = 0 THEN v ELSE Seen(c, v, m)]
<1>1. /\ h[0] = v /\ h[1] = Seen(c, v, m)
      /\ \A k \in 0..1 : k = 0 \/ k = 1
      /\ \A k \in 1..1 : k = 1 /\ k - 1 = 0
  OBVIOUS
<1>2. Len(<<m>>) = 1 /\ (<<m>>)[1] = m
  OBVIOUS
<1> HIDE DEF h
<1>3. /\ \A k \in 0..1 : Whole(h[k].groups)
      /\ \A k \in 1..1 : h[k] = Seen(c, h[k - 1], (<<m>>)[k])
  BY <1>1, <1>2
<1> QED
  BY <1>1, <1>2, <1>3 DEF Leads

LEMMA LeadsOn ==
  ASSUME NEW c, NEW v, NEW w, NEW x, NEW q \in Seq(DownFrame), NEW r \in Seq(DownFrame),
         Leads(c, v, q, w), Leads(c, w, r, x)
  PROVE  Leads(c, v, q \o r, x)
<1> DEFINE m == Len(q)
           n == Len(r)
<1>1. m \in Nat /\ n \in Nat /\ Len(q \o r) = m + n
  BY LenProperties, ConcatProperties
<1>2. /\ \A k \in 1..m : (q \o r)[k] = q[k]
      /\ \A k \in (m + 1)..(m + n) : (q \o r)[k] = r[k - m]
  BY <1>1, ConcatProperties
<1> HIDE DEF m, n
<1>3. PICK h : /\ h[0] = v /\ h[m] = w
               /\ \A k \in 0..m : Whole(h[k].groups)
               /\ \A k \in 1..m : h[k] = Seen(c, h[k - 1], q[k])
  BY DEF Leads, m
<1>4. PICK j : /\ j[0] = w /\ j[n] = x
               /\ \A k \in 0..n : Whole(j[k].groups)
               /\ \A k \in 1..n : j[k] = Seen(c, j[k - 1], r[k])
  BY DEF Leads, n
<1> DEFINE t == [k \in 0..(m + n) |-> IF k <= m THEN h[k] ELSE j[k - m]]
<1>5. /\ \A k \in 0..m : t[k] = h[k]
      /\ \A k \in m..(m + n) : t[k] = j[k - m]
  <2>1. ASSUME NEW k \in 0..m PROVE t[k] = h[k]
    BY <1>1
  <2>2. ASSUME NEW k \in m..(m + n) PROVE t[k] = j[k - m]
    <3>1. CASE k = m
      <4>1. k - m = 0 /\ k \in 0..m
        BY <1>1, <3>1
      <4> QED
        BY <1>3, <1>4, <2>1, <3>1, <4>1
    <3>2. CASE k # m
      BY <1>1, <3>2
    <3> QED
      BY <3>1, <3>2
  <2> QED
    BY <2>1, <2>2
<1> HIDE DEF t
<1>6. t[0] = v /\ t[m + n] = x
  <2>1. 0 \in 0..m /\ m + n \in m..(m + n) /\ (m + n) - m = n
    BY <1>1
  <2> QED
    BY <1>3, <1>4, <1>5, <2>1
<1>7. \A k \in 0..(m + n) : Whole(t[k].groups)
  <2> TAKE k \in 0..(m + n)
  <2>1. CASE k \in 0..m
    BY <1>3, <1>5, <2>1
  <2>2. CASE k \notin 0..m
    <3>1. k \in m..(m + n) /\ k - m \in 0..n
      BY <1>1, <2>2
    <3> QED
      BY <1>4, <1>5, <3>1
  <2> QED
    BY <2>1, <2>2
<1>8. \A k \in 1..(m + n) : t[k] = Seen(c, t[k - 1], (q \o r)[k])
  <2> TAKE k \in 1..(m + n)
  <2>1. CASE k \in 1..m
    <3>1. k \in 0..m /\ k - 1 \in 0..m
      BY <1>1, <2>1
    <3> QED
      BY <1>2, <1>3, <1>5, <2>1, <3>1
  <2>2. CASE k \notin 1..m
    <3>1. /\ k \in (m + 1)..(m + n) /\ k \in m..(m + n) /\ k - 1 \in m..(m + n)
          /\ k - m \in 1..n /\ (k - 1) - m = (k - m) - 1
      BY <1>1, <2>2
    <3>2. t[k] = j[k - m] /\ t[k - 1] = j[(k - m) - 1]
      BY <1>5, <3>1
    <3>3. (q \o r)[k] = r[k - m]
      BY <1>2, <3>1
    <3>4. j[k - m] = Seen(c, j[(k - m) - 1], r[k - m])
      BY <1>4, <3>1
    <3> QED
      BY <3>2, <3>3, <3>4
  <2> QED
    BY <2>1, <2>2
<1> QED
  BY <1>1, <1>6, <1>7, <1>8 DEF Leads

\* Taking the first frame leads to the same end.
LEMMA LeadsFromSecond ==
  ASSUME NEW c, NEW v, NEW w, NEW q \in Seq(DownFrame), q # << >>, Leads(c, v, q, w)
  PROVE  Leads(c, Seen(c, v, Head(q)), Tail(q), w)
<1> DEFINE m == Len(q)
<1>1. /\ m \in Nat \ {0} /\ Head(q) = q[1] /\ Len(Tail(q)) = m - 1
      /\ \A k \in 1..(m - 1) : Tail(q)[k] = q[k + 1]
  BY EmptySeq, HeadTailProperties, LenProperties
<1> HIDE DEF m
<1>2. PICK h : /\ h[0] = v /\ h[m] = w
               /\ \A k \in 0..m : Whole(h[k].groups)
               /\ \A k \in 1..m : h[k] = Seen(c, h[k - 1], q[k])
  BY DEF Leads, m
<1> DEFINE t == [k \in 0..(m - 1) |-> h[k + 1]]
<1>3. \A k \in 0..(m - 1) : t[k] = h[k + 1] /\ k + 1 \in 0..m
  BY <1>1
<1> HIDE DEF t
<1>4. t[0] = Seen(c, v, Head(q)) /\ t[m - 1] = w
  <2>1. 0 \in 0..(m - 1) /\ m - 1 \in 0..(m - 1) /\ 0 + 1 = 1 /\ (m - 1) + 1 = m
        /\ 1 \in 1..m /\ 1 - 1 = 0
    BY <1>1
  <2> QED
    BY <1>1, <1>2, <1>3, <2>1
<1>5. \A k \in 0..(m - 1) : Whole(t[k].groups)
  BY <1>2, <1>3
<1>6. \A k \in 1..(m - 1) : t[k] = Seen(c, t[k - 1], Tail(q)[k])
  <2> TAKE k \in 1..(m - 1)
  <2>1. k \in 0..(m - 1) /\ k - 1 \in 0..(m - 1) /\ (k - 1) + 1 = k /\ k + 1 \in 1..m /\ (k + 1) - 1 = k
    BY <1>1
  <2> QED
    BY <1>1, <1>2, <1>3, <2>1
<1> QED
  BY <1>1, <1>4, <1>5, <1>6 DEF Leads

\* Frames that change no view.
LEMMA LeadsInPlace ==
  ASSUME NEW c, NEW v, NEW q \in Seq(HandFrame), Whole(v.groups)
  PROVE  Leads(c, v, q, v)
<1>1. Len(q) \in Nat /\ \A k \in 1..Len(q) : q[k] \in HandFrame
  BY LenProperties
<1>2. \A k \in 1..Len(q) : Seen(c, v, q[k]) = v
  BY <1>1 DEF HandFrame, Seen
<1> DEFINE h == [k \in 0..Len(q) |-> v]
<1>3. h[0] = v /\ h[Len(q)] = v /\ \A k \in 0..Len(q) : Whole(h[k].groups)
  BY <1>1
<1>4. \A k \in 1..Len(q) : h[k] = Seen(c, h[k - 1], q[k])
  <2> TAKE k \in 1..Len(q)
  <2>1. k \in 0..Len(q) /\ k - 1 \in 0..Len(q)
    BY <1>1
  <2> QED
    BY <1>2, <2>1
<1> HIDE DEF h
<1> QED
  BY <1>3, <1>4 DEF Leads

-----------------------------------------------------------------------------
(* The invariant, of the parts of the state a client's step changes.        *)

LEMMA SockIn ==
  ASSUME ClientInv, NEW c \in Guests
  PROVE  Sock(c) \in Sockets /\ Owner(Sock(c)) = c
BY DEF ClientInv, Sock, Sockets, Owner

LEMMA WholeTruth == IInv => \A c \in Guests : Whole(Truth(c).groups)
<1> SUFFICES ASSUME IInv, NEW c \in Guests PROVE Whole(Truth(c).groups)
  OBVIOUS
<1>1. /\ DOMAIN Truth(c).groups = DOMAIN groups
      /\ \A id \in DOMAIN groups : Truth(c).groups[id].pieces = groups[id].pieces
  BY DEF Truth, Shapes, Shape
<1>2. {Truth(c).groups[id].pieces : id \in DOMAIN Truth(c).groups}
        = {groups[id].pieces : id \in DOMAIN groups}
  BY <1>1
<1> QED
  BY <1>1, <1>2 DEF Whole, IInv, TypeOK, GroupsPartition

\* A client whose view and frames stay as they are, of a referee that does.
LEMMA FollowsKept ==
  ASSUME NEW c \in Guests, Follows(c), UNCHANGED vars,
         View(board'[c], c) = View(board[c], c), down'[<<c, cur'[c]>>] = down[Sock(c)],
         Fed(c)' => Fed(c)
  PROVE  Follows(c)'
<1>1. PICK w : Leads(c, View(board[c], c), down[Sock(c)], w) /\ (Fed(c) => w = Truth(c))
  BY DEF Follows
<1>2. Truth(c)' = Truth(c)
  BY DEF Truth, vars, Masked, Shapes, Shape
<1>3. Leads(c, View(board'[c], c), down'[<<c, cur'[c]>>], w) /\ (Fed(c)' => w = Truth(c)')
  BY <1>1, <1>2
<1> QED
  BY <1>3 DEF Follows, Sock

\* A step of a client's pointer, whatever it sends.
LEMMA LocalInv ==
  ASSUME SyncInv, UNCHANGED <<vars, link, cur, srv, down, lapsed>>,
         NEW c \in Guests, NEW b, Unseen(b, board[c], c), SetBoard(c, b),
         drag' \in [Guests -> DragType], grip' \in [Guests -> BOOLEAN],
         up' \in [Sockets -> Seq(UpFrame)], events' \in 0..MaxEvents
  PROVE  SyncInv'
<1> USE DEF SyncInv
<1>1. IInv'
  BY StutterInv
<1>2. board' \in [Guests -> BoardType] /\ \A e \in Guests : View(board'[e], e) = View(board[e], e)
  BY DEF ClientInv, SetBoard, Unseen
<1>3. ClientInv'
  BY <1>2 DEF ClientInv, Sockets
<1>4. WireInv'
  BY DEF WireInv, vars, Joined, Listening, Sock
<1>5. ASSUME NEW e \in Guests PROVE Follows(e)'
  BY <1>2, <1>5, FollowsKept DEF Fed, Sock
<1> QED
  BY <1>1, <1>3, <1>4, <1>5

LEMMA SendIn ==
  ASSUME ClientInv, NEW c \in Guests, NEW msg \in UpFrame, Send(c, msg)
  PROVE  up' \in [Sockets -> Seq(UpFrame)]
<1>1. up \in [Sockets -> Seq(UpFrame)] /\ Sock(c) \in Sockets
  BY SockIn DEF ClientInv
<1>2. Append(up[Sock(c)], msg) \in Seq(UpFrame)
  BY <1>1, AppendProperties
<1> QED
  BY <1>1, <1>2 DEF Send

LEMMA SpendIn ==
  ASSUME ClientInv, Spend
  PROVE  events' \in 0..MaxEvents /\ UNCHANGED lapsed
BY SyncAssumption DEF ClientInv, Spend

LEMMA BeginDragInv ==
  ASSUME SyncInv, NEW c \in Guests, NEW id \in Pieces, BeginDrag(c, id)
  PROVE  SyncInv'
<1> DEFINE b == OptimisticGrab(board[c], id, c)
<1>1. ClientInv /\ board[c] \in BoardType
  BY DEF SyncInv, ClientInv
<1>2. id \in DOMAIN board[c].groups
  BY DEF BeginDrag, MayGrab
<1>3. b = Patch(board[c], id, [board[c].groups[id] EXCEPT !.heldBy = c])
  BY <1>2 DEF OptimisticGrab, Patch
<1>4. None \in Spot
  BY DEF Spot
<1>5. Unseen(b, board[c], c)
  BY <1>1, <1>3, <1>4, HandUnseen
<1>6. board[c].groups[id].position \in Spot
  <2>1. board[c].groups[id] \in BoardGroup
    BY <1>1, <1>2, InMap DEF BoardType
  <2> QED
    BY <2>1 DEF BoardGroup
<1>7. drag' \in [Guests -> DragType] /\ grip' \in [Guests -> BOOLEAN]
  BY <1>1, <1>6 DEF BeginDrag, DragOf, DragType, ClientInv
<1>8. up' \in [Sockets -> Seq(UpFrame)]
  <2>1. [type |-> "grab", id |-> id] \in UpFrame
    BY DEF UpFrame
  <2> QED
    BY <1>1, <2>1, SendIn DEF BeginDrag
<1>9. events' \in 0..MaxEvents /\ UNCHANGED lapsed
  BY <1>1, SpendIn DEF BeginDrag
<1>10. SetBoard(c, b) /\ UNCHANGED <<vars, link, cur, srv, down>>
  BY DEF BeginDrag
<1> HIDE DEF b
<1> QED
  BY <1>5, <1>7, <1>8, <1>9, <1>10, LocalInv

LEMMA DragToInv ==
  ASSUME SyncInv, NEW c \in Guests, NEW pos \in Passing, DragTo(c, pos)
  PROVE  SyncInv'
<1> DEFINE b == OptimisticMove(board[c], drag[c].group, pos)
<1>1. ClientInv /\ board[c] \in BoardType /\ drag[c] \in DragType
  BY DEF SyncInv, ClientInv
<1>2. pos \in Point /\ pos \in Spot /\ None \in Guests \cup {None}
  BY SyncAssumption DEF Spot
<1>3. Unseen(b, board[c], c)
  BY <1>1, <1>2, HandUnseen DEF OptimisticMove
<1>4. up' \in [Sockets -> Seq(UpFrame)]
  <2>1. [type |-> "move", id |-> drag[c].group, position |-> pos] \in UpFrame
    BY <1>1, <1>2 DEF UpFrame, DragType
  <2> QED
    BY <1>1, <2>1, SendIn DEF DragTo, ClientInv
<1>5. events' \in 0..MaxEvents /\ UNCHANGED lapsed
  BY <1>1, SpendIn DEF DragTo
<1>6. SetBoard(c, b) /\ UNCHANGED <<vars, drag, grip, link, cur, srv, down>>
  BY DEF DragTo
<1> HIDE DEF b
<1> QED
  BY <1>1, <1>3, <1>4, <1>5, <1>6, LocalInv DEF ClientInv

LEMMA EndDragInv ==
  ASSUME SyncInv, NEW c \in Guests, NEW pos \in Reports, EndDrag(c, pos)
  PROVE  SyncInv'
<1> DEFINE id == drag[c].group
           moved == OptimisticMove(board[c], id, pos)
<1>1. ClientInv /\ board[c] \in BoardType /\ drag[c] \in DragType
  BY DEF SyncInv, ClientInv
<1>2. pos \in Point /\ pos \in Spot /\ None \in Guests \cup {None}
  BY PlaceAssumption DEF Spot
<1>3. Unseen(moved, board[c], c)
  BY <1>1, <1>2, HandUnseen DEF OptimisticMove
<1>4. Unseen(ReleaseHold(moved, id), board[c], c)
  <2>1. moved \in BoardType /\ View(moved, c) = View(board[c], c)
    BY <1>3 DEF Unseen
  <2> HIDE DEF moved
  <2>2. Unseen(ReleaseHold(moved, id), moved, c)
    BY <1>2, <2>1, HandUnseen DEF ReleaseHold
  <2> QED
    BY <2>1, <2>2 DEF Unseen
<1>5. Unseen(board[c], board[c], c)
  BY <1>1 DEF Unseen
<1>6. PICK b \in {board[c], moved, ReleaseHold(moved, id)} : SetBoard(c, b)
  <2>1. board = [board EXCEPT ![c] = board[c]]
    BY DEF SyncInv, ClientInv
  <2> QED
    BY <2>1 DEF EndDrag, SetBoard
<1>7. drag' \in [Guests -> DragType] /\ grip' \in [Guests -> BOOLEAN]
  BY <1>1, NoDragType DEF EndDrag, ClientInv
<1>8. up' \in [Sockets -> Seq(UpFrame)]
  <2>1. [type |-> "drop", id |-> id, position |-> pos] \in UpFrame
    BY <1>1 DEF UpFrame, DragType
  <2> QED
    BY <1>1, <2>1, SendIn DEF EndDrag, ClientInv
<1>9. UNCHANGED <<vars, link, cur, srv, down, events, lapsed>>
  BY DEF EndDrag, Free
<1>10. events' \in 0..MaxEvents
  BY <1>1, <1>9 DEF ClientInv
<1> HIDE DEF moved, id
<1>11. Unseen(b, board[c], c)
  BY <1>3, <1>4, <1>5, <1>6
<1> QED
  BY <1>6, <1>7, <1>8, <1>9, <1>10, <1>11, LocalInv

LEMMA ChangeNameInv ==
  ASSUME SyncInv, NEW c \in Guests, NEW name \in Names, ChangeName(c, name)
  PROVE  SyncInv'
<1> DEFINE b == SetLocalName(board[c], c, name)
<1>1. ClientInv /\ board[c] \in BoardType
  BY DEF SyncInv, ClientInv
<1>2. Unseen(b, board[c], c)
  <2>1. CASE c \in DOMAIN board[c].players
    <3> DEFINE o == board[c]
               ps == [o.players EXCEPT ![c] = name]
    <3>1. DOMAIN o.players \subseteq Guests /\ o.players \in [DOMAIN o.players -> Names]
      BY <1>1, InMap DEF BoardType
    <3>2. DOMAIN ps = DOMAIN o.players /\ ps \in [DOMAIN o.players -> Names]
      BY <2>1, <3>1
    <3>3. ps \in Map(Guests, Names) /\ Masked(ps, c) = Masked(o.players, c)
      <4>1. Masked(ps, c) = Masked(o.players, c)
        BY <2>1, <3>1 DEF Masked
      <4> QED
        BY <3>1, <3>2, <4>1, InMap
    <3>4. b = [o EXCEPT !.players = ps]
      BY <2>1 DEF SetLocalName
    <3> HIDE DEF ps, b
    <3>5. /\ b \in BoardType /\ b.groups = o.groups /\ b.players = ps /\ b.scores = o.scores
          /\ b.placed = o.placed /\ b.status = o.status
      BY <1>1, <3>3, <3>4 DEF BoardType
    <3>6. View(b, c) = View(o, c)
      BY <3>3, <3>5 DEF View, ScoreOn
    <3> QED
      BY <3>5, <3>6 DEF Unseen
  <2>2. CASE c \notin DOMAIN board[c].players
    BY <1>1, <2>2 DEF SetLocalName, Unseen
  <2> QED
    BY <2>1, <2>2
<1>3. up' \in [Sockets -> Seq(UpFrame)]
  <2>1. [type |-> "rename", name |-> name] \in UpFrame
    BY DEF UpFrame
  <2> QED
    BY <1>1, <2>1, SendIn DEF ChangeName, ClientInv
<1>4. events' \in 0..MaxEvents /\ UNCHANGED lapsed
  BY <1>1, SpendIn DEF ChangeName
<1>5. SetBoard(c, b) /\ UNCHANGED <<vars, drag, grip, link, cur, srv, down>>
  BY DEF ChangeName
<1> HIDE DEF b
<1> QED
  BY <1>1, <1>2, <1>3, <1>4, <1>5, LocalInv DEF ClientInv

-----------------------------------------------------------------------------
(* Sockets break and are opened, and frames arrive.                         *)

\* A step of one client's socket: the referee, and what the others get, stays.
LEMMA WireStep ==
  ASSUME SyncInv, UNCHANGED <<vars, srv>>, NEW c \in Guests, ClientInv', Follows(c)',
         \A s \in Sockets : ~Listening(s)' => down'[s] = << >>,
         \A e \in Guests \ {c} :
           /\ board'[e] = board[e] /\ link'[e] = link[e] /\ cur'[e] = cur[e]
           /\ down'[Sock(e)] = down[Sock(e)]
  PROVE  SyncInv'
<1> USE DEF SyncInv
<1>1. IInv'
  BY StutterInv
<1>2. WireInv'
  BY DEF WireInv, vars, Joined
<1>3. ASSUME NEW e \in Guests \ {c} PROVE Follows(e)'
  BY <1>3, FollowsKept DEF Fed, Sock
<1> QED
  BY <1>1, <1>2, <1>3

LEMMA LoseInv ==
  ASSUME SyncInv, NEW c \in Guests, Lose(c)
  PROVE  SyncInv'
<1>1. ClientInv /\ Sock(c) \in Sockets /\ board[c] \in BoardType
  BY SockIn DEF SyncInv, ClientInv
<1>2. /\ link' = [link EXCEPT ![c] = "down"] /\ down' = [down EXCEPT ![Sock(c)] = << >>]
      /\ UNCHANGED <<vars, board, drag, grip, cur, srv>>
  BY DEF Lose, clients
<1>3. up' \in [Sockets -> Seq(UpFrame)]
  <2>1. PICK n \in 0..Len(up[Sock(c)]) : up' = [up EXCEPT ![Sock(c)] = SubSeq(up[Sock(c)], 1, n)]
    BY DEF Lose
  <2>2. up[Sock(c)] \in Seq(UpFrame)
    BY <1>1 DEF ClientInv
  <2>3. SubSeq(up[Sock(c)], 1, n) \in Seq(UpFrame)
    <3>1. \A k \in 1..n : k \in 1..Len(up[Sock(c)])
      BY <2>1, <2>2, LenProperties
    <3>2. n \in Nat /\ \A k \in 1..n : up[Sock(c)][k] \in UpFrame
      BY <2>1, <2>2, <3>1, LenProperties, ElementOfSeq
    <3> QED
      BY <2>2, <3>2, SubSeqProperties
  <2> QED
    BY <1>1, <2>1, <2>3 DEF ClientInv
<1>4. << >> \in Seq(DownFrame)
  BY EmptySeq
<1>5. ClientInv'
  <2>1. events' \in 0..MaxEvents /\ UNCHANGED lapsed
    BY <1>1, SpendIn DEF Lose, Free, ClientInv
  <2> QED
    BY <1>1, <1>2, <1>3, <1>4, <2>1 DEF ClientInv, Sockets
<1>6. Follows(c)'
  <2>1. down'[Sock(c)] = << >> /\ link'[c] = "down"
    BY <1>1, <1>2 DEF ClientInv
  <2>2. Whole(View(board[c], c).groups)
    BY <1>1, LeadsWhole DEF SyncInv, Follows, ClientInv
  <2>3. Leads(c, View(board[c], c), << >>, View(board[c], c))
    BY <2>2, LeadsNowhere
  <2>4. Leads(c, View(board'[c], c), down'[<<c, cur'[c]>>], View(board[c], c)) /\ ~Fed(c)'
    BY <1>2, <2>1, <2>3 DEF Fed, Sock
  <2> QED
    BY <2>4 DEF Follows, Sock
<1>7. ASSUME NEW s \in Sockets, ~Listening(s)' PROVE down'[s] = << >>
  <2>1. CASE s = Sock(c)
    BY <1>1, <1>2, <2>1 DEF ClientInv
  <2>2. CASE s # Sock(c)
    <3>1. ~Listening(s)
      <4>1. Owner(s) # c \/ ~Listening(s)
        BY <2>2 DEF Listening
      <4>2. Owner(s) # c => link'[Owner(s)] = link[Owner(s)]
        BY <1>1, <1>2 DEF ClientInv, Owner, Sockets
      <4> QED
        BY <1>2, <1>7, <4>1, <4>2 DEF Listening, Sock
    <3> QED
      BY <1>1, <1>2, <2>2, <3>1 DEF SyncInv, WireInv, ClientInv
  <2> QED
    BY <2>1, <2>2
<1>8. ASSUME NEW e \in Guests \ {c}
      PROVE  /\ board'[e] = board[e] /\ link'[e] = link[e] /\ cur'[e] = cur[e]
             /\ down'[Sock(e)] = down[Sock(e)]
  BY <1>1, <1>2 DEF ClientInv, Sock
<1> QED
  BY <1>2, <1>5, <1>6, <1>7, <1>8, WireStep

LEMMA ConnectInv ==
  ASSUME SyncInv, NEW c \in Guests, Connect(c)
  PROVE  SyncInv'
<1> DEFINE fresh == <<c, 3 - cur[c]>>
<1>1. ClientInv /\ board[c] \in BoardType /\ cur[c] \in {1, 2}
  BY DEF SyncInv, ClientInv
<1>2. fresh \in Sockets /\ fresh # Sock(c) /\ Owner(fresh) = c /\ 3 - cur[c] \in {1, 2}
  BY <1>1 DEF Sockets, Sock, Owner
<1>3. /\ link' = [link EXCEPT ![c] = "joining"] /\ cur' = [cur EXCEPT ![c] = 3 - cur[c]]
      /\ srv' = [srv EXCEPT ![fresh] = "open"] /\ srv[fresh] = "none" /\ link[c] = "down"
      /\ up' = [up EXCEPT ![fresh] = <<[type |-> "join"]>>]
      /\ UNCHANGED <<vars, board, drag, grip, down, events>>
      /\ lapsed' \in SUBSET (Guests \X Pieces)
  BY <1>1 DEF Connect, clients, ClientInv
<1>4. <<c, cur'[c]>> = fresh
  BY <1>1, <1>3 DEF ClientInv
<1> HIDE DEF fresh
<1>5. ClientInv'
  <2>1. [type |-> "join"] \in UpFrame
    BY DEF UpFrame
  <2>2. <<[type |-> "join"]>> \in Seq(UpFrame)
    BY <2>1
  <2> QED
    BY <1>1, <1>2, <1>3, <2>2 DEF ClientInv, Sockets
<1>6. down[fresh] = << >>
  BY <1>2 DEF SyncInv, WireInv, Listening
<1>7. Follows(c)'
  <2>1. Whole(View(board[c], c).groups)
    BY <1>1, SockIn, LeadsWhole DEF SyncInv, Follows, ClientInv
  <2>2. Leads(c, View(board[c], c), << >>, View(board[c], c))
    BY <2>1, LeadsNowhere
  <2>3. ~Fed(c)'
    BY <1>1, <1>2, <1>3, <1>4 DEF Fed, Sock, ClientInv
  <2>4. Leads(c, View(board'[c], c), down'[<<c, cur'[c]>>], View(board[c], c)) /\ ~Fed(c)'
    BY <1>3, <1>4, <1>6, <2>2, <2>3
  <2> QED
    BY <2>4 DEF Follows, Sock
<1>8. Joined' = Joined
  BY <1>1, <1>2, <1>3 DEF Joined, ClientInv
<1>9. ASSUME NEW s \in Sockets, ~Listening(s)' PROVE down'[s] = << >>
  <2>1. CASE Owner(s) = c
    <3>1. s = Sock(c) \/ s = fresh
      BY <1>1, <1>2, <2>1 DEF Owner, Sockets, Sock, fresh
    <3>2. ~Listening(Sock(c))
      BY <1>3 DEF Listening, Sock, Owner
    <3> QED
      BY <1>1, <1>3, <1>6, <3>1, <3>2, SockIn DEF SyncInv, WireInv
  <2>2. CASE Owner(s) # c
    <3>1. link'[Owner(s)] = link[Owner(s)] /\ cur'[Owner(s)] = cur[Owner(s)]
      BY <1>1, <1>3, <2>2 DEF ClientInv, Owner, Sockets
    <3> QED
      BY <1>3, <1>9, <3>1 DEF Listening, Sock, SyncInv, WireInv
  <2> QED
    BY <2>1, <2>2
<1>10. WireInv'
  BY <1>3, <1>8, <1>9 DEF SyncInv, WireInv, vars
<1>11. ASSUME NEW e \in Guests \ {c} PROVE Follows(e)'
  <2>1. /\ board'[e] = board[e] /\ link'[e] = link[e] /\ cur'[e] = cur[e]
        /\ down'[Sock(e)] = down[Sock(e)] /\ srv'[Sock(e)] = srv[Sock(e)]
    BY <1>1, <1>2, <1>3 DEF ClientInv, Sock, Owner
  <2> QED
    BY <1>3, <2>1, FollowsKept DEF Fed, Sock, SyncInv
<1> QED
  BY <1>3, <1>5, <1>7, <1>10, <1>11, StutterInv DEF SyncInv

LEMMA ReceiveInv ==
  ASSUME SyncInv, NEW c \in Guests, Receive(c)
  PROVE  SyncInv'
<1> DEFINE s == Sock(c)
           q == down[s]
           m == Head(q)
           plan == Reconcile(m, board[c], drag[c], c)
<1>1. ClientInv /\ s \in Sockets /\ board[c] \in BoardType /\ drag[c] \in DragType
      /\ q \in Seq(DownFrame)
  BY SockIn DEF SyncInv, ClientInv
<1>2. /\ q # << >> /\ down' = [down EXCEPT ![s] = Tail(q)]
      /\ board' = [board EXCEPT ![c] = plan.board] /\ drag' = [drag EXCEPT ![c] = plan.drag]
      /\ link[c] # "down" /\ link' \in {link, [link EXCEPT ![c] = "connected"]}
      /\ UNCHANGED <<vars, grip, cur, srv, up, events, lapsed>>
  BY DEF Receive, SetBoard, Free
<1>3. m \in DownFrame /\ Tail(q) \in Seq(DownFrame)
  BY <1>1, <1>2, HeadTailProperties
<1>4. /\ plan.board \in BoardType /\ plan.drag \in DragType
      /\ View(plan.board, c) = Seen(c, View(board[c], c), m)
  BY <1>1, <1>3, ReconcileSeen DEF Reconciled
<1> HIDE DEF plan, m
<1>5. ClientInv'
  BY <1>1, <1>2, <1>3, <1>4 DEF ClientInv, Sockets
<1>6. /\ board'[c] = plan.board /\ down'[<<c, cur'[c]>>] = Tail(q)
      /\ link'[c] # "down"
  BY <1>1, <1>2 DEF ClientInv, Sock
<1>7. Follows(c)'
  <2>1. PICK w : Leads(c, View(board[c], c), q, w) /\ (Fed(c) => w = Truth(c))
    BY DEF SyncInv, Follows
  <2>2. Leads(c, View(plan.board, c), Tail(q), w)
    BY <1>1, <1>2, <1>4, <2>1, LeadsFromSecond DEF m
  <2>3. Truth(c)' = Truth(c)
    BY <1>2 DEF Truth, vars, Masked, Shapes, Shape
  <2>4. Fed(c)' => Fed(c)
    BY <1>2 DEF Fed, Sock
  <2>5. Leads(c, View(board'[c], c), down'[<<c, cur'[c]>>], w) /\ (Fed(c)' => w = Truth(c)')
    BY <1>6, <2>1, <2>2, <2>3, <2>4
  <2> QED
    BY <2>5 DEF Follows, Sock
<1>8. ASSUME NEW t \in Sockets, ~Listening(t)' PROVE down'[t] = << >>
  <2>1. ~Listening(t)
    BY <1>1, <1>2, <1>8 DEF Listening, Sock, ClientInv, Owner, Sockets
  <2>2. t # s
    BY <1>2, <2>1, SockIn, <1>1 DEF Listening
  <2> QED
    BY <1>1, <1>2, <2>1, <2>2 DEF SyncInv, WireInv, ClientInv
<1>9. ASSUME NEW e \in Guests \ {c}
      PROVE  /\ board'[e] = board[e] /\ link'[e] = link[e] /\ cur'[e] = cur[e]
             /\ down'[Sock(e)] = down[Sock(e)]
  BY <1>1, <1>2 DEF ClientInv, Sock
<1> QED
  BY <1>2, <1>5, <1>7, <1>8, <1>9, WireStep

-----------------------------------------------------------------------------
(* The server speaks.                                                       *)

LEMMA WholeTruthNext == IInv' => \A c \in Guests : Whole(Truth(c)'.groups)
<1>1. IInv' => (\A c \in Guests : Whole(Truth(c).groups))'
  BY WholeTruth, PTL
<1> QED
  BY <1>1

\* What was in flight led to the truth, and what is sent now leads on from there.
LEMMA FollowsTold ==
  ASSUME ClientInv, NEW c \in Guests, Follows(c), UNCHANGED <<board, link, cur>>,
         \/ down'[Sock(c)] = down[Sock(c)] /\ (Fed(c)' => Fed(c) /\ Truth(c)' = Truth(c))
         \/ /\ Fed(c)
            /\ \E ms \in Seq(DownFrame) : /\ down'[Sock(c)] = down[Sock(c)] \o ms
                                          /\ Leads(c, Truth(c), ms, Truth(c)')
  PROVE  Follows(c)'
<1> DEFINE v == View(board[c], c)
           q == down[Sock(c)]
<1>1. PICK w : Leads(c, v, q, w) /\ (Fed(c) => w = Truth(c))
  BY DEF Follows
<1>2. q \in Seq(DownFrame)
  BY SockIn DEF ClientInv
<1>3. View(board'[c], c) = v /\ <<c, cur'[c]>> = Sock(c)
  BY DEF Sock
<1> HIDE DEF v
<1>4. CASE down'[Sock(c)] = q /\ (Fed(c)' => Fed(c) /\ Truth(c)' = Truth(c))
  <2>1. Leads(c, View(board'[c], c), down'[<<c, cur'[c]>>], w) /\ (Fed(c)' => w = Truth(c)')
    BY <1>1, <1>3, <1>4
  <2> QED
    BY <2>1 DEF Follows, Sock
<1>5. ASSUME Fed(c), NEW ms \in Seq(DownFrame), down'[Sock(c)] = q \o ms,
             Leads(c, Truth(c), ms, Truth(c)')
      PROVE  Follows(c)'
  <2>1. Leads(c, v, q, Truth(c))
    BY <1>1, <1>5
  <2>2. Leads(c, v, q \o ms, Truth(c)')
    <3> DEFINE x == Truth(c)'
    <3>1. Leads(c, Truth(c), ms, x)
      BY <1>5
    <3> HIDE DEF x
    <3>2. Leads(c, v, q \o ms, x)
      BY <1>2, <1>5, <2>1, <3>1, LeadsOn
    <3> QED
      BY <3>2 DEF x
  <2>3. /\ Leads(c, View(board'[c], c), down'[<<c, cur'[c]>>], Truth(c)')
        /\ (Fed(c)' => Truth(c)' = Truth(c)')
    BY <1>3, <1>5, <2>2
  <2> QED
    BY <2>3 DEF Follows, Sock
<1> QED
  BY <1>4, <1>5

\* A step of the server.
LEMMA ServerStep ==
  ASSUME SyncInv, IInv', UNCHANGED <<board, drag, grip, link, cur>>,
         srv' \in [Sockets -> {"none", "open", "joined"}], up' \in [Sockets -> Seq(UpFrame)],
         down' \in [Sockets -> Seq(DownFrame)],
         events' \in 0..MaxEvents, lapsed' \in SUBSET (Guests \X Pieces),
         DOMAIN identities' = Guests, connected' = {Owner(s) : s \in Joined'},
         \A s \in Sockets : ~Listening(s) => down'[s] = down[s],
         \A c \in Guests : Follows(c)'
  PROVE  SyncInv'
<1>1. ClientInv'
  BY DEF SyncInv, ClientInv, Sockets
<1>2. WireInv'
  BY DEF SyncInv, WireInv, Listening, Sock
<1> QED
  BY <1>1, <1>2 DEF SyncInv

LEMMA TookIn ==
  ASSUME ClientInv, NEW s \in Sockets, Took(s)
  PROVE  /\ up' \in [Sockets -> Seq(UpFrame)] /\ Head(up[s]) \in UpFrame
         /\ UNCHANGED <<board, drag, grip, link, cur, events, lapsed>>
         /\ events' \in 0..MaxEvents /\ lapsed' \in SUBSET (Guests \X Pieces) /\ Owner(s) \in Guests
<1>1. up[s] \in Seq(UpFrame) /\ up[s] # << >> /\ up' = [up EXCEPT ![s] = Tail(up[s])]
  BY DEF ClientInv, Took
<1>2. Head(up[s]) \in UpFrame /\ Tail(up[s]) \in Seq(UpFrame)
  BY <1>1, HeadTailProperties
<1>3. UNCHANGED <<board, drag, grip, link, cur, events, lapsed>> /\ Owner(s) \in Guests
  BY DEF Took, clients, Free, Owner, Sockets
<1> QED
  BY <1>1, <1>2, <1>3 DEF ClientInv

LEMMA HandIsDown == \A q : q \in Seq(HandFrame) => q \in Seq(DownFrame)
<1> TAKE q
<1> HAVE q \in Seq(HandFrame)
<1>1. Len(q) \in Nat /\ q \in [1..Len(q) -> HandFrame]
  BY LenProperties
<1>2. q \in [1..Len(q) -> DownFrame]
  BY <1>1 DEF DownFrame
<1> QED
  BY <1>1, <1>2 DEF Seq

\* A step in which clients only hear of hands and positions.
LEMMA HandStep ==
  ASSUME SyncInv, IInv', UNCHANGED <<board, drag, grip, link, cur, srv, connected>>,
         up' \in [Sockets -> Seq(UpFrame)], events' \in 0..MaxEvents, lapsed' \in SUBSET (Guests \X Pieces),
         DOMAIN identities' = DOMAIN identities, DOMAIN down' = Sockets,
         down' = [s \in Sockets |-> down'[s]],
         \A c \in Guests : Truth(c)' = Truth(c),
         \A s \in Sockets :
           \/ down'[s] = down[s]
           \/ /\ s \in Joined /\ Listening(s)
              /\ \E ms \in Seq(HandFrame) : down'[s] = down[s] \o ms
  PROVE  SyncInv'
<1>1. IInv /\ ClientInv /\ WireInv /\ \A c \in Guests : Follows(c)
  BY DEF SyncInv
<1>2. down' \in [Sockets -> Seq(DownFrame)]
  <2>1. ASSUME NEW s \in Sockets PROVE down'[s] \in Seq(DownFrame)
    <3>1. down[s] \in Seq(DownFrame)
      BY <1>1 DEF ClientInv
    <3>2. \A ms \in Seq(HandFrame) : down[s] \o ms \in Seq(DownFrame)
      BY <3>1, HandIsDown, ConcatProperties
    <3> QED
      BY <3>1, <3>2
  <2> QED
    BY <2>1
<1>3. ASSUME NEW c \in Guests PROVE Follows(c)'
  <2>1. Sock(c) \in Sockets /\ Owner(Sock(c)) = c
    BY <1>1, SockIn
  <2>2. Fed(c)' <=> Fed(c)
    BY DEF Fed, Sock
  <2>3. CASE down'[Sock(c)] = down[Sock(c)]
    BY <1>1, <2>2, <2>3, FollowsTold
  <2>4. ASSUME Sock(c) \in Joined, Listening(Sock(c)),
               NEW ms \in Seq(HandFrame), down'[Sock(c)] = down[Sock(c)] \o ms
        PROVE  Follows(c)'
    <3>1. Fed(c)
      BY <2>1, <2>4 DEF Joined, Listening, Fed
    <3>2. Leads(c, Truth(c), ms, Truth(c))
      BY <1>1, WholeTruth, LeadsInPlace
    <3>3. ms \in Seq(DownFrame) /\ Leads(c, Truth(c), ms, Truth(c)')
      BY <3>2, HandIsDown
    <3> QED
      BY <1>1, <2>4, <3>1, <3>3, FollowsTold
  <2> QED
    BY <2>1, <2>3, <2>4
<1>4. ASSUME NEW s \in Sockets, ~Listening(s) PROVE down'[s] = down[s]
  BY <1>4
<1>5. srv' \in [Sockets -> {"none", "open", "joined"}] /\ connected' = {Owner(s) : s \in Joined'}
      /\ DOMAIN identities' = Guests
  BY <1>1 DEF ClientInv, WireInv, Joined
<1> QED
  BY <1>2, <1>3, <1>4, <1>5, ServerStep

\* What does not change who is known, credited or present, or what is joined to what.
LEMMA TruthKept ==
  ASSUME UNCHANGED <<identities, connected, credited, status>>, DOMAIN groups' = DOMAIN groups,
         \A id \in DOMAIN groups : /\ groups'[id].pieces = groups[id].pieces
                                   /\ groups'[id].locked = groups[id].locked
  PROVE  \A c \in Guests : Truth(c)' = Truth(c)
<1>1. Shapes(groups)' = Shapes(groups)
  BY DEF Shapes, Shape
<1> QED
  BY <1>1 DEF Truth, Masked

\* The frames a step delivers.
LEMMA DeliveredHands ==
  ASSUME NEW ss, ss \subseteq Joined, NEW ms \in Seq(HandFrame), down' = Deliverable(ss, ms)
  PROVE  /\ DOMAIN down' = Sockets /\ down' = [s \in Sockets |-> down'[s]]
         /\ \A s \in Sockets :
              \/ down'[s] = down[s]
              \/ /\ s \in Joined /\ Listening(s)
                 /\ \E r \in Seq(HandFrame) : down'[s] = down[s] \o r
BY DEF Deliverable

\* Nothing at the referee changes, and one client or nobody hears of it.
LEMMA NoChangeInv ==
  ASSUME SyncInv, NEW s \in Sockets, Took(s), srv[s] = "joined", UNCHANGED <<vars, srv>>,
         \/ UNCHANGED down
         \/ \E m \in HandFrame : down' = Deliverable({s}, <<m>>)
  PROVE  SyncInv'
<1>1. ClientInv /\ IInv' /\ \A c \in Guests : Truth(c)' = Truth(c)
  <2>1. \A c \in Guests : Truth(c)' = Truth(c)
    BY TruthKept DEF vars
  <2> QED
    BY <2>1, StutterInv DEF SyncInv
<1>2. /\ DOMAIN down' = Sockets /\ down' = [t \in Sockets |-> down'[t]]
      /\ \A t \in Sockets :
           \/ down'[t] = down[t]
           \/ /\ t \in Joined /\ Listening(t)
              /\ \E ms \in Seq(HandFrame) : down'[t] = down[t] \o ms
  <2>1. CASE UNCHANGED down
    BY <1>1, <2>1 DEF ClientInv
  <2>2. ASSUME NEW m \in HandFrame, down' = Deliverable({s}, <<m>>)
        PROVE  /\ DOMAIN down' = Sockets /\ down' = [t \in Sockets |-> down'[t]]
               /\ \A t \in Sockets :
                    \/ down'[t] = down[t]
                    \/ /\ t \in Joined /\ Listening(t)
                       /\ \E ms \in Seq(HandFrame) : down'[t] = down[t] \o ms
    <3>1. <<m>> \in Seq(HandFrame) /\ {s} \subseteq Joined
      BY DEF Joined
    <3> QED
      BY <2>2, <3>1, DeliveredHands
  <2> QED
    BY <2>1, <2>2
<1>3. /\ up' \in [Sockets -> Seq(UpFrame)] /\ UNCHANGED <<board, drag, grip, link, cur>>
      /\ events' \in 0..MaxEvents /\ lapsed' \in SUBSET (Guests \X Pieces)
  BY <1>1, TookIn
<1> QED
  BY <1>1, <1>2, <1>3, HandStep DEF vars

LEMMA HandleGrabInv ==
  ASSUME SyncInv, NEW s \in Sockets, HandleGrab(s)
  PROVE  SyncInv'
<1> DEFINE g == Owner(s)
           id == Head(up[s]).id
<1>1. ClientInv /\ IInv /\ g \in Guests
  BY DEF SyncInv, Owner, Sockets
<1>2. Took(s) /\ srv[s] = "joined" /\ UNCHANGED srv
  BY DEF HandleGrab, Played, Frame1
<1>3. ASSUME Grab(g, id),
             down' = [t \in Sockets |->
                        IF t = s /\ Listening(s)
                          THEN down[s] \o <<HeldMsg(id, g), GrabResult(id, "granted")>>
                          ELSE Deliverable(Joined, <<HeldMsg(id, g)>>)[t]]
      PROVE  SyncInv'
  <2>1. id \in Pieces
    BY <1>1, <1>3 DEF Grab, Playable, IInv, TypeOK
  <2>2. HeldMsg(id, g) \in HandFrame /\ GrabResult(id, "granted") \in HandFrame
    BY <1>1, <2>1 DEF HeldMsg, GrabResult, HandFrame
  <2> HIDE DEF id, g
  <2>3. /\ <<HeldMsg(id, g)>> \in Seq(HandFrame)
        /\ <<HeldMsg(id, g), GrabResult(id, "granted")>> \in Seq(HandFrame)
    BY <2>2
  <2>4. \A t \in Sockets :
           \/ down'[t] = down[t]
           \/ /\ t \in Joined /\ Listening(t)
              /\ \E ms \in Seq(HandFrame) : down'[t] = down[t] \o ms
    BY <1>2, <1>3, <2>3 DEF Deliverable, Joined
  <2>5. DOMAIN down' = Sockets /\ down' = [t \in Sockets |-> down'[t]]
    BY <1>3
  <2>6. IInv' /\ UNCHANGED <<identities, connected>> /\ \A c \in Guests : Truth(c)' = Truth(c)
    <3>1. UNCHANGED <<groups, identities, connected, credited, status>>
      BY <1>3 DEF Grab, presence
    <3> QED
      BY <1>1, <1>3, <2>1, <3>1, GrabInv, TruthKept DEF g
  <2>7. /\ up' \in [Sockets -> Seq(UpFrame)] /\ UNCHANGED <<board, drag, grip, link, cur>>
        /\ events' \in 0..MaxEvents /\ lapsed' \in SUBSET (Guests \X Pieces)
    BY <1>1, <1>2, TookIn
  <2> QED
    BY <1>2, <2>4, <2>5, <2>6, <2>7, HandStep
<1>4. ASSUME Playable(g, id), down' = Deliverable({s}, <<GrabResult(id, "held_by")>>), UNCHANGED vars
      PROVE  SyncInv'
  <2>1. id \in Pieces
    BY <1>1, <1>4 DEF Playable, IInv, TypeOK
  <2>2. GrabResult(id, "held_by") \in HandFrame
    BY <2>1 DEF GrabResult, HandFrame
  <2> QED
    BY <1>2, <1>4, <2>2, NoChangeInv
<1>5. ErrorMsg \in HandFrame
  BY DEF ErrorMsg, HandFrame
<1>6. ASSUME down' = Deliverable({s}, <<ErrorMsg>>), UNCHANGED vars PROVE SyncInv'
  BY <1>2, <1>5, <1>6, NoChangeInv
<1> QED
  BY <1>3, <1>4, <1>6 DEF HandleGrab

LEMMA HandleMoveInv ==
  ASSUME SyncInv, NEW s \in Sockets, HandleMove(s)
  PROVE  SyncInv'
<1> DEFINE g == Owner(s)
           msg == Head(up[s])
           m == [type |-> "group_moved", id |-> msg.id, position |-> msg.position]
<1>1. ClientInv /\ IInv /\ g \in Guests
  BY DEF SyncInv, Owner, Sockets
<1>2. Took(s) /\ srv[s] = "joined" /\ UNCHANGED srv /\ msg.type = "move"
  BY DEF HandleMove, Played, Frame1
<1>3. msg \in UpFrame
  BY <1>1, <1>2, TookIn
<1>4. msg.position \in Point
  BY <1>2, <1>3 DEF UpFrame
<1>5. ASSUME Move(g, msg.id, msg.position), down' = Deliverable(Joined \ {s}, <<m>>)
      PROVE  SyncInv'
  <2>1. msg.id \in Pieces
    BY <1>1, <1>5 DEF Move, HolderMutation, Playable, IInv, TypeOK
  <2>2. m \in HandFrame
    BY <1>4, <2>1 DEF HandFrame
  <2> HIDE DEF m
  <2>3. <<m>> \in Seq(HandFrame)
    BY <2>2
  <2>4. /\ DOMAIN down' = Sockets /\ down' = [t \in Sockets |-> down'[t]]
        /\ \A t \in Sockets :
             \/ down'[t] = down[t]
             \/ /\ t \in Joined /\ Listening(t)
                /\ \E ms \in Seq(HandFrame) : down'[t] = down[t] \o ms
    BY <1>5, <2>3, DeliveredHands
  <2>5. IInv' /\ UNCHANGED <<identities, connected>> /\ \A c \in Guests : Truth(c)' = Truth(c)
    <3>1. UNCHANGED <<identities, connected, credited, status>>
      BY <1>5 DEF Move, presence
    <3>2. /\ DOMAIN groups' = DOMAIN groups
          /\ \A i \in DOMAIN groups : /\ groups'[i].pieces = groups[i].pieces
                                      /\ groups'[i].locked = groups[i].locked
      BY <1>1, <1>5 DEF Move, IInv, TypeOK, Group
    <3> QED
      BY <1>1, <1>4, <1>5, <2>1, <3>1, <3>2, MoveInv, TruthKept
  <2>6. /\ up' \in [Sockets -> Seq(UpFrame)] /\ UNCHANGED <<board, drag, grip, link, cur>>
        /\ events' \in 0..MaxEvents /\ lapsed' \in SUBSET (Guests \X Pieces)
    BY <1>1, <1>2, TookIn
  <2> QED
    BY <1>2, <2>4, <2>5, <2>6, HandStep
<1>6. ASSUME UNCHANGED <<vars, down>> PROVE SyncInv'
  BY <1>2, <1>6, NoChangeInv
<1> QED
  BY <1>5, <1>6 DEF HandleMove

LEMMA SweepInv ==
  ASSUME SyncInv, NEW id \in Pieces, Sweep(id)
  PROVE  SyncInv'
<1>1. ClientInv /\ IInv
  BY DEF SyncInv
<1>2. /\ id \in DOMAIN holds /\ ReleaseHolds({id})
      /\ UNCHANGED <<groups, credited, status, identities, connected, clock>>
      /\ UNCHANGED <<board, drag, grip, link, cur, srv, up>>
      /\ down' = Deliverable(Joined, <<ReleasedMsg(id)>>)
      /\ events > 0 /\ events' = events - 1 /\ lapsed' = lapsed \cup {<<HolderOf(id), id>>}
  BY DEF Sweep, presence, clients
<1>3. ReleasedMsg(id) \in HandFrame
  <2>1. groups[id] \in Group
    BY <1>1, <1>2 DEF IInv, TypeOK, HoldsAreLive
  <2> QED
    BY <2>1 DEF ReleasedMsg, HandFrame, Group
<1>4. <<ReleasedMsg(id)>> \in Seq(HandFrame)
  BY <1>3
<1>5. /\ DOMAIN down' = Sockets /\ down' = [t \in Sockets |-> down'[t]]
      /\ \A t \in Sockets :
           \/ down'[t] = down[t]
           \/ /\ t \in Joined /\ Listening(t)
              /\ \E ms \in Seq(HandFrame) : down'[t] = down[t] \o ms
  BY <1>2, <1>4, DeliveredHands
<1>6. IInv'
  BY <1>1, <1>2, ReleaseInv DEF presence
<1>7. \A c \in Guests : Truth(c)' = Truth(c)
  BY <1>2, TruthKept
<1>8. /\ up' \in [Sockets -> Seq(UpFrame)] /\ events' \in 0..MaxEvents /\ lapsed' \in SUBSET (Guests \X Pieces)
  <2>1. HolderOf(id) \in Guests
    BY <1>1, <1>2 DEF IInv, TypeOK, Hold, HolderOf
  <2> QED
    BY <1>1, <1>2, <2>1, SyncAssumption DEF ClientInv
<1> QED
  BY <1>2, <1>5, <1>6, <1>7, <1>8, HandStep

\* The frames ms go to the sockets ss, and lead on from the truth; who is not told
\* misses nothing.
LEMMA ToldBy ==
  ASSUME SyncInv, UNCHANGED <<board, link, cur>>, NEW ss, ss \subseteq Joined,
         NEW ms \in Seq(DownFrame), down' = Deliverable(ss, ms), NEW c \in Guests,
         Sock(c) \in ss /\ link[c] # "down" => Leads(c, Truth(c), ms, Truth(c)'),
         Sock(c) \notin ss /\ Fed(c)' => Fed(c) /\ Truth(c)' = Truth(c)
  PROVE  Follows(c)'
<1>1. ClientInv /\ Follows(c) /\ Sock(c) \in Sockets /\ Owner(Sock(c)) = c
  BY SockIn DEF SyncInv
<1>2. CASE Sock(c) \in ss /\ link[c] # "down"
  <2>1. Fed(c) /\ Listening(Sock(c))
    BY <1>1, <1>2 DEF Fed, Joined, Listening
  <2>2. down'[Sock(c)] = down[Sock(c)] \o ms
    BY <1>1, <1>2, <2>1 DEF Deliverable
  <2> QED
    BY <1>1, <1>2, <2>1, <2>2, FollowsTold
<1>3. CASE ~(Sock(c) \in ss /\ link[c] # "down")
  <2>1. down'[Sock(c)] = down[Sock(c)]
    BY <1>1, <1>3 DEF Deliverable, Listening
  <2>2. Fed(c)' => Fed(c) /\ Truth(c)' = Truth(c)
    BY <1>3 DEF Fed, Sock
  <2> QED
    BY <1>1, <2>1, <2>2, FollowsTold
<1> QED
  BY <1>2, <1>3

LEMMA DeliveredIn ==
  ASSUME ClientInv, NEW ss, NEW ms \in Seq(DownFrame)
  PROVE  /\ Deliverable(ss, ms) \in [Sockets -> Seq(DownFrame)]
         /\ \A s \in Sockets : ~Listening(s) => Deliverable(ss, ms)[s] = down[s]
<1>1. \A s \in Sockets : down[s] \in Seq(DownFrame) /\ down[s] \o ms \in Seq(DownFrame)
  BY ConcatProperties DEF ClientInv
<1> QED
  BY <1>1 DEF Deliverable

\* The result of a drop, and the completion that may follow it, tell all of it.
LEMMA DropTold ==
  ASSUME IInv, DOMAIN identities = Guests, IInv', NEW g \in Guests, NEW id \in Pieces,
         NEW pos \in Reports, Drop(g, id, pos)
  PROVE  /\ DropMsgs(g, id, DropOutcome(id, pos)) \in Seq(DownFrame)
         /\ \A c \in Guests :
              Leads(c, Truth(c), DropMsgs(g, id, DropOutcome(id, pos)), Truth(c)')
<1> DEFINE o == DropOutcome(id, pos)
           n == Cardinality(credited' \ credited)
           total == Cardinality(credited')
           result == [type |-> "snap_result", id |-> id, merged |-> o.mergedIds,
                      group |-> o.group, placed |-> total, credit |-> [guest |-> g, n |-> n]]
           done == [type |-> "completion", placed |-> total,
                    scores |-> [h \in DOMAIN identities |-> identities'[h].placedCount]]
<1>1. DropMsgs(g, id, o) = IF status' # status THEN <<result, done>> ELSE <<result>>
  BY DEF DropMsgs
<1>2. /\ id \in DOMAIN groups /\ o.group \in Group
      /\ o.mergedIds \subseteq DOMAIN groups \ ({id} \cup DOMAIN holds)
  BY DropResult DEF IInv, Drop
<1>3. /\ groups' = AfterDrop(id, o)
      /\ credited' = credited \cup o.connectedPieces
      /\ identities' = [identities EXCEPT ![g].placedCount =
                          @ + Cardinality(o.connectedPieces \ credited)]
      /\ status' \in {status, "completed"} /\ connected' = connected
  BY DEF Drop, Credit, Finish
<1>4. DOMAIN groups \subseteq Pieces /\ identities \in [Guests -> Identity]
  BY DEF IInv, TypeOK
<1> HIDE DEF o
<1>5. n \in Nat /\ total \in Nat /\ n = Cardinality(o.connectedPieces \ credited)
  <2>1. credited' \subseteq Pieces /\ credited' \ credited \subseteq Pieces
    BY DEF IInv, TypeOK
  <2>2. IsFiniteSet(credited') /\ IsFiniteSet(credited' \ credited)
    BY <2>1, PiecesFinite, FS_Subset
  <2>3. credited' \ credited = o.connectedPieces \ credited
    BY <1>3
  <2> QED
    BY <2>2, <2>3, FS_CardinalityType
<1> HIDE DEF n, total
<1>6. /\ DOMAIN identities' = Guests
      /\ \A h \in Guests : /\ identities[h].placedCount \in Nat
                           /\ identities'[h].name = identities[h].name
                           /\ identities'[h].placedCount =
                                IF h = g THEN identities[h].placedCount + n
                                ELSE identities[h].placedCount
  <2> USE <1>3, <1>4, <1>5 DEF Identity
  <2>1. DOMAIN identities' = Guests
    OBVIOUS
  <2>2. ASSUME NEW h \in Guests
        PROVE  /\ identities[h].placedCount \in Nat
               /\ identities'[h].name = identities[h].name
               /\ identities'[h].placedCount =
                    IF h = g THEN identities[h].placedCount + n ELSE identities[h].placedCount
    OBVIOUS
  <2> QED
    BY <2>1, <2>2
<1>7. result \in DownFrame
  BY <1>2, <1>4, <1>5 DEF DownFrame, SnapFrame
<1>8. done \in DownFrame
  <2>1. [h \in DOMAIN identities |-> identities'[h].placedCount] \in [Guests -> Nat]
    BY <1>5, <1>6
  <2> QED
    BY <1>5, <2>1 DEF DownFrame, DoneFrame
<1>9. DropMsgs(g, id, o) \in Seq(DownFrame)
  BY <1>1, <1>7, <1>8
<1>10. ASSUME NEW c \in Guests PROVE Leads(c, Truth(c), DropMsgs(g, id, o), Truth(c)')
  <2> DEFINE v == Truth(c)
             w == Seen(c, v, result)
             x == Truth(c)'
  <2>1. w = SeenSnap(v, result)
    BY DEF Seen
  <2>2. w.groups = x.groups
    <3>1. v.groups = Shapes(groups) /\ x.groups = Shapes(groups')
      BY DEF Truth, Shapes, Shape
    <3>2. w.groups = Put(Without(Shapes(groups), o.mergedIds), id, Shape(o.group))
      BY <2>1, <3>1 DEF SeenSnap
    <3>3. /\ DOMAIN groups' = DOMAIN groups \ o.mergedIds /\ id \in DOMAIN groups'
          /\ \A i \in DOMAIN groups' : groups'[i] = IF i = id THEN o.group ELSE groups[i]
      BY <1>2, <1>3 DEF AfterDrop
    <3>4. Shapes(groups') = Put(Without(Shapes(groups), o.mergedIds), id, Shape(o.group))
      BY <1>2, <3>3 DEF Shapes, Put, Without
    <3> QED
      BY <3>1, <3>2, <3>4
  <2>3. w.players = x.players
    <3>1. w.players = v.players
      BY <2>1 DEF SeenSnap
    <3>2. connected \subseteq Guests
      BY DEF IInv, TypeOK
    <3> QED
      BY <1>3, <1>6, <3>1, <3>2 DEF Truth, Masked
  <2>4. w.scores = x.scores
    <3>1. v.scores = [h \in Guests |-> identities[h].placedCount]
          /\ x.scores = [h \in Guests |-> identities'[h].placedCount]
      BY DEF Truth
    <3>2. w.scores = [h \in Guests |-> IF h = g THEN v.scores[h] + n ELSE v.scores[h]]
      BY <2>1 DEF SeenSnap
    <3> QED
      BY <1>6, <3>1, <3>2
  <2>5. w.placed = x.placed /\ w.status = status /\ x.status = status'
    BY <2>1 DEF SeenSnap, Truth, total
  <2>6. Whole(v.groups) /\ Whole(x.groups)
    BY WholeTruth, WholeTruthNext
  <2>7. /\ w = [groups |-> w.groups, players |-> w.players, scores |-> w.scores,
                placed |-> w.placed, status |-> w.status]
        /\ x = [groups |-> x.groups, players |-> x.players, scores |-> x.scores,
                placed |-> x.placed, status |-> x.status]
    BY <2>1 DEF SeenSnap, Truth
  <2>8. Leads(c, v, <<result>>, w)
    BY <2>2, <2>6, LeadsByOne
  <2>9. CASE status' = status
    <3>1. w = x
      BY <2>2, <2>3, <2>4, <2>5, <2>7, <2>9
    <3>2. DropMsgs(g, id, o) = <<result>>
      BY <1>1, <2>9
    <3> HIDE DEF v, w, x, result
    <3>3. Leads(c, v, DropMsgs(g, id, o), x)
      BY <2>8, <3>1, <3>2
    <3> QED
      BY <3>3 DEF v, x
  <2>10. CASE status' # status
    <3>1. status' = "completed"
      BY <1>3, <2>10
    <3>2. Seen(c, w, done) = x
      <4>1. Seen(c, w, done) = SeenDone(w, done)
        BY DEF Seen
      <4>2. done.scores = x.scores
        BY <1>4 DEF Truth
      <4>3. done.placed = x.placed
        BY DEF Truth, total
      <4> HIDE DEF w, done, x
      <4>4. SeenDone(w, done) = x
        BY <2>2, <2>3, <2>5, <2>7, <3>1, <4>2, <4>3 DEF SeenDone
      <4> QED
        BY <4>1, <4>4
    <3>3. DropMsgs(g, id, o) = <<result>> \o <<done>>
      BY <1>1, <2>10
    <3> HIDE DEF v, w, x, result, done
    <3>4. Leads(c, w, <<done>>, x)
      BY <2>2, <2>6, <3>2, LeadsByOne
    <3>5. <<result>> \in Seq(DownFrame) /\ <<done>> \in Seq(DownFrame)
      BY <1>7, <1>8
    <3>6. Leads(c, v, DropMsgs(g, id, o), x)
      BY <2>8, <3>3, <3>4, <3>5, LeadsOn
    <3> QED
      BY <3>6 DEF v, x
  <2> QED
    BY <2>9, <2>10
<1> QED
  BY <1>9, <1>10 DEF o

LEMMA HandleDropInv ==
  ASSUME SyncInv, NEW s \in Sockets, HandleDrop(s)
  PROVE  SyncInv'
<1> DEFINE g == Owner(s)
           msg == Head(up[s])
           ms == DropMsgs(g, msg.id, DropOutcome(msg.id, msg.position))
<1>1. ClientInv /\ IInv /\ WireInv /\ g \in Guests
  BY DEF SyncInv, Owner, Sockets
<1>2. Took(s) /\ srv[s] = "joined" /\ UNCHANGED srv /\ msg.type = "drop"
  BY DEF HandleDrop, Played, Frame1
<1>3. msg.position \in Reports
  <2>1. msg \in UpFrame
    BY <1>1, <1>2, TookIn
  <2> QED
    BY <1>2, <2>1 DEF UpFrame
<1>4. ASSUME Drop(g, msg.id, msg.position), down' = Deliverable(Joined, ms)
      PROVE  SyncInv'
  <2>1. msg.id \in Pieces
    BY <1>1, <1>4 DEF Drop, HolderMutation, Playable, IInv, TypeOK
  <2>2. IInv'
    BY <1>1, <1>3, <1>4, <2>1, DropInv
  <2>3. DOMAIN identities = Guests
    BY <1>1 DEF WireInv
  <2>4. ms \in Seq(DownFrame) /\ \A c \in Guests : Leads(c, Truth(c), ms, Truth(c)')
    BY <1>1, <1>3, <1>4, <2>1, <2>2, <2>3, DropTold
  <2>5. DOMAIN identities' = Guests /\ connected' = connected
    BY <1>4, <2>3 DEF Drop, Credit
  <2> HIDE DEF ms, msg, g
  <2>6. /\ up' \in [Sockets -> Seq(UpFrame)] /\ UNCHANGED <<board, drag, grip, link, cur>>
        /\ events' \in 0..MaxEvents /\ lapsed' \in SUBSET (Guests \X Pieces)
    BY <1>1, <1>2, TookIn
  <2>7. ASSUME NEW c \in Guests PROVE Follows(c)'
    <3>1. Sock(c) \notin Joined => ~Fed(c)'
      BY <1>1, <1>2, <2>6, SockIn DEF Fed, Joined, Sock
    <3> QED
      BY <1>4, <2>4, <2>6, <3>1, ToldBy
  <2>8. /\ down' \in [Sockets -> Seq(DownFrame)]
        /\ \A t \in Sockets : ~Listening(t) => down'[t] = down[t]
    BY <1>1, <1>4, <2>4, DeliveredIn
  <2>9. /\ connected' = {Owner(t) : t \in Joined'}
        /\ srv' \in [Sockets -> {"none", "open", "joined"}]
    BY <1>1, <1>2, <2>5 DEF WireInv, Joined, ClientInv
  <2> QED
    BY <2>2, <2>5, <2>6, <2>7, <2>8, <2>9, ServerStep
<1>5. ErrorMsg \in HandFrame
  BY DEF ErrorMsg, HandFrame
<1>6. ASSUME down' = Deliverable({s}, <<ErrorMsg>>), UNCHANGED vars PROVE SyncInv'
  BY <1>2, <1>5, <1>6, NoChangeInv
<1> QED
  BY <1>4, <1>6 DEF HandleDrop

LEMMA HandleRenameInv ==
  ASSUME SyncInv, NEW s \in Sockets, HandleRename(s)
  PROVE  SyncInv'
<1> DEFINE g == Owner(s)
           name == Head(up[s]).name
           m == Presence("renamed", g, name)
<1>1. ClientInv /\ IInv /\ WireInv /\ g \in Guests
  BY DEF SyncInv, Owner, Sockets
<1>2. Took(s) /\ srv[s] = "joined" /\ UNCHANGED srv /\ Head(up[s]).type = "rename"
  BY DEF HandleRename, Played, Frame1
<1>3. name \in Names
  <2>1. Head(up[s]) \in UpFrame
    BY <1>1, <1>2, TookIn
  <2> QED
    BY <1>2, <2>1 DEF UpFrame
<1>4. ASSUME Rename(g, name), down' = Deliverable(Joined \ {s}, <<m>>)
      PROVE  SyncInv'
  <2>1. IInv'
    BY <1>1, <1>3, <1>4, RenameInv
  <2>2. m \in DownFrame
    BY <1>1, <1>3 DEF Presence, DownFrame, RosterFrame
  <2>3. /\ DOMAIN identities = Guests /\ identities \in [Guests -> Identity]
        /\ identities' = [identities EXCEPT ![g].name = name]
        /\ UNCHANGED <<groups, credited, status, connected>>
        /\ g \in connected /\ connected \subseteq Guests
    BY <1>1, <1>2, <1>4 DEF WireInv, IInv, TypeOK, Rename, table, Joined
  <2>4. /\ DOMAIN identities' = Guests
        /\ \A h \in Guests : /\ identities'[h].name = IF h = g THEN name ELSE identities[h].name
                             /\ identities'[h].placedCount = identities[h].placedCount
    <3> USE <2>3 DEF Identity
    <3>1. ASSUME NEW h \in Guests
          PROVE  /\ identities'[h].name = IF h = g THEN name ELSE identities[h].name
                 /\ identities'[h].placedCount = identities[h].placedCount
      OBVIOUS
    <3> QED
      BY <3>1
  <2> HIDE DEF name
  <2>5. ASSUME NEW c \in Guests PROVE Truth(c)' = Seen(c, Truth(c), m)
    <3> DEFINE old == [h \in connected |-> identities[h].name]
    <3>1. Seen(c, Truth(c), m) = SeenRoster(c, Truth(c), m)
      BY DEF Seen, Presence
    <3>2. Truth(c)'.players = SeenRoster(c, Truth(c), m).players
      <4>1. Truth(c).players = Masked(old, c) /\ Truth(c)'.players = Masked([h \in connected |-> identities'[h].name], c)
        BY <2>3 DEF Truth, Masked
      <4>2. SeenRoster(c, Truth(c), m).players =
              Put(Masked(old, c), g, IF g = c THEN None ELSE name)
        BY <2>3, <4>1 DEF SeenRoster, Presence, Masked
      <4>3. Masked([h \in connected |-> identities'[h].name], c) =
              Put(Masked(old, c), g, IF g = c THEN None ELSE name)
        BY <2>3, <2>4 DEF Masked, Put
      <4> QED
        BY <4>1, <4>2, <4>3
    <3>3. /\ Truth(c)'.groups = Truth(c).groups /\ Truth(c)'.scores = Truth(c).scores
          /\ Truth(c)'.placed = Truth(c).placed /\ Truth(c)'.status = Truth(c).status
      BY <2>3, <2>4 DEF Truth, Shapes, Shape
    <3>4. Truth(c)' = [groups |-> Truth(c)'.groups, players |-> Truth(c)'.players,
                       scores |-> Truth(c)'.scores, placed |-> Truth(c)'.placed,
                       status |-> Truth(c)'.status]
      BY DEF Truth
    <3> HIDE DEF m
    <3> QED
      BY <3>1, <3>2, <3>3, <3>4 DEF SeenRoster
  <2>6. ASSUME NEW c \in Guests PROVE Leads(c, Truth(c), <<m>>, Truth(c)')
    BY <1>1, <2>1, <2>5, WholeTruth, WholeTruthNext, LeadsByOne
  <2>7. Truth(g)' = Truth(g)
    <3>1. Truth(g)'.players = Truth(g).players
      BY <2>3, <2>4 DEF Truth, Masked
    <3>2. Truth(g)'.scores = Truth(g).scores
      BY <2>4 DEF Truth
    <3> QED
      BY <2>3, <3>1, <3>2 DEF Truth, Shapes, Shape
  <2>8. /\ up' \in [Sockets -> Seq(UpFrame)] /\ UNCHANGED <<board, drag, grip, link, cur>>
        /\ events' \in 0..MaxEvents /\ lapsed' \in SUBSET (Guests \X Pieces)
    BY <1>1, <1>2, TookIn
  <2>9. <<m>> \in Seq(DownFrame)
    BY <2>2
  <2>10. ASSUME NEW c \in Guests PROVE Follows(c)'
    <3>1. Fed(c)' => Fed(c)
      BY <1>2, <2>8 DEF Fed, Sock
    <3>2. Sock(c) \notin Joined \ {s} /\ Fed(c)' => c = g
      BY <1>1, <3>1, SockIn DEF Fed, Joined
    <3>3. Sock(c) \notin Joined \ {s} /\ Fed(c)' => Fed(c) /\ Truth(c)' = Truth(c)
      BY <2>7, <3>1, <3>2
    <3>4. Joined \ {s} \subseteq Joined
      OBVIOUS
    <3> HIDE DEF m, g
    <3> QED
      BY <1>4, <2>6, <2>8, <2>9, <3>3, <3>4, ToldBy
  <2>11. /\ down' \in [Sockets -> Seq(DownFrame)]
         /\ \A t \in Sockets : ~Listening(t) => down'[t] = down[t]
    <3> DEFINE ms == <<m>>
    <3>1. ms \in Seq(DownFrame) /\ down' = Deliverable(Joined \ {s}, ms)
      BY <1>4, <2>9
    <3> HIDE DEF ms
    <3> QED
      BY <1>1, <3>1, DeliveredIn
  <2>12. /\ connected' = {Owner(t) : t \in Joined'}
         /\ srv' \in [Sockets -> {"none", "open", "joined"}]
    BY <1>1, <1>2, <2>3 DEF WireInv, Joined, ClientInv
  <2> QED
    BY <2>1, <2>4, <2>8, <2>10, <2>11, <2>12, ServerStep
<1>5. ErrorMsg \in HandFrame
  BY DEF ErrorMsg, HandFrame
<1>6. ASSUME down' = Deliverable({s}, <<ErrorMsg>>), UNCHANGED vars PROVE SyncInv'
  BY <1>2, <1>5, <1>6, NoChangeInv
<1> QED
  BY <1>4, <1>6 DEF HandleRename

LEMMA SeqOfSet ==
  ASSUME NEW S, IsFiniteSet(S)
  PROVE  SetToSeq(S) \in Seq(S)
<1>1. PICK f \in [1..Cardinality(S) -> S] : \A i, j \in 1..Cardinality(S) : f[i] = f[j] => i = j
  BY FS_CardinalityType DEF ExistsBijection, Bijection, Injection, IsInjective
<1>2. SetToSeq(S) \in [1..Cardinality(S) -> S]
  BY <1>1 DEF SetToSeq, IsInjective
<1>3. Cardinality(S) \in Nat
  BY FS_CardinalityType
<1> QED
  BY <1>2, <1>3

\* The guest whose last socket is closed goes, and leaves nothing in its hand.
LEMMA CloseInv ==
  ASSUME SyncInv, NEW s \in Sockets, CloseAtServer(s), events' \in 0..MaxEvents, UNCHANGED lapsed
  PROVE  SyncInv'
<1> DEFINE g == Owner(s)
<1>1. ClientInv /\ IInv /\ WireInv /\ g \in Guests
  BY DEF SyncInv, Owner, Sockets
<1>2. /\ srv' = [srv EXCEPT ![s] = "none"] /\ up' = [up EXCEPT ![s] = << >>]
      /\ UNCHANGED <<board, drag, grip, link, cur>>
  BY DEF CloseAtServer, clients
<1>3. up' \in [Sockets -> Seq(UpFrame)] /\ srv' \in [Sockets -> {"none", "open", "joined"}]
  <2>1. << >> \in Seq(UpFrame)
    BY EmptySeq
  <2> QED
    BY <1>1, <1>2, <2>1 DEF ClientInv
<1>4. Joined' = Joined \ {s} /\ lapsed' \in SUBSET (Guests \X Pieces)
  BY <1>1, <1>2 DEF Joined, ClientInv
<1>5. \A c \in Guests : Fed(c)' => Fed(c) /\ Sock(c) # s
  BY <1>1, <1>2, SockIn DEF Fed, Sock, ClientInv
<1>6. DOMAIN identities = Guests /\ connected = {Owner(t) : t \in Joined}
  BY <1>1 DEF WireInv
<1>7. ASSUME Solo(g) = {s}, Leave(g),
             NEW freed, freed = SetToSeq({id \in DOMAIN holds : holds[id].holder = g}),
             down' = Deliverable(Joined \ {s}, [k \in DOMAIN freed |-> ReleasedMsg(freed[k])]
                                                 \o <<Presence("left", g, None)>>)
      PROVE  SyncInv'
  <2> DEFINE rs == [k \in DOMAIN freed |-> ReleasedMsg(freed[k])]
             m == Presence("left", g, None)
             ms == rs \o <<m>>
  <2>1. IInv'
    BY <1>1, <1>7, LeaveInv
  <2>2. /\ connected' = connected \ {g}
        /\ UNCHANGED <<groups, identities, credited, status>>
    BY <1>7 DEF Leave
  <2>3. rs \in Seq(HandFrame)
    <3> DEFINE S == {id \in DOMAIN holds : holds[id].holder = g}
    <3>1. S \subseteq DOMAIN groups /\ DOMAIN groups \subseteq Pieces /\ groups \in [DOMAIN groups -> Group]
      BY <1>1 DEF IInv, TypeOK, HoldsAreLive
    <3>2. IsFiniteSet(S)
      BY <3>1, PiecesFinite, FS_Subset
    <3>3. freed \in Seq(S)
      BY <1>7, <3>2, SeqOfSet
    <3> HIDE DEF S
    <3>4. Len(freed) \in Nat /\ freed \in [1..Len(freed) -> S]
      BY <3>3, LenProperties
    <3>5. \A id \in S : ReleasedMsg(id) \in HandFrame
      <4> TAKE id \in S
      <4>1. groups[id] \in Group /\ id \in Pieces
        BY <3>1
      <4> QED
        BY <4>1 DEF ReleasedMsg, HandFrame, Group
    <3>6. rs \in [1..Len(freed) -> HandFrame]
      BY <3>4, <3>5
    <3> QED
      BY <3>4, <3>6
  <2>4. m \in DownFrame
    BY <1>1 DEF Presence, DownFrame, RosterFrame
  <2> HIDE DEF rs
  <2>5. rs \in Seq(DownFrame) /\ <<m>> \in Seq(DownFrame) /\ ms \in Seq(DownFrame)
    BY <2>3, <2>4, HandIsDown, ConcatProperties
  <2>6. ASSUME NEW c \in Guests \ {g} PROVE Leads(c, Truth(c), ms, Truth(c)')
    <3>1. Leads(c, Truth(c), rs, Truth(c))
      BY <1>1, <2>3, WholeTruth, LeadsInPlace
    <3>2. Truth(c)' = Seen(c, Truth(c), m)
      <4>1. Seen(c, Truth(c), m) = SeenRoster(c, Truth(c), m)
        BY DEF Seen, Presence
      <4>2. Truth(c)'.players = SeenRoster(c, Truth(c), m).players
        BY <2>2 DEF Truth, Masked, SeenRoster, Presence, Without
      <4>3. /\ Truth(c)'.groups = Truth(c).groups /\ Truth(c)'.scores = Truth(c).scores
            /\ Truth(c)'.placed = Truth(c).placed /\ Truth(c)'.status = Truth(c).status
        BY <2>2 DEF Truth, Shapes, Shape
      <4>4. Truth(c)' = [groups |-> Truth(c)'.groups, players |-> Truth(c)'.players,
                         scores |-> Truth(c)'.scores, placed |-> Truth(c)'.placed,
                         status |-> Truth(c)'.status]
        BY DEF Truth
      <4> HIDE DEF m
      <4> QED
        BY <4>1, <4>2, <4>3, <4>4 DEF SeenRoster
    <3> DEFINE v == Truth(c)
               x == Truth(c)'
    <3>3. Leads(c, v, <<m>>, x)
      BY <1>1, <2>1, <3>2, WholeTruth, WholeTruthNext, LeadsByOne
    <3>4. Leads(c, v, rs, v)
      BY <3>1
    <3> HIDE DEF v, x, m
    <3>5. Leads(c, v, ms, x)
      BY <2>5, <3>3, <3>4, LeadsOn
    <3> QED
      BY <3>5 DEF v, x
  <2>7. \A c \in Guests : Sock(c) \in Joined => c # g \/ Sock(c) = s
    BY <1>1, <1>7, SockIn DEF Solo
  <2>8. down' = Deliverable(Joined \ {s}, ms)
    BY <1>7 DEF rs
  <2>9. ASSUME NEW c \in Guests PROVE Follows(c)'
    <3>1. Sock(c) \in Joined \ {s} /\ link[c] # "down" => Leads(c, Truth(c), ms, Truth(c)')
      BY <2>6, <2>7
    <3>2. Sock(c) \notin Joined \ {s} => ~Fed(c)'
      BY <1>1, <1>5, SockIn DEF Fed, Joined
    <3>3. Joined \ {s} \subseteq Joined
      OBVIOUS
    <3> HIDE DEF ms, g
    <3> QED
      BY <1>2, <2>5, <2>8, <3>1, <3>2, <3>3, ToldBy
  <2>10. /\ down' \in [Sockets -> Seq(DownFrame)]
         /\ \A t \in Sockets : ~Listening(t) => down'[t] = down[t]
    <3> HIDE DEF ms
    <3> QED
      BY <1>1, <2>5, <2>8, DeliveredIn
  <2>11. connected' = {Owner(t) : t \in Joined'}
    <3>1. ASSUME NEW t \in Joined PROVE Owner(t) = g <=> t = s
      BY <1>7 DEF Solo
    <3> QED
      BY <1>4, <1>6, <2>2, <3>1
  <2>12. DOMAIN identities' = Guests
    BY <1>6, <2>2
  <2> QED
    BY <1>2, <1>3, <1>4, <2>1, <2>9, <2>10, <2>11, <2>12, ServerStep
<1>8. ASSUME Solo(g) # {s}, UNCHANGED <<vars, down>> PROVE SyncInv'
  <2>1. IInv' /\ DOMAIN identities' = Guests
    BY <1>1, <1>6, <1>8, StutterInv DEF vars
  <2>2. ASSUME NEW c \in Guests PROVE Follows(c)'
    <3>1. View(board'[c], c) = View(board[c], c) /\ down'[<<c, cur'[c]>>] = down[Sock(c)]
      BY <1>2, <1>8 DEF Sock
    <3>2. Follows(c)
      BY DEF SyncInv
    <3> QED
      BY <1>5, <1>8, <3>1, <3>2, FollowsKept
  <2>3. connected' = {Owner(t) : t \in Joined'}
    <3>1. ASSUME s \in Joined PROVE \E t \in Joined \ {s} : Owner(t) = g
      <4>1. s \in Solo(g)
        BY <3>1 DEF Solo
      <4>2. PICK t \in Solo(g) : t # s
        BY <1>8, <4>1
      <4> QED
        BY <4>2 DEF Solo
    <3>2. {Owner(t) : t \in Joined \ {s}} = {Owner(t) : t \in Joined}
      BY <3>1
    <3> QED
      BY <1>4, <1>6, <1>8, <3>2 DEF vars
  <2>4. down' \in [Sockets -> Seq(DownFrame)]
    BY <1>1, <1>8 DEF ClientInv
  <2> QED
    BY <1>2, <1>3, <1>4, <1>8, <2>1, <2>2, <2>3, <2>4, ServerStep
<1> QED
  BY <1>7, <1>8 DEF CloseAtServer, LeaveBy

\* A snapshot alone shows the truth: the groups it leaves out lie as they were
\* scattered.
LEMMA SnapshotTrue ==
  ASSUME IInv, DOMAIN identities = Guests
  PROVE  /\ SnapshotMsg \in SnapshotFrame
         /\ \A c \in Guests : View(ApplySnapshot(EmptyBoard, SnapshotMsg), c) = Truth(c)
<1> DEFINE m == SnapshotMsg
           D == {i \in DOMAIN groups : IsDeviated(groups[i]) \/ i \in DOMAIN holds}
           b == ApplySnapshot(EmptyBoard, m)
<1>1. /\ DOMAIN groups \subseteq Pieces /\ groups \in [DOMAIN groups -> Group]
      /\ holds \in [DOMAIN holds -> Hold] /\ identities \in [Guests -> Identity]
      /\ connected \subseteq Guests /\ status \in {"active", "completed"} /\ credited \subseteq Pieces
  BY DEF IInv, TypeOK
<1>2. /\ UNION {groups[id].pieces : id \in DOMAIN groups} = Pieces
      /\ \A i, j \in DOMAIN groups : i # j => groups[i].pieces \cap groups[j].pieces = {}
      /\ \A id \in DOMAIN groups : id \in groups[id].pieces
  BY DEF IInv, GroupsPartition
<1>3. /\ m.groups = [id \in D |-> [pieces |-> groups[id].pieces, position |-> groups[id].position,
                                   locked |-> groups[id].locked, heldBy |-> HolderOf(id)]]
      /\ m.players = [g \in connected |-> identities[g].name]
      /\ m.scores = [g \in Guests |-> identities[g].placedCount]
      /\ m.placed = Cardinality(credited) /\ m.status = status
  BY DEF SnapshotMsg
<1>4. m \in SnapshotFrame
  <2>1. m.groups \in [D -> BoardGroup]
    <3>1. ASSUME NEW id \in D
          PROVE  [pieces |-> groups[id].pieces, position |-> groups[id].position,
                  locked |-> groups[id].locked, heldBy |-> HolderOf(id)] \in BoardGroup
      <4>1. HolderOf(id) \in Guests \cup {None}
        BY <1>1 DEF HolderOf, Hold
      <4>2. groups[id] \in Group
        BY <1>1
      <4> QED
        BY <4>1, <4>2 DEF BoardGroup, Group, Spot
    <3> QED
      BY <1>3, <3>1
  <2>2. m.groups \in Map(Pieces, BoardGroup)
    BY <1>1, <1>3, <2>1, InMap
  <2>3. m.players \in Map(Guests, Names)
    <3>1. m.players \in [connected -> Names] /\ DOMAIN m.players = connected
      BY <1>1, <1>3 DEF Identity
    <3> QED
      BY <1>1, <3>1, InMap
  <2>4. m.scores \in Map(Guests, Nat)
    <3>1. m.scores \in [Guests -> Nat] /\ DOMAIN m.scores = Guests
      BY <1>1, <1>3 DEF Identity
    <3> QED
      BY <3>1, InMap
  <2>5. m.placed \in Nat
    BY <1>1, <1>3, PiecesFinite, FS_Subset, FS_CardinalityType
  <2>6. m = [type |-> "snapshot", groups |-> m.groups, players |-> m.players,
             scores |-> m.scores, placed |-> m.placed, status |-> m.status]
    BY DEF SnapshotMsg
  <2>7. m.status \in {"active", "completed"}
    BY <1>1, <1>3
  <2> DEFINE ms == Map(Pieces, BoardGroup)
             ns == Map(Guests, Names)
             ss == Map(Guests, Nat)
  <2>8. /\ SnapshotFrame = [type : {"snapshot"}, groups : ms, players : ns, scores : ss,
                            placed : Nat, status : {"active", "completed"}]
        /\ m.groups \in ms /\ m.players \in ns /\ m.scores \in ss
    BY <2>2, <2>3, <2>4 DEF SnapshotFrame
  <2> HIDE DEF m, ms, ns, ss
  <2> QED
    BY <2>5, <2>6, <2>7, <2>8
<1> HIDE DEF m
<1>5. /\ b.players = m.players /\ b.scores = m.scores /\ b.placed = m.placed /\ b.status = m.status
  BY DEF ApplySnapshot
<1>6. Shapes(b.groups) = Shapes(groups)
  <2> DEFINE covered == UNION {m.groups[id].pieces : id \in DOMAIN m.groups}
  <2>1. /\ DOMAIN b.groups = D \cup (Pieces \ covered)
        /\ \A id \in DOMAIN b.groups :
             b.groups[id] = IF id \in D THEN m.groups[id] ELSE Untouched(id)
    BY <1>3 DEF ApplySnapshot
  <2>2. DOMAIN m.groups = D /\ \A id \in D : /\ m.groups[id].pieces = groups[id].pieces
                                             /\ m.groups[id].locked = groups[id].locked
    BY <1>3
  <2> HIDE DEF b
  <2>3. ASSUME NEW i \in DOMAIN groups \ D PROVE groups[i] = Singleton(i)
    BY <2>3, UndeviatedAlone
  <2>4. D \cup (Pieces \ covered) = DOMAIN groups
    <3>1. covered = UNION {groups[i].pieces : i \in D}
      BY <2>2
    <3>2. ASSUME NEW p \in Pieces, p \notin covered PROVE p \in DOMAIN groups
      <4>1. PICK i \in DOMAIN groups : p \in groups[i].pieces
        BY <1>2
      <4>2. i \notin D
        BY <3>1, <3>2, <4>1
      <4>3. groups[i].pieces = {i}
        BY <2>3, <4>2 DEF Singleton
      <4> QED
        BY <4>1, <4>3
    <3>3. ASSUME NEW i \in DOMAIN groups \ D PROVE i \in Pieces /\ i \notin covered
      BY <1>1, <1>2, <3>1
    <3> QED
      BY <3>2, <3>3
  <2>5. ASSUME NEW i \in DOMAIN groups PROVE Shape(b.groups[i]) = Shape(groups[i])
    <3>1. CASE i \in D
      BY <2>1, <2>2, <3>1 DEF Shape
    <3>2. CASE i \notin D
      <4>1. b.groups[i] = Untouched(i) /\ groups[i] = Singleton(i)
        BY <2>1, <2>3, <2>4, <3>2
      <4> QED
        BY <4>1 DEF Untouched, Singleton, Shape
    <3> QED
      BY <3>1, <3>2
  <2> QED
    BY <2>1, <2>4, <2>5 DEF Shapes
<1> HIDE DEF b
<1>7. ASSUME NEW c \in Guests PROVE View(b, c) = Truth(c)
  <2>1. [g \in Guests |-> ScoreOn(b, g)] = [g \in Guests |-> identities[g].placedCount]
    BY <1>3, <1>5 DEF ScoreOn
  <2> QED
    BY <1>3, <1>5, <1>6, <2>1 DEF View, Truth
<1> QED
  BY <1>4, <1>7 DEF m, b

SnapshotIsTrue ==
  /\ SnapshotMsg \in SnapshotFrame
  /\ \A c \in Guests : View(ApplySnapshot(EmptyBoard, SnapshotMsg), c) = Truth(c)

LEMMA SnapshotTrueNext == IInv' /\ (DOMAIN identities = Guests)' => SnapshotIsTrue'
<1>1. IInv /\ DOMAIN identities = Guests => SnapshotIsTrue
  BY SnapshotTrue DEF SnapshotIsTrue
<1> QED
  BY <1>1, PTL

\* A guest joins: it is sent a snapshot, and those who did not see it are told.
LEMMA HandleJoinInv ==
  ASSUME SyncInv, NEW s \in Sockets, HandleJoin(s)
  PROVE  SyncInv'
<1> DEFINE g == Owner(s)
           m == Presence("joined", g, identities'[g].name)
           told == IF Solo(g) = {} THEN Joined ELSE {}
           sent == Deliverable(told, <<m>>)
           snap == SnapshotMsg'
<1>1. ClientInv /\ IInv /\ WireInv /\ g \in Guests
  BY DEF SyncInv, Owner, Sockets
<1>2. /\ Took(s) /\ Resume(g, None) /\ srv' = [srv EXCEPT ![s] = "joined"]
      /\ down' = IF Listening(s) THEN [sent EXCEPT ![s] = <<snap>>] ELSE sent
  BY DEF HandleJoin, Frame1
<1>3. DOMAIN identities = Guests /\ identities \in [Guests -> Identity] /\ connected \subseteq Guests
  BY <1>1 DEF WireInv, IInv, TypeOK
<1>4. /\ UNCHANGED <<identities, groups, credited, status>> /\ connected' = connected \cup {g}
  BY <1>2 DEF Resume, Enter
<1>5. IInv'
  <2>1. Resumed(g, None) = {g}
    BY <1>1, <1>3 DEF Resumed
  <2>2. Join(g, None, None)
    BY <1>2, <2>1 DEF Join
  <2>3. g \in Guests \cup {None} /\ None \in Users \cup {None} /\ None \in Names \cup {None}
    BY <1>1
  <2> HIDE DEF g
  <2> QED
    BY <1>1, <2>2, <2>3, JoinInv
<1>6. snap \in SnapshotFrame /\ \A c \in Guests : View(ApplySnapshot(EmptyBoard, snap), c) = Truth(c)'
  BY <1>3, <1>4, <1>5, SnapshotTrueNext DEF SnapshotIsTrue
<1>7. m \in DownFrame /\ snap \in DownFrame
  BY <1>1, <1>3, <1>4, <1>6 DEF Presence, DownFrame, RosterFrame, Identity
<1>8. Joined' = Joined \cup {s} /\ srv' \in [Sockets -> {"none", "open", "joined"}]
  BY <1>1, <1>2 DEF Joined, ClientInv
<1>9. connected' = {Owner(t) : t \in Joined'} /\ DOMAIN identities' = Guests
  BY <1>1, <1>3, <1>4, <1>8 DEF WireInv
<1>10. /\ up' \in [Sockets -> Seq(UpFrame)] /\ UNCHANGED <<board, drag, grip, link, cur>>
       /\ events' \in 0..MaxEvents /\ lapsed' \in SUBSET (Guests \X Pieces)
  BY <1>1, <1>2, TookIn
<1>11. /\ sent \in [Sockets -> Seq(DownFrame)]
       /\ \A t \in Sockets : ~Listening(t) => sent[t] = down[t]
  <2> DEFINE ms == <<m>>
  <2>1. ms \in Seq(DownFrame) /\ sent = Deliverable(told, ms)
    BY <1>7
  <2> HIDE DEF ms, told, sent
  <2> QED
    BY <1>1, <2>1, DeliveredIn
<1>12. /\ down' \in [Sockets -> Seq(DownFrame)]
       /\ \A t \in Sockets : ~Listening(t) => down'[t] = down[t]
  <2>1. <<snap>> \in Seq(DownFrame)
    BY <1>7
  <2> HIDE DEF snap, sent
  <2> QED
    BY <1>2, <1>11, <2>1
<1>13. ASSUME NEW c \in Guests, c # g, Solo(g) = {} PROVE Leads(c, Truth(c), <<m>>, Truth(c)')
  <2>1. Truth(c)' = Seen(c, Truth(c), m)
    <3> DEFINE old == [h \in connected |-> identities[h].name]
    <3>1. Seen(c, Truth(c), m) = SeenRoster(c, Truth(c), m)
      BY DEF Seen, Presence
    <3>2. Truth(c)'.players = SeenRoster(c, Truth(c), m).players
      <4>1. /\ Truth(c).players = Masked(old, c)
            /\ Truth(c)'.players = Masked([h \in connected \cup {g} |-> identities[h].name], c)
        BY <1>4 DEF Truth, Masked
      <4>2. SeenRoster(c, Truth(c), m).players = Put(Masked(old, c), g, identities[g].name)
        BY <1>4, <1>13, <4>1 DEF SeenRoster, Presence, Masked
      <4>3. Masked([h \in connected \cup {g} |-> identities[h].name], c) =
              Put(Masked(old, c), g, identities[g].name)
        BY <1>13 DEF Masked, Put
      <4> QED
        BY <4>1, <4>2, <4>3
    <3>3. /\ Truth(c)'.groups = Truth(c).groups /\ Truth(c)'.scores = Truth(c).scores
          /\ Truth(c)'.placed = Truth(c).placed /\ Truth(c)'.status = Truth(c).status
      BY <1>4 DEF Truth, Shapes, Shape
    <3>4. Truth(c)' = [groups |-> Truth(c)'.groups, players |-> Truth(c)'.players,
                       scores |-> Truth(c)'.scores, placed |-> Truth(c)'.placed,
                       status |-> Truth(c)'.status]
      BY DEF Truth
    <3> HIDE DEF m
    <3> QED
      BY <3>1, <3>2, <3>3, <3>4 DEF SeenRoster
  <2> QED
    BY <1>1, <1>5, <2>1, WholeTruth, WholeTruthNext, LeadsByOne
<1>14. ASSUME Solo(g) # {}, NEW c \in Guests PROVE Truth(c)' = Truth(c)
  <2>1. g \in connected
    BY <1>1, <1>14 DEF Solo, WireInv
  <2>2. connected' = connected
    BY <1>4, <2>1
  <2> QED
    BY <1>4, <2>2, TruthKept
<1>15. ASSUME NEW c \in Guests PROVE Follows(c)'
  <2>1. /\ Sock(c) \in Sockets /\ Owner(Sock(c)) = c /\ Follows(c)
        /\ <<c, cur'[c]>> = Sock(c) /\ View(board'[c], c) = View(board[c], c)
    BY <1>1, <1>10, SockIn DEF SyncInv, Sock
  <2>2. CASE Sock(c) = s /\ Listening(s)
    <3> DEFINE v == View(board[c], c)
               x == Truth(c)'
    <3>1. Whole(v.groups)
      BY <1>1, <2>1, LeadsWhole DEF Follows, ClientInv
    <3>2. Seen(c, v, snap) = x
      BY <1>6 DEF Seen, SnapshotFrame
    <3>3. Leads(c, v, <<snap>>, x)
      BY <1>5, <3>1, <3>2, WholeTruthNext, LeadsByOne
    <3>4. down'[Sock(c)] = <<snap>>
      <4> HIDE DEF snap, sent
      <4> QED
        BY <1>2, <1>11, <2>1, <2>2
    <3>5. Leads(c, View(board'[c], c), down'[<<c, cur'[c]>>], Truth(c)')
      BY <2>1, <3>3, <3>4
    <3>6. Leads(c, View(board'[c], c), down'[<<c, cur'[c]>>], Truth(c)')
            /\ (Fed(c)' => Truth(c)' = Truth(c)')
      BY <3>5
    <3> QED
      BY <3>6 DEF Follows, Sock
  <2>3. CASE ~(Sock(c) = s /\ Listening(s))
    <3>1. down'[Sock(c)] = sent[Sock(c)]
      <4> HIDE DEF snap, sent
      <4> QED
        BY <1>2, <1>11, <2>1, <2>3
    <3>2. Fed(c)' => Fed(c)
      BY <1>1, <1>2, <1>10, <2>1, <2>3 DEF Fed, Sock, Listening, ClientInv
    <3>3. CASE Solo(g) = {} /\ Sock(c) \in Joined /\ link[c] # "down"
      <4>1. c # g
        BY <2>1, <3>3 DEF Solo
      <4>2. Fed(c) /\ Listening(Sock(c))
        BY <2>1, <3>3 DEF Fed, Joined, Listening
      <4>3. down'[Sock(c)] = down[Sock(c)] \o <<m>>
        BY <2>1, <3>1, <3>3, <4>2 DEF Deliverable
      <4> DEFINE ms == <<m>>
      <4>4. ms \in Seq(DownFrame) /\ Leads(c, Truth(c), ms, Truth(c)') /\ down'[Sock(c)] = down[Sock(c)] \o ms
        BY <1>7, <1>13, <3>3, <4>1, <4>3
      <4> HIDE DEF ms
      <4> QED
        BY <1>1, <1>10, <2>1, <4>2, <4>4, FollowsTold
    <3>4. CASE ~(Solo(g) = {} /\ Sock(c) \in Joined /\ link[c] # "down")
      <4>1. down'[Sock(c)] = down[Sock(c)]
        BY <2>1, <3>1, <3>4 DEF Deliverable, Listening
      <4>2. Fed(c)' => Truth(c)' = Truth(c)
        BY <1>14, <2>1, <3>2, <3>4 DEF Fed, Joined
      <4> QED
        BY <1>1, <1>10, <2>1, <3>2, <4>1, <4>2, FollowsTold
    <3> QED
      BY <3>3, <3>4
  <2> QED
    BY <2>2, <2>3
<1> QED
  BY <1>5, <1>8, <1>9, <1>10, <1>12, <1>15, ServerStep

-----------------------------------------------------------------------------
(* The inductive invariant of the room and its browsers. *)

LEMMA SyncInitInv == SyncInit => SyncInv
<1> SUFFICES ASSUME SyncInit PROVE SyncInv
  OBVIOUS
<1>1. IInv /\ DOMAIN identities = Guests
  <2>1. /\ DOMAIN groups = Pieces
        /\ \A p \in Pieces : groups[p] = [pieces |-> {p}, position |-> Scatter[p], locked |-> FALSE]
    BY DEF SyncInit, Singleton
  <2>2. /\ holds = << >> /\ credited = {} /\ status = "active" /\ connected = Guests
        /\ activeMs = 0 /\ activeSince = 0 /\ now = 0 /\ solving = 0
    BY DEF SyncInit
  <2>3. DOMAIN holds = {} /\ holds \in [{} -> Hold]
    BY <2>2
  <2>4. /\ DOMAIN identities = Guests /\ identities \in [Guests -> Identity]
        /\ \A g \in Guests : identities[g].user = None
    <3>1. (CHOOSE n \in Names : TRUE) \in Names
      BY SyncAssumption
    <3> QED
      BY <3>1 DEF SyncInit, Identity
  <2>5. TypeOK
    <3>1. groups \in [Pieces -> Group]
      BY SingletonType DEF SyncInit
    <3>2. 0 \in 0..MaxNow /\ 0 # NotActive
      BY CapAssumption DEF NotActive
    <3> QED
      BY <2>1, <2>2, <2>3, <2>4, <3>1, <3>2 DEF TypeOK
  <2>6. GroupsPartition
    BY <2>1 DEF GroupsPartition
  <2>7. LockedOnFrame /\ HoldsAreLive
    BY <2>1, <2>3 DEF LockedOnFrame, HoldsAreLive
  <2>8. CreditedAreJoined
    BY <2>1, <2>2 DEF CreditedAreJoined
  <2>9. CompletedWhenAllLocked
    BY <2>1, <2>2, PiecesFinite DEF CompletedWhenAllLocked, AllLocked
  <2>10. SolvingTimeExact /\ ClockAgrees
    BY <2>2, SyncAssumption DEF SolvingTimeExact, ClockAgrees, NotActive
  <2>11. OneIdentityPerUser
    BY <2>4 DEF OneIdentityPerUser
  <2> QED
    BY <2>4, <2>5, <2>6, <2>7, <2>8, <2>9, <2>10, <2>11 DEF IInv
<1> DEFINE b == ApplySnapshot(EmptyBoard, SnapshotMsg)
<1>2. /\ b \in BoardType
      /\ \A c \in Guests : View(b, c) = Truth(c)
  <2>1. SnapshotMsg \in SnapshotFrame /\ \A c \in Guests : View(b, c) = Truth(c)
    BY <1>1, SnapshotTrue
  <2>2. PICK c \in Guests : TRUE
    BY SyncAssumption
  <2>3. EmptyBoard \in BoardType
    <3>1. DOMAIN << >> = {} /\ \A T : << >> \in [{} -> T]
      OBVIOUS
    <3>2. \A S, T : << >> \in Map(S, T)
      BY <3>1 DEF Map
    <3> QED
      BY <3>2 DEF EmptyBoard, BoardType
  <2>4. Reconcile(SnapshotMsg, EmptyBoard, NoDrag, c).board = b
    BY DEF Reconcile, Plan, SnapshotMsg
  <2>5. Reconciled(SnapshotMsg, EmptyBoard, NoDrag, c)
    BY <2>1, <2>3, NoDragType, ReconcileSnapshot
  <2> QED
    BY <2>1, <2>4, <2>5 DEF Reconciled
<1>3. /\ board = [c \in Guests |-> b] /\ drag = [c \in Guests |-> NoDrag]
      /\ grip = [c \in Guests |-> FALSE] /\ link = [c \in Guests |-> "connected"]
      /\ cur = [c \in Guests |-> 1]
      /\ srv = [s \in Sockets |-> IF s[2] = 1 THEN "joined" ELSE "none"]
      /\ up = [s \in Sockets |-> << >>] /\ down = [s \in Sockets |-> << >>]
      /\ events = MaxEvents /\ lapsed = {} /\ connected = Guests
  BY DEF SyncInit
<1> HIDE DEF b
<1>4. ClientInv
  <2>1. << >> \in Seq(UpFrame) /\ << >> \in Seq(DownFrame)
    BY EmptySeq
  <2>2. MaxEvents \in 0..MaxEvents
    BY SyncAssumption
  <2> QED
    BY <1>2, <1>3, <2>1, <2>2, NoDragType DEF ClientInv
<1>5. WireInv
  <2>1. \A c \in Guests : <<c, 1>> \in Joined /\ Owner(<<c, 1>>) = c
    BY <1>3 DEF Joined, Sockets, Owner
  <2>2. \A s \in Joined : Owner(s) \in Guests
    BY DEF Joined, Sockets, Owner
  <2> QED
    BY <1>1, <1>3, <2>1, <2>2 DEF WireInv
<1>6. ASSUME NEW c \in Guests PROVE Follows(c)
  <2>1. View(board[c], c) = Truth(c) /\ down[Sock(c)] = << >>
    BY <1>2, <1>3, <1>4, SockIn
  <2>2. Leads(c, Truth(c), << >>, Truth(c))
    BY <1>1, WholeTruth, LeadsNowhere
  <2>3. Leads(c, View(board[c], c), down[Sock(c)], Truth(c)) /\ (Fed(c) => Truth(c) = Truth(c))
    BY <2>1, <2>2
  <2> QED
    BY <2>3 DEF Follows
<1> QED
  BY <1>1, <1>4, <1>5, <1>6 DEF SyncInv

LEMMA SyncStutter ==
  ASSUME SyncInv, UNCHANGED syncVars
  PROVE  SyncInv'
<1>1. UNCHANGED <<vars, board, drag, grip, link, cur, srv, up, down, events, lapsed>>
  BY DEF syncVars, clients, wires
<1>2. IInv'
  BY <1>1, StutterInv DEF SyncInv
<1>3. ClientInv' /\ WireInv'
  BY <1>1 DEF SyncInv, ClientInv, WireInv, vars, Joined, Listening, Sock
<1>4. ASSUME NEW c \in Guests PROVE Follows(c)'
  BY <1>1, FollowsKept DEF SyncInv, Fed, Sock
<1> QED
  BY <1>2, <1>3, <1>4 DEF SyncInv

\* At every moment the frames in flight to a client lead from what its board shows,
\* through partitions of the pieces, to what the referee knows: the order in which
\* the fan-out of registry.ts sends, and the messages of reconcile.ts, are enough.
THEOREM SyncInvariance == SyncSpec => []SyncInv
<1>1. ASSUME SyncInv, [SyncNext]_syncVars PROVE SyncInv'
  <2>1. CASE UNCHANGED syncVars
    BY <1>1, <2>1, SyncStutter
  <2>2. ASSUME NEW c \in Guests, NEW id \in Pieces, BeginDrag(c, id) PROVE SyncInv'
    BY <1>1, <2>2, BeginDragInv
  <2>3. ASSUME NEW c \in Guests, NEW pos \in Passing, DragTo(c, pos) PROVE SyncInv'
    BY <1>1, <2>3, DragToInv
  <2>4. ASSUME NEW c \in Guests, NEW pos \in Reports, EndDrag(c, pos) PROVE SyncInv'
    BY <1>1, <2>4, EndDragInv
  <2>5. ASSUME NEW c \in Guests, NEW name \in Names, ChangeName(c, name) PROVE SyncInv'
    BY <1>1, <2>5, ChangeNameInv
  <2>6. ASSUME NEW c \in Guests, Lose(c) \/ Connect(c) \/ Receive(c) PROVE SyncInv'
    BY <1>1, <2>6, LoseInv, ConnectInv, ReceiveInv
  <2>7. ASSUME NEW s \in Sockets, Serve(s) PROVE SyncInv'
    BY <1>1, <2>7, HandleJoinInv, HandleGrabInv, HandleMoveInv, HandleDropInv,
       HandleRenameInv DEF Serve
  <2>8. ASSUME NEW s \in Sockets, Reap(s) \/ ServerDrops(s) PROVE SyncInv'
    <3>1. CloseAtServer(s) /\ (Free \/ Spend) /\ ClientInv
      BY <1>1, <2>8 DEF Reap, ServerDrops, SyncInv
    <3>2. events' \in 0..MaxEvents /\ UNCHANGED lapsed
      BY <3>1, SpendIn DEF Free, ClientInv
    <3> QED
      BY <1>1, <3>1, <3>2, CloseInv
  <2>9. ASSUME NEW id \in Pieces, Sweep(id) PROVE SyncInv'
    BY <1>1, <2>9, SweepInv
  <2> QED
    BY <1>1, <2>1, <2>2, <2>3, <2>4, <2>5, <2>6, <2>7, <2>8, <2>9 DEF SyncNext
<1> QED
  BY SyncInitInv, <1>1, PTL DEF SyncSpec

-----------------------------------------------------------------------------

\* NFR-6: whatever messages a browser has taken and whatever its pointer guessed,
\* the groups of its BoardStore partition the pieces.
THEOREM BoardPartitionsCorrect == SyncSpec => []BoardPartitions
<1>1. ASSUME SyncInv PROVE BoardPartitions
  <2>1. ClientInv /\ \A c \in Guests : Follows(c)
    BY <1>1 DEF SyncInv
  <2>2. ASSUME NEW c \in Guests
        PROVE  /\ board[c].groups \in [DOMAIN board[c].groups -> BoardGroup]
               /\ UNION {board[c].groups[id].pieces : id \in DOMAIN board[c].groups} = Pieces
               /\ \A i, j \in DOMAIN board[c].groups :
                    i # j => board[c].groups[i].pieces \cap board[c].groups[j].pieces = {}
               /\ \A id \in DOMAIN board[c].groups : id \in board[c].groups[id].pieces
    <3> DEFINE gs == board[c].groups
               shown == View(board[c], c).groups
    <3>1. Whole(shown)
      BY <2>1, SockIn, LeadsWhole DEF Follows, ClientInv
    <3>2. DOMAIN shown = DOMAIN gs /\ \A id \in DOMAIN gs : shown[id].pieces = gs[id].pieces
      BY DEF View, Shapes, Shape
    <3>3. {shown[id].pieces : id \in DOMAIN shown} = {gs[id].pieces : id \in DOMAIN gs}
      BY <3>2
    <3>4. gs \in Map(Pieces, BoardGroup)
      BY <2>1 DEF ClientInv, BoardType
    <3>5. gs \in [DOMAIN gs -> BoardGroup]
      BY <3>4, InMap
    <3> HIDE DEF gs, shown
    <3>6. /\ UNION {gs[id].pieces : id \in DOMAIN gs} = Pieces
          /\ \A i, j \in DOMAIN gs : i # j => gs[i].pieces \cap gs[j].pieces = {}
          /\ \A id \in DOMAIN gs : id \in gs[id].pieces
      BY <3>1, <3>2, <3>3 DEF Whole
    <3> QED
      BY <3>5, <3>6 DEF gs
  <2>3. ClientsTypeOK
    <3>1. \A c \in Guests : \A id \in DOMAIN board[c].groups :
            /\ id \in board[c].groups[id].pieces
            /\ board[c].groups[id].heldBy \in Guests \cup {None}
            /\ board[c].groups[id].locked \in BOOLEAN
      BY <2>2 DEF BoardGroup
    <3>2. \A c \in Guests : drag[c].group \in Pieces \cup {None} /\ drag[c].granted \in BOOLEAN
      BY <2>1 DEF ClientInv, DragType
    <3> QED
      BY <2>1, <3>1, <3>2 DEF ClientsTypeOK, ClientInv
  <2> QED
    BY <2>2, <2>3 DEF BoardPartitions
<1> QED
  BY SyncInvariance, <1>1, PTL

\* NFR-6, SPEC 7.2: a joined client that has taken every frame sent to it shows the
\* referee's groups, locks, scores, progress, status and roster, after any number
\* of reconnections.
THEOREM ConvergesCorrect == SyncSpec => []Converges
<1>1. ASSUME SyncInv, NEW c \in Guests, UpToDate(c) PROVE View(board[c], c) = Truth(c)
  <2>1. Sock(c) \in Sockets /\ Owner(Sock(c)) = c /\ Follows(c)
    BY <1>1, SockIn DEF SyncInv
  <2>2. Fed(c) /\ down[Sock(c)] = << >>
    BY <1>1, <2>1 DEF UpToDate, Listening, Fed
  <2>3. PICK w : Leads(c, View(board[c], c), down[Sock(c)], w) /\ (Fed(c) => w = Truth(c))
    BY <2>1 DEF Follows
  <2>4. Leads(c, View(board[c], c), << >>, Truth(c))
    BY <2>2, <2>3
  <2> QED
    BY <2>4, LeadsNowhere
<1>2. ASSUME SyncInv PROVE Converges
  <2> DEFINE old == [g \in connected |-> identities[g].name]
  <2>1. ASSUME NEW c \in Guests, UpToDate(c)
        PROVE  /\ Shapes(board[c].groups) = Shapes(groups)
               /\ Masked(board[c].players, c) = Masked(old, c)
               /\ [g \in Guests |-> ScoreOn(board[c], g)] = [g \in Guests |-> identities[g].placedCount]
               /\ board[c].placed = Cardinality(credited) /\ board[c].status = status
    BY <1>1, <1>2, <2>1 DEF View, Truth
  <2>2. DOMAIN identities = Guests /\ connected \subseteq Guests
    BY <1>2 DEF SyncInv, WireInv, IInv, TypeOK
  <2>3. InStep
    <3>1. ASSUME NEW c \in Guests, UpToDate(c)
          PROVE  /\ DOMAIN board[c].groups = DOMAIN groups
                 /\ \A id \in DOMAIN groups :
                      /\ board[c].groups[id].pieces = groups[id].pieces
                      /\ board[c].groups[id].locked = groups[id].locked
      <4>1. DOMAIN Shapes(board[c].groups) = DOMAIN board[c].groups
              /\ DOMAIN Shapes(groups) = DOMAIN groups
        BY DEF Shapes
      <4>2. DOMAIN board[c].groups = DOMAIN groups
        BY <2>1, <3>1, <4>1
      <4>3. ASSUME NEW id \in DOMAIN groups PROVE Shape(board[c].groups[id]) = Shape(groups[id])
        <5>1. /\ Shapes(board[c].groups)[id] = Shape(board[c].groups[id])
              /\ Shapes(groups)[id] = Shape(groups[id])
          BY <4>2 DEF Shapes
        <5> QED
          BY <2>1, <3>1, <5>1
      <4> QED
        BY <4>2, <4>3 DEF Shape
    <3>2. ASSUME NEW c \in Guests, UpToDate(c), NEW g \in Guests
          PROVE  ScoreOn(board[c], g) = identities[g].placedCount
      BY <2>1, <3>2
    <3> QED
      BY <2>1, <2>2, <3>1, <3>2 DEF InStep
  <2>4. SameRoster
    <3>1. ASSUME NEW c \in Guests, UpToDate(c)
          PROVE  /\ DOMAIN board[c].players = connected
                 /\ \A g \in connected \ {c} : board[c].players[g] = identities[g].name
      <4>1. Masked(board[c].players, c) = Masked(old, c)
        BY <2>1, <3>1
      <4>2. DOMAIN Masked(board[c].players, c) = DOMAIN board[c].players
              /\ DOMAIN Masked(old, c) = connected
        BY DEF Masked
      <4>3. DOMAIN board[c].players = connected
        BY <4>1, <4>2
      <4>4. ASSUME NEW g \in connected \ {c} PROVE board[c].players[g] = identities[g].name
        <5>1. Masked(board[c].players, c)[g] = board[c].players[g] /\ Masked(old, c)[g] = identities[g].name
          BY <4>3 DEF Masked
        <5> QED
          BY <4>1, <5>1
      <4> QED
        BY <4>3, <4>4
    <3> QED
      BY <3>1 DEF SameRoster
  <2> QED
    BY <2>3, <2>4 DEF Converges
<1> QED
  BY SyncInvariance, <1>2, PTL

-----------------------------------------------------------------------------
(* Hands.                                                                    *)
(*                                                                           *)
(* What each browser shows of who holds a group, and where a free group      *)
(* lies, against what the referee knows.  A client's own drag makes it deaf  *)
(* to what it is told of that group, so its board may be wrong of it; but    *)
(* then something is still on the way, up or down, that puts it right.       *)

-----------------------------------------------------------------------------
(* One group, as the referee has it, and as the frames in flight tell it.   *)
(* Where it lies is told only of a free group.                              *)

HandOn(g) ==
  [by |-> g.heldBy, at |-> IF g.heldBy = None THEN g.position ELSE None, locked |-> g.locked]

Actual(id) ==
  [by |-> HolderOf(id), at |-> IF HolderOf(id) = None THEN groups[id].position ELSE None,
   locked |-> groups[id].locked]

Fresh(m) == ApplySnapshot(EmptyBoard, m).groups

\* What the frame m makes of the group id.
Told(id, h, m) ==
  IF m.type = "snapshot" THEN HandOn(Fresh(m)[id])
  ELSE IF m.type = "held" /\ m.id = id THEN [by |-> m.by, at |-> None, locked |-> h.locked]
  ELSE IF m.type = "released" /\ m.id = id
    THEN [by |-> None, at |-> m.position, locked |-> h.locked]
  ELSE IF m.type = "snap_result" /\ m.id = id
    THEN [by |-> None, at |-> m.group.position, locked |-> m.group.locked]
  ELSE h

HeldBy(id, m) == m.type = "grab_result" /\ m.id = id /\ m.outcome = "held_by"
Granted(id, m) == m.type = "grab_result" /\ m.id = id /\ m.outcome = "granted"

\* What the referee sends c of a group it does not merge away: a refusal only when
\* another guest has it, a move only when somebody has.
Sent(c, id, h, m) ==
  /\ m.type = "snapshot" => id \in DOMAIN Fresh(m)
  /\ HeldBy(id, m) => h.by \notin {None, c}
  /\ m.type = "group_moved" /\ m.id = id => h.by # None
  /\ m.type = "snap_result" => id \notin m.merged

\* The frames q to c take the group id from h to w.
Tells(c, id, h, q, w) ==
  \E t : /\ t[0] = h /\ t[Len(q)] = w
         /\ \A k \in 1..Len(q) : t[k] = Told(id, t[k - 1], q[k]) /\ Sent(c, id, t[k - 1], q[k])

\* A frame that ends a drag of id, whatever the client does meanwhile.
Ends(id, m) ==
  m.type = "snapshot" \/ (m.type = "snap_result" /\ m.id = id) \/ HeldBy(id, m)
Ending(id, q) == \E k \in 1..Len(q) : Ends(id, q[k])

\* The board b of client c, dragging d, shows the group id as h says.
Settled(b, d, c, id, h) ==
  /\ d.group # id
  /\ b.groups[id].heldBy \in {None, c, h.by}
  /\ h.by = None => b.groups[id].heldBy = None /\ b.groups[id].position = h.at

\* It never shows a group of another guest's in a third hand, and a locked one as it is.
Near(b, d, c, id, h) ==
  /\ id \in DOMAIN b.groups
  /\ b.groups[id].locked = h.locked
  /\ h.by \notin {None, c} => b.groups[id].heldBy \in {None, c, h.by}
  /\ h.locked => Settled(b, d, c, id, h)

-----------------------------------------------------------------------------
(* What a frame makes of one group on a board. *)

LEMMA NoneApart == None \notin Pieces /\ None \notin Guests
BY SyncAssumption, NoneAssumption

LEMMA PatchOne ==
  ASSUME NEW b \in BoardType, NEW i, NEW g, NEW id \in DOMAIN b.groups
  PROVE  /\ DOMAIN Patch(b, i, g).groups = DOMAIN b.groups
         /\ Patch(b, i, g).groups[id] = IF i = id THEN g ELSE b.groups[id]
<1>1. b.groups \in [DOMAIN b.groups -> BoardGroup]
  BY InMap DEF BoardType
<1>2. CASE i \in DOMAIN b.groups
  <2>1. Patch(b, i, g).groups = [b.groups EXCEPT ![i] = g]
    BY <1>2 DEF Patch, BoardType
  <2> QED
    BY <1>1, <1>2, <2>1
<1>3. CASE i \notin DOMAIN b.groups
  BY <1>3 DEF Patch
<1> QED
  BY <1>2, <1>3

\* What the board shows of id, and whether the client leads it, after the frame m.
After(m, b, d, c, id, h) ==
  LET p == Reconcile(m, b, d, c)
      n == Told(id, h, m)
  IN  /\ Near(b, d, c, id, h) => Near(p.board, p.drag, c, id, n)
      /\ Near(b, d, c, id, h) /\ (Ends(id, m) \/ Settled(b, d, c, id, h)) =>
           Settled(p.board, p.drag, c, id, n)
      /\ m.type = "snapshot" =>
           Near(p.board, p.drag, c, id, n) /\ Settled(p.board, p.drag, c, id, n)
      /\ Ends(id, m) => p.drag.group # id
      /\ ~Ends(id, m) => (p.drag.group = id <=> d.group = id)

LEMMA AfterSnapshot ==
  ASSUME NEW b \in BoardType, NEW d \in DragType, NEW c \in Guests, NEW id \in Pieces, NEW h,
         NEW m \in SnapshotFrame, Sent(c, id, h, m)
  PROVE  After(m, b, d, c, id, h)
<1> DEFINE p == Reconcile(m, b, d, c)
<1>1. m.type = "snapshot"
  BY DEF SnapshotFrame
<1>2. p.board.groups = Fresh(m) /\ p.drag = NoDrag
  BY <1>1 DEF Reconcile, Plan, ApplySnapshot, Fresh
<1>3. id \in DOMAIN Fresh(m) /\ Told(id, h, m) = HandOn(Fresh(m)[id])
  BY <1>1 DEF Sent, Told
<1> HIDE DEF p
<1>4. p.drag.group # id
  BY <1>2, NoneApart DEF NoDrag
<1>5. Settled(p.board, p.drag, c, id, Told(id, h, m)) /\ Near(p.board, p.drag, c, id, Told(id, h, m))
  BY <1>2, <1>3, <1>4 DEF Settled, Near, HandOn
<1> QED
  BY <1>1, <1>4, <1>5 DEF After, p, Ends

LEMMA AfterHand ==
  ASSUME NEW b \in BoardType, NEW d \in DragType, NEW c \in Guests, NEW id \in Pieces, NEW h,
         NEW m \in HandFrame, Sent(c, id, h, m)
  PROVE  After(m, b, d, c, id, h)
<1> DEFINE p == Reconcile(m, b, d, c)
           n == Told(id, h, m)
<1>1. m.type \in {"grab_result", "group_moved", "released", "held", "error"}
  BY DEF HandFrame
<1>2. SUFFICES /\ Near(b, d, c, id, h) => Near(p.board, p.drag, c, id, n)
               /\ Near(b, d, c, id, h) /\ (HeldBy(id, m) \/ Settled(b, d, c, id, h)) =>
                    Settled(p.board, p.drag, c, id, n)
               /\ HeldBy(id, m) => p.drag.group # id
               /\ ~HeldBy(id, m) => (p.drag.group = id <=> d.group = id)
  BY <1>1 DEF After, Ends
<1>3. ASSUME id \in DOMAIN b.groups PROVE b.groups[id] \in BoardGroup
  BY <1>3, InMap DEF BoardType
<1>4. CASE m.type = "grab_result"
  <2>1. p = ReconcileGrabResult(m, b, d) /\ n = h /\ m.outcome \in {"granted", "held_by"}
    BY <1>4 DEF Reconcile, Told, HandFrame
  <2>2. CASE m.outcome = "granted"
    <3>1. p.board = b /\ p.drag.group = d.group
      BY <2>1, <2>2 DEF ReconcileGrabResult, Plan, DragType
    <3> HIDE DEF p, n
    <3> QED
      BY <2>1, <2>2, <3>1 DEF Near, Settled, HeldBy
  <2>3. CASE m.outcome = "held_by" /\ d.group = m.id
    <3> DEFINE g == [b.groups[m.id] EXCEPT !.heldBy = None, !.position = d.origin]
    <3>1. p.board = Patch(b, m.id, g) /\ p.drag.group = None
      BY <2>1, <2>3 DEF ReconcileGrabResult, Plan, RollbackGrab, NoDrag
    <3>2. ASSUME id \in DOMAIN b.groups
          PROVE  /\ id \in DOMAIN p.board.groups
                 /\ p.board.groups[id] = IF m.id = id THEN g ELSE b.groups[id]
      BY <3>1, <3>2, PatchOne
    <3>3. ASSUME id \in DOMAIN b.groups, m.id = id
          PROVE  p.board.groups[id].heldBy = None /\ p.board.groups[id].locked = b.groups[id].locked
      BY <1>3, <3>2, <3>3 DEF BoardGroup
    <3>4. m.id = id => h.by \notin {None, c}
      BY <1>4, <2>3 DEF Sent, HeldBy
    <3> HIDE DEF p, n, g
    <3>5. CASE m.id = id
      BY <1>4, <2>1, <2>3, <3>1, <3>2, <3>3, <3>4, <3>5, NoneApart DEF Near, Settled, HeldBy
    <3>6. CASE m.id # id
      BY <2>1, <2>3, <3>1, <3>2, <3>6, NoneApart DEF Near, Settled, HeldBy
    <3> QED
      BY <3>5, <3>6
  <2>4. CASE m.outcome = "held_by" /\ d.group # m.id
    <3>1. p.board = b /\ p.drag = d
      BY <2>1, <2>4 DEF ReconcileGrabResult, Plan
    <3>2. m.id = id => h.by \notin {None, c}
      BY <1>4, <2>4 DEF Sent, HeldBy
    <3> HIDE DEF p, n
    <3> QED
      BY <2>1, <2>4, <3>1, <3>2 DEF Near, Settled, HeldBy
  <2> QED
    BY <2>1, <2>2, <2>3, <2>4
<1>5. CASE m.type = "group_moved"
  <2> DEFINE g == [b.groups[m.id] EXCEPT !.position = m.position]
  <2>1. /\ p.board = IF d.group = m.id THEN b ELSE Patch(b, m.id, g)
        /\ p.drag = d /\ n = h /\ ~HeldBy(id, m)
    BY <1>5 DEF Reconcile, ReconcileMoved, ApplyGroupMoved, Plan, Told, HeldBy
  <2>2. ASSUME id \in DOMAIN b.groups
        PROVE  /\ id \in DOMAIN Patch(b, m.id, g).groups
               /\ Patch(b, m.id, g).groups[id] = IF m.id = id THEN g ELSE b.groups[id]
    BY <2>2, PatchOne
  <2>3. ASSUME id \in DOMAIN b.groups, m.id = id
        PROVE  g.heldBy = b.groups[id].heldBy /\ g.locked = b.groups[id].locked
    BY <1>3, <2>3 DEF BoardGroup
  <2>4. m.id = id => h.by # None
    BY <1>5 DEF Sent
  <2> HIDE DEF p, n, g
  <2>5. CASE d.group = m.id
    BY <2>1, <2>5 DEF Near, Settled
  <2>6. CASE d.group # m.id /\ m.id = id
    BY <2>1, <2>2, <2>3, <2>4, <2>6 DEF Near, Settled
  <2>7. CASE d.group # m.id /\ m.id # id
    BY <2>1, <2>2, <2>7 DEF Near, Settled
  <2> QED
    BY <2>5, <2>6, <2>7
<1>6. CASE m.type = "released"
  <2> DEFINE g == [b.groups[m.id] EXCEPT !.heldBy = None, !.position = m.position]
  <2>1. /\ p.board = IF d.group = m.id THEN b ELSE Patch(b, m.id, g)
        /\ p.drag = d /\ ~HeldBy(id, m)
    BY <1>6 DEF Reconcile, ReconcileReleased, ApplyGroupReleased, Plan, HeldBy
  <2>2. ASSUME id \in DOMAIN b.groups
        PROVE  /\ id \in DOMAIN Patch(b, m.id, g).groups
               /\ Patch(b, m.id, g).groups[id] = IF m.id = id THEN g ELSE b.groups[id]
    BY <2>2, PatchOne
  <2>3. ASSUME id \in DOMAIN b.groups, m.id = id
        PROVE  g.heldBy = None /\ g.position = m.position /\ g.locked = b.groups[id].locked
    BY <1>3, <2>3 DEF BoardGroup
  <2>4. n = IF m.id = id THEN [by |-> None, at |-> m.position, locked |-> h.locked] ELSE h
    BY <1>6 DEF Told
  <2> HIDE DEF p, n, g
  <2>5. CASE d.group = m.id
    BY <2>1, <2>4, <2>5 DEF Near, Settled
  <2>6. CASE d.group # m.id /\ m.id = id
    BY <2>1, <2>2, <2>3, <2>4, <2>6 DEF Near, Settled
  <2>7. CASE d.group # m.id /\ m.id # id
    BY <2>1, <2>2, <2>4, <2>7 DEF Near, Settled
  <2> QED
    BY <2>5, <2>6, <2>7
<1>7. CASE m.type = "held"
  <2> DEFINE g == [b.groups[m.id] EXCEPT !.heldBy = m.by]
  <2>1. /\ p.board = IF d.group = m.id /\ m.by = c THEN b ELSE Patch(b, m.id, g)
        /\ p.drag = d /\ ~HeldBy(id, m) /\ m.by \in Guests
    BY <1>7 DEF Reconcile, ReconcileHeld, ApplyGroupHeld, Plan, HeldBy, HandFrame
  <2>2. ASSUME id \in DOMAIN b.groups
        PROVE  /\ id \in DOMAIN Patch(b, m.id, g).groups
               /\ Patch(b, m.id, g).groups[id] = IF m.id = id THEN g ELSE b.groups[id]
    BY <2>2, PatchOne
  <2>3. ASSUME id \in DOMAIN b.groups, m.id = id
        PROVE  g.heldBy = m.by /\ g.locked = b.groups[id].locked
    BY <1>3, <2>3 DEF BoardGroup
  <2>4. n = IF m.id = id THEN [by |-> m.by, at |-> None, locked |-> h.locked] ELSE h
    BY <1>7 DEF Told
  <2> HIDE DEF p, n, g
  <2>5. CASE d.group = m.id /\ m.by = c
    BY <2>1, <2>4, <2>5 DEF Near, Settled
  <2>6. CASE ~(d.group = m.id /\ m.by = c) /\ m.id = id
    BY <2>1, <2>2, <2>3, <2>4, <2>6, NoneApart DEF Near, Settled
  <2>7. CASE ~(d.group = m.id /\ m.by = c) /\ m.id # id
    BY <2>1, <2>2, <2>4, <2>7 DEF Near, Settled
  <2> QED
    BY <2>5, <2>6, <2>7
<1>8. CASE m.type = "error"
  <2>1. p.board = b /\ p.drag = d /\ n = h /\ ~HeldBy(id, m)
    BY <1>8 DEF Reconcile, Plan, Told, HeldBy
  <2> HIDE DEF p, n
  <2> QED
    BY <2>1
<1> QED
  BY <1>1, <1>4, <1>5, <1>6, <1>7, <1>8

LEMMA AfterSnapResult ==
  ASSUME NEW b \in BoardType, NEW d \in DragType, NEW c \in Guests, NEW id \in Pieces, NEW h,
         NEW m \in SnapFrame, Sent(c, id, h, m)
  PROVE  After(m, b, d, c, id, h)
<1> DEFINE p == Reconcile(m, b, d, c)
           n == Told(id, h, m)
           gs == AfterSnap(b, m)
<1>1. m.type = "snap_result" /\ id \notin m.merged
  BY DEF SnapFrame, Sent
<1>2. p.board = [b EXCEPT !.groups = gs, !.scores = ApplyCredits(b, m), !.placed = m.placed]
      /\ p.drag = IF d.group = m.id THEN NoDrag ELSE d
  BY <1>1 DEF Reconcile, ApplySnapResult, AfterDropOf, Plan
<1>3. p.board.groups = gs
  BY <1>2 DEF BoardType
<1>4. /\ id \in DOMAIN gs <=> id = m.id \/ id \in DOMAIN b.groups
      /\ id \in DOMAIN gs => gs[id] = IF id = m.id THEN Landed(m) ELSE b.groups[id]
  BY <1>1 DEF AfterSnap, Put, Without
<1>5. /\ n = IF id = m.id THEN [by |-> None, at |-> m.group.position, locked |-> m.group.locked] ELSE h
      /\ Ends(id, m) <=> id = m.id
  BY <1>1 DEF Told, Ends, HeldBy
<1>6. NoDrag.group # id
  BY NoneApart DEF NoDrag
<1> HIDE DEF p, n, gs
<1>7. CASE id = m.id
  <2>1. /\ Near(p.board, p.drag, c, id, n) /\ Settled(p.board, p.drag, c, id, n)
        /\ p.drag.group # id
    BY <1>2, <1>3, <1>4, <1>5, <1>6, <1>7 DEF Near, Settled, Landed
  <2> QED
    BY <1>1, <1>5, <1>7, <2>1 DEF After, p, n
<1>8. CASE id # m.id
  <2>1. p.drag.group = id <=> d.group = id
    BY <1>2, <1>6, <1>8
  <2>2. /\ Near(b, d, c, id, h) => Near(p.board, p.drag, c, id, n)
        /\ Near(b, d, c, id, h) /\ Settled(b, d, c, id, h) => Settled(p.board, p.drag, c, id, n)
    BY <1>3, <1>4, <1>5, <1>8, <2>1 DEF Near, Settled
  <2> QED
    BY <1>1, <1>5, <1>8, <2>1, <2>2 DEF After, p, n
<1> QED
  BY <1>7, <1>8

\* The frames about the players and the completion say nothing of the groups.
LEMMA AfterNews ==
  ASSUME NEW b \in BoardType, NEW d \in DragType, NEW c \in Guests, NEW id \in Pieces, NEW h,
         NEW m \in RosterFrame \cup DoneFrame
  PROVE  After(m, b, d, c, id, h)
<1> DEFINE p == Reconcile(m, b, d, c)
<1>1. m.type \in {"presence", "completion"} /\ ~Ends(id, m) /\ Told(id, h, m) = h
  BY DEF RosterFrame, DoneFrame, Ends, HeldBy, Told
<1>2. p.board.groups = b.groups /\ p.drag = d
  <2>1. CASE m.type = "completion"
    BY <2>1 DEF Reconcile, ApplyCompletion, Plan, BoardType
  <2>2. CASE m.type = "presence"
    <3>1. p = Plan(ApplyPresence(b, m), d) /\ m.event \in {"joined", "left", "renamed"}
      BY <2>2 DEF Reconcile, RosterFrame, DoneFrame
    <3>2. ApplyPresence(b, m).groups = b.groups
      BY <3>1 DEF ApplyPresence, BoardType
    <3> HIDE DEF p
    <3> QED
      BY <3>1, <3>2 DEF Plan
  <2> QED
    BY <1>1, <2>1, <2>2
<1> HIDE DEF p
<1> QED
  BY <1>1, <1>2 DEF After, p, Near, Settled

LEMMA AfterFrame ==
  ASSUME NEW b \in BoardType, NEW d \in DragType, NEW c \in Guests, NEW id \in Pieces, NEW h,
         NEW m \in DownFrame, Sent(c, id, h, m)
  PROVE  After(m, b, d, c, id, h)
BY AfterSnapshot, AfterHand, AfterSnapResult, AfterNews DEF DownFrame

-----------------------------------------------------------------------------
(* Frames in a row. *)

LEMMA TellsNothing ==
  ASSUME NEW c, NEW id, NEW h
  PROVE  /\ Tells(c, id, h, << >>, h)
         /\ \A w : Tells(c, id, h, << >>, w) => w = h
<1>1. Len(<< >>) = 0
  OBVIOUS
<1>2. Tells(c, id, h, << >>, h)
  <2> DEFINE t == [k \in 0..0 |-> h]
  <2>1. t[0] = h /\ \A k \in 1..0 : t[k] = Told(id, t[k - 1], (<< >>)[k]) /\ Sent(c, id, t[k - 1], (<< >>)[k])
    OBVIOUS
  <2> HIDE DEF t
  <2> QED
    BY <1>1, <2>1 DEF Tells
<1>3. ASSUME NEW w, Tells(c, id, h, << >>, w) PROVE w = h
  BY <1>1, <1>3 DEF Tells
<1> QED
  BY <1>2, <1>3

LEMMA TellsOne ==
  ASSUME NEW c, NEW id, NEW h, NEW m, Sent(c, id, h, m)
  PROVE  Tells(c, id, h, <<m>>, Told(id, h, m))
<1> DEFINE t == [k \in 0..1 |-> IF k = 0 THEN h ELSE Told(id, h, m)]
<1>1. t[0] = h /\ t[1] = Told(id, h, m) /\ \A k \in 1..1 : k = 1 /\ k - 1 = 0
  OBVIOUS
<1>2. Len(<<m>>) = 1 /\ (<<m>>)[1] = m
  OBVIOUS
<1> HIDE DEF t
<1>3. \A k \in 1..1 : t[k] = Told(id, t[k - 1], (<<m>>)[k]) /\ Sent(c, id, t[k - 1], (<<m>>)[k])
  BY <1>1, <1>2
<1> QED
  BY <1>1, <1>2, <1>3 DEF Tells

LEMMA TellsOn ==
  ASSUME NEW c, NEW id, NEW h, NEW w, NEW x, NEW q \in Seq(DownFrame), NEW r \in Seq(DownFrame),
         Tells(c, id, h, q, w), Tells(c, id, w, r, x)
  PROVE  Tells(c, id, h, q \o r, x)
<1> DEFINE m == Len(q)
           n == Len(r)
<1>1. m \in Nat /\ n \in Nat /\ Len(q \o r) = m + n
  BY LenProperties, ConcatProperties
<1>2. /\ \A k \in 1..m : (q \o r)[k] = q[k]
      /\ \A k \in (m + 1)..(m + n) : (q \o r)[k] = r[k - m]
  BY <1>1, ConcatProperties
<1> HIDE DEF m, n
<1>3. PICK s : /\ s[0] = h /\ s[m] = w
               /\ \A k \in 1..m : s[k] = Told(id, s[k - 1], q[k]) /\ Sent(c, id, s[k - 1], q[k])
  BY DEF Tells, m
<1>4. PICK j : /\ j[0] = w /\ j[n] = x
               /\ \A k \in 1..n : j[k] = Told(id, j[k - 1], r[k]) /\ Sent(c, id, j[k - 1], r[k])
  BY DEF Tells, n
<1> DEFINE t == [k \in 0..(m + n) |-> IF k <= m THEN s[k] ELSE j[k - m]]
<1>5. ASSUME NEW k \in 0..m PROVE t[k] = s[k]
  BY <1>1
<1>6. ASSUME NEW k \in m..(m + n) PROVE t[k] = j[k - m]
  <2>1. CASE k = m
    <3>1. k - m = 0 /\ k \in 0..m
      BY <1>1, <2>1
    <3> QED
      BY <1>3, <1>4, <1>5, <2>1, <3>1
  <2>2. CASE k # m
    BY <1>1, <2>2
  <2> QED
    BY <2>1, <2>2
<1> HIDE DEF t
<1>7. t[0] = h /\ t[m + n] = x
  <2>1. 0 \in 0..m /\ m + n \in m..(m + n) /\ (m + n) - m = n
    BY <1>1
  <2> QED
    BY <1>3, <1>4, <1>5, <1>6, <2>1
<1>8. ASSUME NEW k \in 1..(m + n)
      PROVE  t[k] = Told(id, t[k - 1], (q \o r)[k]) /\ Sent(c, id, t[k - 1], (q \o r)[k])
  <2>1. CASE k \in 1..m
    <3>1. k \in 0..m /\ k - 1 \in 0..m
      BY <1>1, <2>1
    <3> QED
      BY <1>2, <1>3, <1>5, <2>1, <3>1
  <2>2. CASE k \notin 1..m
    <3>1. /\ k \in (m + 1)..(m + n) /\ k \in m..(m + n) /\ k - 1 \in m..(m + n)
          /\ k - m \in 1..n /\ (k - 1) - m = (k - m) - 1
      BY <1>1, <2>2
    <3>2. t[k] = j[k - m] /\ t[k - 1] = j[(k - m) - 1]
      BY <1>6, <3>1
    <3> QED
      BY <1>2, <1>4, <3>1, <3>2
  <2> QED
    BY <2>1, <2>2
<1> QED
  BY <1>1, <1>7, <1>8 DEF Tells

LEMMA TellsFromSecond ==
  ASSUME NEW c, NEW id, NEW h, NEW w, NEW q \in Seq(DownFrame), q # << >>, Tells(c, id, h, q, w)
  PROVE  /\ Sent(c, id, h, Head(q))
         /\ Tells(c, id, Told(id, h, Head(q)), Tail(q), w)
<1> DEFINE m == Len(q)
<1>1. /\ m \in Nat \ {0} /\ Head(q) = q[1] /\ Len(Tail(q)) = m - 1
      /\ \A k \in 1..(m - 1) : Tail(q)[k] = q[k + 1]
  BY EmptySeq, HeadTailProperties, LenProperties
<1> HIDE DEF m
<1>2. PICK s : /\ s[0] = h /\ s[m] = w
               /\ \A k \in 1..m : s[k] = Told(id, s[k - 1], q[k]) /\ Sent(c, id, s[k - 1], q[k])
  BY DEF Tells, m
<1> DEFINE t == [k \in 0..(m - 1) |-> s[k + 1]]
<1>3. \A k \in 0..(m - 1) : t[k] = s[k + 1]
  BY <1>1
<1> HIDE DEF t
<1>4. t[0] = Told(id, h, Head(q)) /\ t[m - 1] = w /\ Sent(c, id, h, Head(q))
  <2>1. 0 \in 0..(m - 1) /\ m - 1 \in 0..(m - 1) /\ 0 + 1 = 1 /\ (m - 1) + 1 = m
        /\ 1 \in 1..m /\ 1 - 1 = 0
    BY <1>1
  <2> QED
    BY <1>1, <1>2, <1>3, <2>1
<1>5. ASSUME NEW k \in 1..(m - 1)
      PROVE  t[k] = Told(id, t[k - 1], Tail(q)[k]) /\ Sent(c, id, t[k - 1], Tail(q)[k])
  <2>1. k \in 0..(m - 1) /\ k - 1 \in 0..(m - 1) /\ (k - 1) + 1 = k /\ k + 1 \in 1..m /\ (k + 1) - 1 = k
    BY <1>1
  <2> QED
    BY <1>1, <1>2, <1>3, <2>1
<1>6. Tells(c, id, Told(id, h, Head(q)), Tail(q), w)
  BY <1>1, <1>4, <1>5 DEF Tells
<1> QED
  BY <1>4, <1>6

\* Frames that tell nothing of id.
Beside(c, id, h, m) == Told(id, h, m) = h /\ Sent(c, id, h, m)

LEMMA TellsBeside ==
  ASSUME NEW c, NEW id, NEW h, NEW q, Len(q) \in Nat, \A k \in 1..Len(q) : Beside(c, id, h, q[k])
  PROVE  Tells(c, id, h, q, h)
<1> DEFINE t == [k \in 0..Len(q) |-> h]
<1>1. t[0] = h /\ t[Len(q)] = h
  OBVIOUS
<1>2. \A k \in 1..Len(q) : t[k] = h /\ t[k - 1] = h
  <2> TAKE k \in 1..Len(q)
  <2>1. k \in 0..Len(q) /\ k - 1 \in 0..Len(q)
    OBVIOUS
  <2> QED
    BY <2>1
<1> HIDE DEF t
<1>3. \A k \in 1..Len(q) : t[k] = Told(id, t[k - 1], q[k]) /\ Sent(c, id, t[k - 1], q[k])
  BY <1>2 DEF Beside
<1> QED
  BY <1>1, <1>3 DEF Tells

\* Only a frame that ends a drag of it tells of a lock.
LEMMA LockEnds ==
  ASSUME NEW c, NEW id, NEW h, NEW q, Len(q) \in Nat, NEW w, Tells(c, id, h, q, w),
         h.locked # w.locked
  PROVE  Ending(id, q)
<1>1. PICK t : /\ t[0] = h /\ t[Len(q)] = w
               /\ \A k \in 1..Len(q) : t[k] = Told(id, t[k - 1], q[k]) /\ Sent(c, id, t[k - 1], q[k])
  BY DEF Tells
<1> DEFINE S == {k \in 0..Len(q) : t[k].locked # h.locked}
<1>2. S \in SUBSET Nat /\ Len(q) \in S
  BY <1>1
<1>3. PICK m \in S : \A n \in S : m <= n
  BY <1>2, NatMin
<1>4. m \in 1..Len(q) /\ m - 1 \in 0..Len(q) /\ m - 1 \notin S
  BY <1>1, <1>3
<1>5. t[m].locked # t[m - 1].locked /\ t[m] = Told(id, t[m - 1], q[m])
  BY <1>1, <1>3, <1>4
<1>6. Ends(id, q[m])
  BY <1>5 DEF Told, Ends
<1> QED
  BY <1>4, <1>6 DEF Ending

LEMMA EndingOn ==
  ASSUME NEW id, NEW q \in Seq(DownFrame), NEW r \in Seq(DownFrame)
  PROVE  Ending(id, q) \/ Ending(id, r) => Ending(id, q \o r)
<1> DEFINE m == Len(q)
           n == Len(r)
<1>1. m \in Nat /\ n \in Nat /\ Len(q \o r) = m + n
  BY LenProperties, ConcatProperties
<1>2. /\ \A k \in 1..m : (q \o r)[k] = q[k] /\ k \in 1..(m + n)
      /\ \A k \in 1..n : (q \o r)[m + k] = r[k] /\ m + k \in 1..(m + n)
  BY <1>1, ConcatProperties
<1> QED
  BY <1>1, <1>2 DEF Ending

LEMMA EndingFromSecond ==
  ASSUME NEW id, NEW q \in Seq(DownFrame), q # << >>, Ending(id, q)
  PROVE  Ends(id, Head(q)) \/ Ending(id, Tail(q))
<1>1. /\ Len(q) \in Nat \ {0} /\ Head(q) = q[1] /\ Len(Tail(q)) = Len(q) - 1
      /\ \A k \in 1..(Len(q) - 1) : Tail(q)[k] = q[k + 1]
  BY EmptySeq, HeadTailProperties, LenProperties
<1>2. PICK k \in 1..Len(q) : Ends(id, q[k])
  BY DEF Ending
<1>3. CASE k = 1
  BY <1>1, <1>2, <1>3
<1>4. CASE k # 1
  <2>1. k - 1 \in 1..(Len(q) - 1) /\ (k - 1) + 1 = k
    BY <1>1, <1>4
  <2>2. k - 1 \in 1..Len(Tail(q)) /\ Ends(id, Tail(q)[k - 1])
    BY <1>1, <1>2, <2>1
  <2> QED
    BY <2>2 DEF Ending
<1> QED
  BY <1>3, <1>4

-----------------------------------------------------------------------------
(* What a client has asked of a group, and the referee has not answered.    *)

Asks(m, type, id) == m.type = type /\ m.id = id
GrabIn(u, id) == \E k \in 1..Len(u) : Asks(u[k], "grab", id)
DropIn(u, id) == \E k \in 1..Len(u) : Asks(u[k], "drop", id)
GrabThenDrop(u, id) ==
  \E j, k \in 1..Len(u) : j < k /\ Asks(u[j], "grab", id) /\ Asks(u[k], "drop", id)

LEMMA AskedOn ==
  ASSUME NEW u \in Seq(UpFrame), NEW m \in UpFrame, NEW id
  PROVE  LET v == Append(u, m)
         IN  /\ GrabIn(u, id) => GrabIn(v, id)
             /\ DropIn(u, id) => DropIn(v, id)
             /\ GrabThenDrop(u, id) => GrabThenDrop(v, id)
             /\ Asks(m, "grab", id) => GrabIn(v, id)
             /\ Asks(m, "drop", id) => DropIn(v, id) /\ (GrabIn(u, id) => GrabThenDrop(v, id))
<1> DEFINE v == Append(u, m)
           n == Len(u)
<1>1. /\ n \in Nat /\ Len(v) = n + 1 /\ v[n + 1] = m
      /\ \A k \in 1..n : v[k] = u[k]
  BY LenProperties, AppendProperties
<1>2. n + 1 \in 1..Len(v) /\ \A k \in 1..n : k \in 1..Len(v) /\ k < n + 1
  BY <1>1
<1> HIDE DEF v, n
<1>3. GrabIn(u, id) <=> \E k \in 1..n : Asks(v[k], "grab", id)
  BY <1>1 DEF GrabIn, n
<1>4. DropIn(u, id) <=> \E k \in 1..n : Asks(v[k], "drop", id)
  BY <1>1 DEF DropIn, n
<1>5. GrabThenDrop(u, id) => GrabThenDrop(v, id)
  BY <1>1, <1>2 DEF GrabThenDrop, n
<1>6. Asks(m, "drop", id) => DropIn(v, id) /\ (GrabIn(u, id) => GrabThenDrop(v, id))
  BY <1>1, <1>2, <1>3 DEF DropIn, GrabThenDrop
<1> QED
  BY <1>1, <1>2, <1>3, <1>4, <1>5, <1>6 DEF GrabIn, DropIn, v

LEMMA AskedFromSecond ==
  ASSUME NEW u \in Seq(UpFrame), u # << >>, NEW id
  PROVE  /\ GrabIn(u, id) => Asks(Head(u), "grab", id) \/ GrabIn(Tail(u), id)
         /\ DropIn(u, id) => Asks(Head(u), "drop", id) \/ DropIn(Tail(u), id)
         /\ GrabThenDrop(u, id) =>
              GrabThenDrop(Tail(u), id) \/ (Asks(Head(u), "grab", id) /\ DropIn(Tail(u), id))
<1> DEFINE v == Tail(u)
           n == Len(u)
<1>1. /\ n \in Nat \ {0} /\ Head(u) = u[1] /\ Len(v) = n - 1
      /\ \A k \in 1..(n - 1) : v[k] = u[k + 1]
  BY EmptySeq, HeadTailProperties, LenProperties
<1>2. \A k \in 1..n : k = 1 \/ (k - 1 \in 1..Len(v) /\ v[k - 1] = u[k])
  <2> TAKE k \in 1..n
  <2>1. CASE k # 1
    <3>1. k - 1 \in 1..(n - 1) /\ (k - 1) + 1 = k
      BY <1>1, <2>1
    <3> QED
      BY <1>1, <3>1
  <2> QED
    BY <2>1
<1> HIDE DEF v
<1>3. GrabIn(u, id) => Asks(Head(u), "grab", id) \/ GrabIn(v, id)
  BY <1>1, <1>2 DEF GrabIn
<1>4. DropIn(u, id) => Asks(Head(u), "drop", id) \/ DropIn(v, id)
  BY <1>1, <1>2 DEF DropIn
<1>5. ASSUME GrabThenDrop(u, id)
      PROVE  GrabThenDrop(v, id) \/ (Asks(Head(u), "grab", id) /\ DropIn(v, id))
  <2>1. PICK j, k \in 1..n : j < k /\ Asks(u[j], "grab", id) /\ Asks(u[k], "drop", id)
    BY <1>5 DEF GrabThenDrop
  <2>2. k # 1 /\ k - 1 \in 1..Len(v) /\ v[k - 1] = u[k]
    BY <1>1, <1>2, <2>1
  <2>3. CASE j = 1
    BY <1>1, <2>1, <2>2, <2>3 DEF DropIn
  <2>4. CASE j # 1
    <3>1. j - 1 \in 1..Len(v) /\ v[j - 1] = u[j] /\ j - 1 < k - 1
      BY <1>1, <1>2, <2>1, <2>4
    <3> QED
      BY <2>1, <2>2, <3>1 DEF GrabThenDrop
  <2> QED
    BY <2>3, <2>4
<1> QED
  BY <1>3, <1>4, <1>5 DEF v

-----------------------------------------------------------------------------
(* The invariant. *)

Up(c) == up[Sock(c)]
Down(c) == down[Sock(c)]

\* A drag whose pointer let go is about to be settled by its drop.
Dropping(c, id) == GrabThenDrop(Up(c), id) \/ (DropIn(Up(c), id) /\ HolderOf(id) = c)

\* A drag under the pointer was granted, or is asked for.
Dragging(c, id) ==
  drag[c].group = id /\ grip[c] /\ (GrabIn(Up(c), id) \/ HolderOf(id) = c)

StartsOver(q) == q # << >> /\ Head(q).type = "snapshot"

\* The frames in flight lead to the truth about id from where the board is near it;
\* and the board shows it, or something on its way will make it.
HandInv(c, id) ==
  \E h : /\ Tells(c, id, h, Down(c), Actual(id))
         /\ StartsOver(Down(c)) \/ Near(board[c], drag[c], c, id, h)
         /\ \/ Ending(id, Down(c)) \/ Dropping(c, id) \/ Dragging(c, id)
            \/ Settled(board[c], drag[c], c, id, h)

\* A grant, taken or in flight, is true until a frame that ends the drag.
GrantInv(c, id) ==
  /\ \A k \in 1..Len(Down(c)) : Granted(id, Down(c)[k]) =>
       HolderOf(id) = c \/ \E j \in 1..Len(Down(c)) : j > k /\ Ends(id, Down(c)[j])
  /\ drag[c].group = id /\ drag[c].granted => HolderOf(id) = c \/ Ending(id, Down(c))

GroupInv(c, id) == GrantInv(c, id) /\ (id \in DOMAIN groups => HandInv(c, id))

FedInv(c) ==
  /\ link[c] # "connected" => StartsOver(Down(c))
  /\ \A id \in Pieces : ~Lapsed(c, id) => GroupInv(c, id)

HandsInv == \A c \in Guests : Fed(c) => FedInv(c)

-----------------------------------------------------------------------------
(* Steps of the players. *)

LEMMA FramesIn ==
  ASSUME ClientInv, NEW c \in Guests
  PROVE  Up(c) \in Seq(UpFrame) /\ Down(c) \in Seq(DownFrame) /\ Len(Down(c)) \in Nat
<1>1. Sock(c) \in Sockets
  BY SockIn
<1> QED
  BY <1>1, LenProperties DEF ClientInv, Up, Down

LEMMA StartEnds ==
  ASSUME NEW q \in Seq(DownFrame), StartsOver(q), NEW id
  PROVE  Ending(id, q)
<1>1. Len(q) \in Nat \ {0} /\ Head(q) = q[1]
  BY EmptySeq, LenProperties, HeadTailProperties DEF StartsOver
<1>2. 1 \in 1..Len(q) /\ Ends(id, q[1])
  BY <1>1 DEF StartsOver, Ends
<1> QED
  BY <1>2 DEF Ending

\* A client of which nothing changes, of a referee that does not.
LEMMA FedKept ==
  ASSUME NEW c \in Guests, Fed(c) => FedInv(c), Fed(c)' => Fed(c), UNCHANGED vars,
         board'[c] = board[c], drag'[c] = drag[c], grip'[c] = grip[c],
         Fed(c)' => link'[c] = link[c] /\ cur'[c] = cur[c],
         Fed(c)' => up'[Sock(c)] = up[Sock(c)] /\ down'[Sock(c)] = down[Sock(c)],
         \A id \in Pieces : Lapsed(c, id) => Lapsed(c, id)'
  PROVE  (Fed(c) => FedInv(c))'
<1> SUFFICES ASSUME Fed(c)' PROVE FedInv(c)'
  OBVIOUS
<1>1. /\ Sock(c)' = Sock(c) /\ Up(c)' = Up(c) /\ Down(c)' = Down(c)
      /\ link'[c] = link[c] /\ FedInv(c)
  BY DEF Sock, Up, Down
<1>2. \A id \in Pieces : HolderOf(id)' = HolderOf(id) /\ Actual(id)' = Actual(id)
  BY DEF vars, HolderOf, Actual
<1>3. ASSUME NEW id \in Pieces, ~Lapsed(c, id)' PROVE GroupInv(c, id)'
  <2>1. GroupInv(c, id)
    BY <1>1, <1>3 DEF FedInv
  <2>2. GrantInv(c, id)'
    BY <1>1, <1>2, <2>1 DEF GroupInv, GrantInv
  <2>3. HandInv(c, id) => HandInv(c, id)'
    BY <1>1, <1>2 DEF HandInv, Dropping, Dragging
  <2> QED
    BY <2>1, <2>2, <2>3 DEF GroupInv, vars
<1> QED
  BY <1>1, <1>3 DEF FedInv

\* A step of a client's pointer: what it does to the client's board and drag, and
\* what it sends.
LEMMA PointerKeeps ==
  ASSUME SyncInv, HandsInv, UNCHANGED <<vars, link, cur, srv, down, lapsed>>,
         NEW c \in Guests,
         \A e \in Guests \ {c} : /\ board'[e] = board[e] /\ drag'[e] = drag[e]
                                 /\ grip'[e] = grip[e] /\ up'[Sock(e)] = up[Sock(e)],
         ASSUME Fed(c), NEW id \in Pieces
         PROVE  /\ drag'[c].group = id /\ drag'[c].granted =>
                     drag[c].group = id /\ drag[c].granted
                /\ \A h : Near(board[c], drag[c], c, id, h) =>
                            Near(board'[c], drag'[c], c, id, h)
                /\ \/ Ending(id, Down(c))
                   \/ /\ Dropping(c, id) => Dropping(c, id)'
                      /\ Dragging(c, id) => Dragging(c, id)' \/ Dropping(c, id)'
                      /\ \A h : Near(board[c], drag[c], c, id, h)
                                  /\ Settled(board[c], drag[c], c, id, h) =>
                                \/ Settled(board'[c], drag'[c], c, id, h)
                                \/ Dragging(c, id)'
  PROVE  HandsInv'
<1>1. \A e \in Guests : Sock(e)' = Sock(e) /\ Down(e)' = Down(e) /\ (Fed(e)' <=> Fed(e))
  BY DEF Sock, Down, Fed
<1>2. ASSUME NEW e \in Guests \ {c} PROVE (Fed(e) => FedInv(e))'
  <2>1. Fed(e) => FedInv(e)
    BY DEF HandsInv
  <2>2. \A id \in Pieces : Lapsed(e, id) => Lapsed(e, id)'
    BY DEF Lapsed
  <2> QED
    BY <1>1, <2>1, <2>2, FedKept
<1>3. ASSUME Fed(c)' PROVE FedInv(c)'
  <2>1. Fed(c) /\ FedInv(c)
    BY <1>1, <1>3 DEF HandsInv
  <2>2. \A id \in Pieces : HolderOf(id)' = HolderOf(id) /\ Actual(id)' = Actual(id)
    BY DEF vars, HolderOf, Actual
  <2>3. ASSUME NEW id \in Pieces, ~Lapsed(c, id)' PROVE GroupInv(c, id)'
    <3>1. GroupInv(c, id)
      BY <2>1, <2>3 DEF FedInv, Lapsed
    <3>2. GrantInv(c, id)'
      BY <1>1, <2>1, <2>2, <3>1 DEF GroupInv, GrantInv
    <3>3. ASSUME HandInv(c, id) PROVE HandInv(c, id)'
      <4>1. PICK h : /\ Tells(c, id, h, Down(c), Actual(id))
                     /\ StartsOver(Down(c)) \/ Near(board[c], drag[c], c, id, h)
                     /\ \/ Ending(id, Down(c)) \/ Dropping(c, id) \/ Dragging(c, id)
                        \/ Settled(board[c], drag[c], c, id, h)
        BY <3>3 DEF HandInv
      <4>2. Down(c) \in Seq(DownFrame)
        BY FramesIn DEF SyncInv
      <4>3. /\ StartsOver(Down(c)) \/ Near(board'[c], drag'[c], c, id, h)
            /\ \/ Ending(id, Down(c)) \/ Dropping(c, id)' \/ Dragging(c, id)'
               \/ Settled(board'[c], drag'[c], c, id, h)
        BY <2>1, <4>1, <4>2, StartEnds
      <4>4. Tells(c, id, h, Down(c)', Actual(id)')
        BY <1>1, <2>2, <4>1
      <4> QED
        BY <1>1, <4>3, <4>4 DEF HandInv
    <3> QED
      BY <3>1, <3>2, <3>3 DEF GroupInv, vars
  <2> QED
    BY <1>1, <2>1, <2>3 DEF FedInv
<1> QED
  BY <1>2, <1>3 DEF HandsInv

\* What a client sends is added to what it asked.
LEMMA SentUp ==
  ASSUME ClientInv, NEW c \in Guests, NEW msg \in UpFrame, Send(c, msg), UNCHANGED cur
  PROVE  /\ \A e \in Guests \ {c} : up'[Sock(e)] = up[Sock(e)]
         /\ Fed(c) => Up(c)' = Append(Up(c), msg)
<1>1. up \in [Sockets -> Seq(UpFrame)] /\ Sock(c) \in Sockets /\ Sock(c)' = Sock(c)
  BY SockIn DEF ClientInv, Sock
<1>2. \A e \in Guests \ {c} : Sock(e) # Sock(c)
  BY DEF Sock
<1>3. Fed(c) => link[c] # "down" /\ srv[Sock(c)] # "none"
  BY DEF Fed
<1> QED
  BY <1>1, <1>2, <1>3 DEF Send, Up

LEMMA AskedMore ==
  ASSUME NEW c \in Guests, NEW id \in Pieces, UNCHANGED vars, Up(c) \in Seq(UpFrame),
         \/ Up(c)' = Up(c)
         \/ \E msg \in UpFrame : Up(c)' = Append(Up(c), msg)
  PROVE  /\ Dropping(c, id) => Dropping(c, id)'
         /\ GrabIn(Up(c), id) => GrabIn(Up(c)', id)
<1>1. HolderOf(id)' = HolderOf(id)
  BY DEF vars, HolderOf
<1>2. /\ GrabIn(Up(c), id) => GrabIn(Up(c)', id)
      /\ DropIn(Up(c), id) => DropIn(Up(c)', id)
      /\ GrabThenDrop(Up(c), id) => GrabThenDrop(Up(c)', id)
  BY AskedOn
<1> QED
  BY <1>1, <1>2 DEF Dropping

LEMMA BeginDragHands ==
  ASSUME SyncInv, HandsInv, NEW c \in Guests, NEW i \in Pieces, BeginDrag(c, i)
  PROVE  HandsInv'
<1> DEFINE msg == [type |-> "grab", id |-> i]
           b == board[c]
<1>1. ClientInv /\ b \in BoardType /\ Up(c) \in Seq(UpFrame)
  BY FramesIn DEF SyncInv, ClientInv
<1>2. /\ ~grip[c] /\ MayGrab(b, i, c) /\ Send(c, msg)
      /\ board' = [board EXCEPT ![c] = OptimisticGrab(b, i, c)]
      /\ drag' = [drag EXCEPT ![c] = DragOf(i, b.groups[i].position)]
      /\ grip' = [grip EXCEPT ![c] = TRUE]
      /\ UNCHANGED <<vars, link, cur, srv, down, lapsed>>
  BY DEF BeginDrag, SetBoard, Spend
<1>3. msg \in UpFrame /\ Asks(msg, "grab", i)
  BY DEF UpFrame, Asks
<1> HIDE DEF msg
<1>4. /\ \A e \in Guests \ {c} : up'[Sock(e)] = up[Sock(e)]
      /\ Fed(c) => Up(c)' = Append(Up(c), msg)
  BY <1>1, <1>2, <1>3, SentUp
<1>5. /\ drag'[c].group = i /\ ~drag'[c].granted /\ grip'[c]
      /\ board'[c] = Patch(b, i, [b.groups[i] EXCEPT !.heldBy = c])
  BY <1>1, <1>2 DEF ClientInv, DragOf, OptimisticGrab, Patch, MayGrab
<1>6. \A e \in Guests \ {c} : board'[e] = board[e] /\ drag'[e] = drag[e] /\ grip'[e] = grip[e]
  BY <1>1, <1>2 DEF ClientInv
<1>7. ASSUME Fed(c), NEW id \in Pieces
      PROVE  /\ \A h : Near(b, drag[c], c, id, h) => Near(board'[c], drag'[c], c, id, h)
             /\ Dropping(c, id) => Dropping(c, id)'
             /\ ~Dragging(c, id)
             /\ \A h : Near(b, drag[c], c, id, h) /\ Settled(b, drag[c], c, id, h) =>
                   Settled(board'[c], drag'[c], c, id, h) \/ Dragging(c, id)'
  <2>1. ~Dragging(c, id) /\ (Dropping(c, id) => Dropping(c, id)')
    BY <1>1, <1>2, <1>3, <1>4, <1>7, AskedMore DEF Dragging
  <2>2. ASSUME id \in DOMAIN b.groups
        PROVE  /\ id \in DOMAIN board'[c].groups
               /\ board'[c].groups[id] =
                    IF i = id THEN [b.groups[i] EXCEPT !.heldBy = c] ELSE b.groups[id]
    BY <1>1, <1>5, <2>2, PatchOne
  <2>3. CASE i = id
    <3>1. Dragging(c, id)'
      <4>1. Asks(msg, "grab", id) /\ Up(c)' = Append(Up(c), msg)
        BY <1>3, <1>4, <1>7, <2>3
      <4>2. GrabIn(Up(c)', id)
        BY <1>1, <1>3, <4>1, AskedOn
      <4> QED
        BY <1>5, <2>3, <4>2 DEF Dragging
    <3>2. b.groups[id] \in BoardGroup /\ ~b.groups[id].locked /\ id \in DOMAIN b.groups
      BY <1>1, <1>2, <2>3, InMap DEF BoardType, MayGrab
    <3>3. board'[c].groups[id].heldBy = c /\ board'[c].groups[id].locked = b.groups[id].locked
      BY <2>2, <2>3, <3>2 DEF BoardGroup
    <3>4. \A h : Near(b, drag[c], c, id, h) => Near(board'[c], drag'[c], c, id, h)
      BY <2>2, <3>2, <3>3 DEF Near
    <3> QED
      BY <2>1, <3>1, <3>4
  <2>4. CASE i # id
    <3>1. \A h : /\ Near(b, drag[c], c, id, h) /\ Settled(b, drag[c], c, id, h) =>
                      Settled(board'[c], drag'[c], c, id, h)
                 /\ Near(b, drag[c], c, id, h) => Near(board'[c], drag'[c], c, id, h)
      BY <1>5, <2>2, <2>4 DEF Near, Settled
    <3> QED
      BY <2>1, <3>1
  <2> QED
    BY <2>3, <2>4
<1> QED
  BY <1>2, <1>4, <1>5, <1>6, <1>7, PointerKeeps

\* A change of the place, or the hand, of the group in the drag.
LEMMA LedApart ==
  ASSUME NEW b \in BoardType, NEW d, NEW c \in Guests, NEW g, NEW id \in Pieces, NEW h,
         d.group = id /\ id \in DOMAIN b.groups =>
           g.locked = b.groups[id].locked /\ g.heldBy \in {None, b.groups[id].heldBy}
  PROVE  /\ Near(b, d, c, id, h) => Near(Patch(b, d.group, g), d, c, id, h)
         /\ Near(b, d, c, id, h) /\ Settled(b, d, c, id, h) =>
              Settled(Patch(b, d.group, g), d, c, id, h)
<1>1. ASSUME id \in DOMAIN b.groups
      PROVE  /\ id \in DOMAIN Patch(b, d.group, g).groups
             /\ Patch(b, d.group, g).groups[id] = IF d.group = id THEN g ELSE b.groups[id]
  BY <1>1, PatchOne
<1>2. CASE d.group = id
  BY <1>1, <1>2 DEF Near, Settled
<1>3. CASE d.group # id
  BY <1>1, <1>3 DEF Near, Settled
<1> QED
  BY <1>2, <1>3

LEMMA MovedApart ==
  ASSUME NEW b \in BoardType, NEW d, NEW c \in Guests, NEW pos, NEW id \in Pieces, NEW h
  PROVE  LET n == OptimisticMove(b, d.group, pos)
         IN  /\ Near(b, d, c, id, h) => Near(n, d, c, id, h)
             /\ Near(b, d, c, id, h) /\ Settled(b, d, c, id, h) => Settled(n, d, c, id, h)
<1> DEFINE g == [b.groups[d.group] EXCEPT !.position = pos]
<1>1. ASSUME d.group = id, id \in DOMAIN b.groups
      PROVE  g.locked = b.groups[id].locked /\ g.heldBy = b.groups[id].heldBy
  <2>1. b.groups[id] \in BoardGroup
    BY <1>1, InMap DEF BoardType
  <2> QED
    BY <1>1, <2>1 DEF BoardGroup
<1>2. OptimisticMove(b, d.group, pos) = Patch(b, d.group, g)
  BY DEF OptimisticMove
<1> HIDE DEF g
<1> QED
  BY <1>1, <1>2, LedApart

LEMMA DragToHands ==
  ASSUME SyncInv, HandsInv, NEW c \in Guests, NEW pos \in Passing, DragTo(c, pos)
  PROVE  HandsInv'
<1> DEFINE msg == [type |-> "move", id |-> drag[c].group, position |-> pos]
           b == board[c]
<1>1. ClientInv /\ b \in BoardType /\ Up(c) \in Seq(UpFrame) /\ drag[c] \in DragType
  BY FramesIn DEF SyncInv, ClientInv
<1>2. /\ board' = [board EXCEPT ![c] = OptimisticMove(b, drag[c].group, pos)]
      /\ Send(c, msg) \/ UNCHANGED up
      /\ UNCHANGED <<vars, drag, grip, link, cur, srv, down, lapsed>>
  BY DEF DragTo, SetBoard, Spend
<1>3. msg \in UpFrame
  BY <1>1, SyncAssumption DEF UpFrame, DragType
<1> HIDE DEF msg
<1>4. /\ \A e \in Guests \ {c} : up'[Sock(e)] = up[Sock(e)]
      /\ Fed(c) => Up(c)' = Append(Up(c), msg) \/ Up(c)' = Up(c)
  <2>1. UNCHANGED up => Up(c)' = Up(c)
    BY <1>2 DEF Up, Sock
  <2> QED
    BY <1>1, <1>2, <1>3, <2>1, SentUp
<1>5. board'[c] = OptimisticMove(b, drag[c].group, pos)
      /\ \A e \in Guests \ {c} : board'[e] = board[e]
  BY <1>1, <1>2 DEF ClientInv
<1>6. ASSUME Fed(c), NEW id \in Pieces
      PROVE  /\ Dropping(c, id) => Dropping(c, id)'
             /\ Dragging(c, id) => Dragging(c, id)'
  <2>1. (Dropping(c, id) => Dropping(c, id)') /\ (GrabIn(Up(c), id) => GrabIn(Up(c)', id))
    BY <1>1, <1>2, <1>3, <1>4, <1>6, AskedMore
  <2>2. HolderOf(id)' = HolderOf(id)
    BY <1>2 DEF HolderOf, vars
  <2> QED
    BY <1>2, <2>1, <2>2 DEF Dragging
<1>7. \A id \in Pieces : \A h :
        /\ Near(b, drag[c], c, id, h) => Near(board'[c], drag[c], c, id, h)
        /\ Near(b, drag[c], c, id, h) /\ Settled(b, drag[c], c, id, h) =>
             Settled(board'[c], drag[c], c, id, h)
  BY <1>1, <1>5, MovedApart
<1> QED
  BY <1>2, <1>4, <1>5, <1>6, <1>7, PointerKeeps

LEMMA ChangeNameHands ==
  ASSUME SyncInv, HandsInv, NEW c \in Guests, NEW name \in Names, ChangeName(c, name)
  PROVE  HandsInv'
<1> DEFINE msg == [type |-> "rename", name |-> name]
           b == board[c]
<1>1. ClientInv /\ b \in BoardType /\ Up(c) \in Seq(UpFrame)
  BY FramesIn DEF SyncInv, ClientInv
<1>2. /\ board' = [board EXCEPT ![c] = SetLocalName(b, c, name)]
      /\ Send(c, msg) \/ UNCHANGED up
      /\ UNCHANGED <<vars, drag, grip, link, cur, srv, down, lapsed>>
  BY DEF ChangeName, SetBoard, Spend
<1>3. msg \in UpFrame
  BY DEF UpFrame
<1> HIDE DEF msg
<1>4. /\ \A e \in Guests \ {c} : up'[Sock(e)] = up[Sock(e)]
      /\ Fed(c) => Up(c)' = Append(Up(c), msg) \/ Up(c)' = Up(c)
  <2>1. UNCHANGED up => Up(c)' = Up(c)
    BY <1>2 DEF Up, Sock
  <2> QED
    BY <1>1, <1>2, <1>3, <2>1, SentUp
<1>5. board'[c].groups = b.groups /\ \A e \in Guests \ {c} : board'[e] = board[e]
  <2>1. SetLocalName(b, c, name).groups = b.groups
    BY <1>1 DEF SetLocalName, BoardType
  <2> QED
    BY <1>1, <1>2, <2>1 DEF ClientInv
<1>6. ASSUME Fed(c), NEW id \in Pieces
      PROVE  /\ Dropping(c, id) => Dropping(c, id)'
             /\ Dragging(c, id) => Dragging(c, id)'
  <2>1. (Dropping(c, id) => Dropping(c, id)') /\ (GrabIn(Up(c), id) => GrabIn(Up(c)', id))
    BY <1>1, <1>2, <1>3, <1>4, <1>6, AskedMore
  <2>2. HolderOf(id)' = HolderOf(id)
    BY <1>2 DEF HolderOf, vars
  <2> QED
    BY <1>2, <2>1, <2>2 DEF Dragging
<1>7. \A id \in Pieces : \A h :
        /\ Near(b, drag[c], c, id, h) => Near(board'[c], drag[c], c, id, h)
        /\ Settled(b, drag[c], c, id, h) => Settled(board'[c], drag[c], c, id, h)
  BY <1>5 DEF Near, Settled
<1> QED
  BY <1>2, <1>4, <1>5, <1>6, <1>7, PointerKeeps

LEMMA EndDragHands ==
  ASSUME SyncInv, HandsInv, NEW c \in Guests, NEW pos \in Reports, EndDrag(c, pos)
  PROVE  HandsInv'
<1> DEFINE i == drag[c].group
           msg == [type |-> "drop", id |-> i, position |-> pos]
           b == board[c]
           moved == OptimisticMove(b, i, pos)
<1>1. ClientInv /\ b \in BoardType /\ Up(c) \in Seq(UpFrame) /\ Down(c) \in Seq(DownFrame)
      /\ drag[c] \in DragType
  BY FramesIn DEF SyncInv, ClientInv
<1>2. /\ grip' = [grip EXCEPT ![c] = FALSE]
      /\ UNCHANGED <<vars, link, cur, srv, down, lapsed>>
  BY DEF EndDrag, Free
<1>3. \A id \in Pieces : \A h :
        /\ Near(b, drag[c], c, id, h) => Near(moved, drag[c], c, id, h)
        /\ Near(b, drag[c], c, id, h) /\ Settled(b, drag[c], c, id, h) =>
             Settled(moved, drag[c], c, id, h)
  BY <1>1, MovedApart
<1>4. \A id \in Pieces : HolderOf(id)' = HolderOf(id)
  BY <1>2 DEF HolderOf, vars
<1>5. CASE drag[c] = NoDrag /\ UNCHANGED <<board, drag, up>>
  <2>1. \A id \in Pieces : ~Dragging(c, id)
    BY <1>5, NoneApart DEF Dragging, NoDrag
  <2>2. Up(c)' = Up(c) /\ \A e \in Guests \ {c} : up'[Sock(e)] = up[Sock(e)] /\ grip'[e] = grip[e]
    BY <1>1, <1>2, <1>5 DEF Up, Sock, ClientInv
  <2>3. \A id \in Pieces : Dropping(c, id) => Dropping(c, id)'
    BY <1>1, <1>2, <2>2, AskedMore
  <2> QED
    BY <1>2, <1>5, <2>1, <2>2, <2>3, PointerKeeps
<1>6. CASE /\ link[c] = "connected" /\ SetBoard(c, moved) /\ UNCHANGED drag
           /\ Send(c, msg)
  <2>1. msg \in UpFrame /\ \A id \in Pieces : i = id => Asks(msg, "drop", id)
    BY <1>1, SyncAssumption DEF UpFrame, DragType, Asks
  <2>2. /\ \A e \in Guests \ {c} : up'[Sock(e)] = up[Sock(e)]
        /\ Fed(c) => Up(c)' = Append(Up(c), msg)
    <3> HIDE DEF msg
    <3> QED
      BY <1>1, <1>2, <1>6, <2>1, SentUp
  <2>3. board'[c] = moved /\ \A e \in Guests \ {c} : board'[e] = board[e] /\ grip'[e] = grip[e]
    BY <1>1, <1>2, <1>6 DEF ClientInv, SetBoard
  <2>4. ASSUME Fed(c), NEW id \in Pieces
        PROVE  /\ Dropping(c, id) => Dropping(c, id)'
               /\ Dragging(c, id) => Dropping(c, id)'
    <3> HIDE DEF msg
    <3>1. Dropping(c, id) => Dropping(c, id)'
      BY <1>1, <1>2, <2>1, <2>2, <2>4, AskedMore
    <3>2. ASSUME Dragging(c, id) PROVE Dropping(c, id)'
      <4>1. Asks(msg, "drop", id) /\ Up(c)' = Append(Up(c), msg) /\ msg \in UpFrame
        BY <2>1, <2>2, <2>4, <3>2 DEF Dragging
      <4>2. DropIn(Up(c)', id) /\ (GrabIn(Up(c), id) => GrabThenDrop(Up(c)', id))
        BY <1>1, <4>1, AskedOn
      <4> QED
        BY <1>4, <3>2, <4>2 DEF Dragging, Dropping
    <3> QED
      BY <3>1, <3>2
  <2> HIDE DEF moved
  <2> QED
    BY <1>2, <1>3, <1>6, <2>2, <2>3, <2>4, PointerKeeps
<1>7. CASE /\ link[c] # "connected" /\ SetBoard(c, ReleaseHold(moved, i))
           /\ drag' = [drag EXCEPT ![c] = NoDrag] /\ UNCHANGED up
  <2> DEFINE g == [moved.groups[i] EXCEPT !.heldBy = None]
             n == Patch(moved, i, g)
  <2>1. /\ board'[c] = n /\ drag'[c] = NoDrag
        /\ \A e \in Guests \ {c} : /\ board'[e] = board[e] /\ grip'[e] = grip[e] /\ drag'[e] = drag[e]
                                   /\ up'[Sock(e)] = up[Sock(e)]
    BY <1>1, <1>2, <1>7 DEF ClientInv, SetBoard, ReleaseHold
  <2>2. moved \in BoardType
    <3>1. pos \in Spot /\ None \in Guests \cup {None}
      BY PlaceAssumption DEF Spot
    <3> QED
      BY <1>1, <3>1, HandUnseen DEF OptimisticMove, Unseen
  <2> HIDE DEF moved
  <2>3. ASSUME NEW id \in Pieces, i = id, id \in DOMAIN moved.groups
        PROVE  g.locked = moved.groups[id].locked /\ g.heldBy = None
    <3>1. moved.groups[id] \in BoardGroup
      BY <2>2, <2>3, InMap DEF BoardType
    <3> QED
      BY <2>3, <3>1 DEF BoardGroup
  <2> HIDE DEF g
  <2>4. ASSUME NEW id \in Pieces, NEW h, Near(b, drag[c], c, id, h)
        PROVE  Near(n, drag'[c], c, id, h)
    <3>1. Near(moved, drag[c], c, id, h)
      BY <1>3, <2>4
    <3>2. Near(n, drag[c], c, id, h)
      BY <2>2, <2>3, <3>1, LedApart
    <3> HIDE DEF n
    <3> QED
      BY <2>1, <3>2, NoneApart DEF Near, Settled, NoDrag
  <2>5. Fed(c) => \A id \in Pieces : Ending(id, Down(c))
    BY <1>1, <1>7, StartEnds DEF HandsInv, FedInv
  <2>6. \A id \in Pieces : drag'[c].group # id
    BY <2>1, NoneApart DEF NoDrag
  <2> HIDE DEF n
  <2> QED
    BY <1>2, <2>1, <2>4, <2>5, <2>6, PointerKeeps
<1> QED
  BY <1>5, <1>6, <1>7 DEF EndDrag

-----------------------------------------------------------------------------
(* Steps of a client's socket. *)

LEMMA LoseHands ==
  ASSUME SyncInv, HandsInv, NEW c \in Guests, Lose(c)
  PROVE  HandsInv'
<1>1. ClientInv
  BY DEF SyncInv
<1>2. /\ link' = [link EXCEPT ![c] = "down"]
      /\ down' = [down EXCEPT ![Sock(c)] = << >>]
      /\ \E n \in 0..Len(up[Sock(c)]) : up' = [up EXCEPT ![Sock(c)] = SubSeq(@, 1, n)]
      /\ UNCHANGED <<vars, board, drag, grip, cur, srv, lapsed>>
  BY DEF Lose, clients, Free, Spend
<1>3. ~Fed(c)'
  BY <1>1, <1>2 DEF Fed, ClientInv
<1>4. ASSUME NEW e \in Guests \ {c} PROVE (Fed(e) => FedInv(e))'
  <2>1. Sock(e) # Sock(c) /\ Sock(e) \in Sockets
    BY <1>1, SockIn DEF Sock
  <2>2. /\ link'[e] = link[e] /\ up'[Sock(e)] = up[Sock(e)] /\ down'[Sock(e)] = down[Sock(e)]
        /\ cur'[e] = cur[e]
    BY <1>1, <1>2, <2>1 DEF ClientInv
  <2>3. (Fed(e)' => Fed(e)) /\ \A id \in Pieces : Lapsed(e, id) => Lapsed(e, id)'
    BY <1>2, <2>2 DEF Fed, Sock, Lapsed
  <2>4. Fed(e) => FedInv(e)
    BY DEF HandsInv
  <2> QED
    BY <1>2, <2>2, <2>3, <2>4, FedKept
<1> QED
  BY <1>3, <1>4 DEF HandsInv

LEMMA ConnectHands ==
  ASSUME SyncInv, HandsInv, NEW c \in Guests, Connect(c)
  PROVE  HandsInv'
<1> DEFINE fresh == <<c, 3 - cur[c]>>
<1>1. ClientInv /\ cur[c] \in {1, 2}
  BY DEF SyncInv, ClientInv
<1>2. fresh \in Sockets /\ fresh # Sock(c) /\ Owner(fresh) = c
  BY <1>1 DEF Sockets, Sock, Owner
<1>3. /\ link' = [link EXCEPT ![c] = "joining"] /\ cur' = [cur EXCEPT ![c] = 3 - cur[c]]
      /\ srv' = [srv EXCEPT ![fresh] = "open"]
      /\ up' = [up EXCEPT ![fresh] = <<[type |-> "join"]>>]
      /\ UNCHANGED <<vars, board, drag, grip, down>>
      /\ lapsed' = {l \in lapsed : l[1] # c}
  BY DEF Connect, clients
<1>4. <<c, cur'[c]>> = fresh
  BY <1>1, <1>3 DEF ClientInv
<1>5. ~Fed(c)'
  <2>1. srv'[fresh] = "open"
    BY <1>1, <1>2, <1>3 DEF ClientInv
  <2> QED
    BY <1>4, <2>1 DEF Fed, Sock
<1>6. ASSUME NEW e \in Guests \ {c} PROVE (Fed(e) => FedInv(e))'
  <2>1. Sock(e) # fresh /\ Sock(e) \in Sockets
    BY <1>1, SockIn DEF Sock
  <2>2. /\ link'[e] = link[e] /\ up'[Sock(e)] = up[Sock(e)] /\ down'[Sock(e)] = down[Sock(e)]
        /\ cur'[e] = cur[e] /\ srv'[Sock(e)] = srv[Sock(e)]
    BY <1>1, <1>3, <2>1 DEF ClientInv
  <2>3. Fed(e)' => Fed(e)
    BY <2>2 DEF Fed, Sock
  <2>4. \A id \in Pieces : Lapsed(e, id) => Lapsed(e, id)'
    BY <1>3 DEF Lapsed
  <2>5. Fed(e) => FedInv(e)
    BY DEF HandsInv
  <2> QED
    BY <1>3, <2>2, <2>3, <2>4, <2>5, FedKept
<1> QED
  BY <1>5, <1>6 DEF HandsInv

\* What a frame does to the drag, whatever it says of the group.
LEMMA DragAfter ==
  ASSUME NEW b \in BoardType, NEW d \in DragType, NEW c \in Guests, NEW id \in Pieces,
         NEW m \in DownFrame
  PROVE  LET e == Reconcile(m, b, d, c).drag
         IN  /\ Ends(id, m) => e.group # id
             /\ e.group = id /\ e.granted => d.group = id /\ (d.granted \/ Granted(id, m))
<1> DEFINE e == Reconcile(m, b, d, c).drag
<1>1. m.type \in {"snapshot", "grab_result", "group_moved", "held", "released", "snap_result",
                  "presence", "completion", "error"}
  BY DEF DownFrame, SnapshotFrame, HandFrame, SnapFrame, RosterFrame, DoneFrame
<1>2. NoDrag.group # id
  BY NoneApart DEF NoDrag
<1>3. CASE m.type = "snapshot"
  BY <1>2, <1>3 DEF Reconcile, Plan
<1>4. CASE m.type = "grab_result"
  <2>1. Reconcile(m, b, d, c) = ReconcileGrabResult(m, b, d) /\ m.outcome \in {"granted", "held_by"}
    BY <1>4 DEF Reconcile, DownFrame, SnapshotFrame, HandFrame, SnapFrame, RosterFrame, DoneFrame
  <2>2. CASE m.outcome = "granted"
    <3>1. e = IF d.group = m.id THEN [d EXCEPT !.granted = TRUE] ELSE d
      BY <2>1, <2>2 DEF ReconcileGrabResult, Plan
    <3>2. e.group = d.group /\ (d.group # m.id => e = d) /\ ~Ends(id, m)
      BY <1>4, <2>2, <3>1 DEF DragType, Ends, HeldBy
    <3> HIDE DEF e
    <3> QED
      BY <1>4, <2>2, <3>2 DEF Granted, e
  <2>3. CASE m.outcome = "held_by"
    <3>1. e = IF d.group = m.id THEN NoDrag ELSE d
      BY <2>1, <2>3 DEF ReconcileGrabResult, Plan
    <3> HIDE DEF e
    <3> QED
      BY <1>2, <1>4, <2>3, <3>1 DEF Ends, HeldBy, e
  <2> QED
    BY <2>1, <2>2, <2>3
<1>5. CASE m.type \in {"group_moved", "held", "released", "presence", "completion", "error"}
  <2>1. e = d /\ ~Ends(id, m)
    BY <1>5 DEF Reconcile, Plan, ReconcileMoved, ReconcileHeld, ReconcileReleased, Ends, HeldBy
  <2> HIDE DEF e
  <2> QED
    BY <2>1 DEF e
<1>6. CASE m.type = "snap_result"
  <2>1. e = IF d.group = m.id THEN NoDrag ELSE d
    BY <1>6 DEF Reconcile, Plan, AfterDropOf
  <2> HIDE DEF e
  <2> QED
    BY <1>2, <1>6, <2>1 DEF Ends, HeldBy, e
<1> QED
  BY <1>1, <1>3, <1>4, <1>5, <1>6

LEMMA ReceiveHands ==
  ASSUME SyncInv, HandsInv, NEW c \in Guests, Receive(c)
  PROVE  HandsInv'
<1> DEFINE q == Down(c)
           m == Head(q)
           p == Reconcile(m, board[c], drag[c], c)
<1>1. ClientInv /\ board[c] \in BoardType /\ drag[c] \in DragType /\ q \in Seq(DownFrame)
      /\ Sock(c) \in Sockets
  BY FramesIn, SockIn DEF SyncInv, ClientInv
<1>2. /\ q # << >> /\ down' = [down EXCEPT ![Sock(c)] = Tail(q)]
      /\ board' = [board EXCEPT ![c] = p.board] /\ drag' = [drag EXCEPT ![c] = p.drag]
      /\ link[c] # "down"
      /\ link' = IF m.type = "snapshot" THEN [link EXCEPT ![c] = "connected"] ELSE link
      /\ UNCHANGED <<vars, grip, cur, srv, up, lapsed>>
  BY DEF Receive, SetBoard, Free, Down
<1>3. m \in DownFrame /\ Tail(q) \in Seq(DownFrame)
  BY <1>1, <1>2, HeadTailProperties
<1>4. /\ Len(q) \in Nat \ {0} /\ m = q[1] /\ Len(Tail(q)) = Len(q) - 1
      /\ \A k \in 1..(Len(q) - 1) : Tail(q)[k] = q[k + 1]
  BY <1>1, <1>2, EmptySeq, HeadTailProperties, LenProperties
<1>5. /\ board'[c] = p.board /\ drag'[c] = p.drag /\ Sock(c)' = Sock(c)
      /\ Down(c)' = Tail(q) /\ Up(c)' = Up(c) /\ grip'[c] = grip[c]
  BY <1>1, <1>2 DEF ClientInv, Sock, Down, Up
<1> HIDE DEF p, m, q
<1>6. \A id \in Pieces : HolderOf(id)' = HolderOf(id) /\ Actual(id)' = Actual(id)
  BY <1>2 DEF vars, HolderOf, Actual
<1>7. ASSUME NEW e \in Guests \ {c} PROVE (Fed(e) => FedInv(e))'
  <2>1. Sock(e) # Sock(c) /\ Sock(e) \in Sockets
    BY <1>1, SockIn DEF Sock
  <2>2. /\ link'[e] = link[e] /\ down'[Sock(e)] = down[Sock(e)]
        /\ board'[e] = board[e] /\ drag'[e] = drag[e]
    BY <1>1, <1>2, <2>1 DEF ClientInv
  <2>3. (Fed(e)' => Fed(e)) /\ \A id \in Pieces : Lapsed(e, id) => Lapsed(e, id)'
    BY <1>2, <2>2 DEF Fed, Sock, Lapsed
  <2>4. Fed(e) => FedInv(e)
    BY DEF HandsInv
  <2> QED
    BY <1>2, <2>2, <2>3, <2>4, FedKept
<1>8. ASSUME Fed(c)' PROVE FedInv(c)'
  <2>1. FedInv(c)
    BY <1>2, <1>8 DEF HandsInv, Fed, Sock
  <2>2. link'[c] = "connected"
    BY <1>1, <1>2, <2>1 DEF FedInv, StartsOver, ClientInv, m, q
  <2>3. ASSUME NEW id \in Pieces, GrantInv(c, id) PROVE GrantInv(c, id)'
    <3>1. ASSUME NEW k \in 1..Len(Tail(q)), Granted(id, Tail(q)[k]), HolderOf(id) # c
          PROVE  \E j \in 1..Len(Tail(q)) : j > k /\ Ends(id, Tail(q)[j])
      <4>1. k \in 1..(Len(q) - 1) /\ k + 1 \in 1..Len(q) /\ Granted(id, q[k + 1])
        BY <1>4, <3>1
      <4>2. PICK j \in 1..Len(q) : j > k + 1 /\ Ends(id, q[j])
        BY <2>3, <3>1, <4>1 DEF GrantInv, q
      <4>3. j - 1 \in 1..(Len(q) - 1) /\ (j - 1) + 1 = j /\ j - 1 > k
        BY <1>4, <4>1, <4>2
      <4> QED
        BY <1>4, <4>2, <4>3
    <3>2. ASSUME p.drag.group = id, p.drag.granted, HolderOf(id) # c PROVE Ending(id, Tail(q))
      <4>1. ~Ends(id, m) /\ drag[c].group = id /\ (drag[c].granted \/ Granted(id, m))
        BY <1>1, <1>3, <3>2, DragAfter DEF p
      <4>2. CASE drag[c].granted
        BY <1>1, <1>2, <2>3, <3>2, <4>1, <4>2, EndingFromSecond DEF GrantInv, m, q
      <4>3. CASE Granted(id, m)
        <5>1. PICK j \in 1..Len(q) : j > 1 /\ Ends(id, q[j])
          <6>1. 1 \in 1..Len(q)
            BY <1>4
          <6> QED
            BY <1>4, <2>3, <3>2, <4>3, <6>1 DEF GrantInv, q
        <5>2. j - 1 \in 1..(Len(q) - 1) /\ (j - 1) + 1 = j
          BY <1>4, <5>1
        <5> QED
          BY <1>4, <5>1, <5>2 DEF Ending
      <4> QED
        BY <4>1, <4>2, <4>3
    <3> QED
      BY <1>5, <1>6, <3>1, <3>2 DEF GrantInv
  <2>4. ASSUME NEW id \in Pieces, HandInv(c, id) PROVE HandInv(c, id)'
    <3>1. PICK h : /\ Tells(c, id, h, q, Actual(id))
                   /\ StartsOver(q) \/ Near(board[c], drag[c], c, id, h)
                   /\ \/ Ending(id, q) \/ Dropping(c, id) \/ Dragging(c, id)
                      \/ Settled(board[c], drag[c], c, id, h)
      BY <2>4 DEF HandInv, q
    <3> DEFINE n == Told(id, h, m)
    <3>2. Sent(c, id, h, m) /\ Tells(c, id, n, Tail(q), Actual(id))
      BY <1>1, <1>2, <3>1, TellsFromSecond DEF m
    <3>3. After(m, board[c], drag[c], c, id, h)
      BY <1>1, <1>3, <3>2, AfterFrame
    <3> HIDE DEF n
    <3>4. Near(p.board, p.drag, c, id, n)
      BY <3>1, <3>3 DEF After, StartsOver, p, m, n
    <3>5. (StartsOver(q) \/ Ends(id, m)) => Settled(p.board, p.drag, c, id, n)
      BY <3>1, <3>3 DEF After, StartsOver, p, m, n
    <3>6. Dropping(c, id) => Dropping(c, id)'
      BY <1>5, <1>6 DEF Dropping
    <3>7. ASSUME Dragging(c, id), ~Ends(id, m) PROVE Dragging(c, id)'
      <4>1. p.drag.group = id
        BY <3>3, <3>7 DEF After, p, Dragging
      <4> QED
        BY <1>5, <1>6, <3>7, <4>1 DEF Dragging
    <3>8. ASSUME Settled(board[c], drag[c], c, id, h) PROVE Settled(p.board, p.drag, c, id, n)
      BY <3>1, <3>3, <3>5, <3>8 DEF After, p, n
    <3>9. \/ Ending(id, Tail(q)) \/ Dropping(c, id)' \/ Dragging(c, id)'
          \/ Settled(p.board, p.drag, c, id, n)
      BY <1>1, <1>2, <3>1, <3>5, <3>6, <3>7, <3>8, EndingFromSecond DEF m
    <3>10. Tells(c, id, n, Down(c)', Actual(id)')
      BY <1>5, <1>6, <3>2
    <3> QED
      BY <1>5, <3>4, <3>9, <3>10 DEF HandInv
  <2>5. ASSUME NEW id \in Pieces, ~Lapsed(c, id)' PROVE GroupInv(c, id)'
    <3>1. GroupInv(c, id)
      BY <1>2, <2>1, <2>5 DEF FedInv, Lapsed
    <3> QED
      BY <1>2, <2>3, <2>4, <3>1 DEF GroupInv, vars
  <2> QED
    BY <2>2, <2>5 DEF FedInv
<1> QED
  BY <1>7, <1>8 DEF HandsInv

-----------------------------------------------------------------------------
(* The server speaks. *)

\* What a step owes the client c of the group id: it sends c the frames ms, which
\* tell what the step does to id; and what the client still asks of it is kept, or
\* answered for good.
Served(c, id, ms) ==
  /\ \A k \in 1..Len(ms) : Granted(id, ms[k]) => HolderOf(id)' = c
  /\ HolderOf(id) = c => HolderOf(id)' = c \/ Ending(id, ms)
  /\ id \in DOMAIN groups' =>
       /\ id \in DOMAIN groups /\ Tells(c, id, Actual(id), ms, Actual(id)')
       /\ \/ Ending(id, ms) \/ groups[id].locked
          \/ /\ Dropping(c, id) => Dropping(c, id)'
             /\ Dragging(c, id) => Dragging(c, id)'

LEMMA ServedGroup ==
  ASSUME ClientInv, UNCHANGED <<board, drag, grip, link, cur>>,
         NEW c \in Guests, NEW id \in Pieces, GroupInv(c, id),
         NEW ms \in Seq(DownFrame), Down(c)' = Down(c) \o ms, Served(c, id, ms)
  PROVE  GroupInv(c, id)'
<1> DEFINE q == Down(c)
<1>1. q \in Seq(DownFrame) /\ Len(q) \in Nat /\ Len(ms) \in Nat /\ Len(q \o ms) = Len(q) + Len(ms)
  BY FramesIn, LenProperties, ConcatProperties
<1>2. /\ \A k \in 1..Len(q) : (q \o ms)[k] = q[k]
      /\ \A k \in (Len(q) + 1)..(Len(q) + Len(ms)) : (q \o ms)[k] = ms[k - Len(q)]
  BY <1>1, ConcatProperties
<1> HIDE DEF q
<1>3. GrantInv(c, id)'
  <2>1. ASSUME NEW k \in 1..(Len(q) + Len(ms)), Granted(id, (q \o ms)[k]), HolderOf(id)' # c
        PROVE  \E j \in 1..(Len(q) + Len(ms)) : j > k /\ Ends(id, (q \o ms)[j])
    <3>1. k \in 1..Len(q)
      <4>1. CASE k \notin 1..Len(q)
        <5>1. k \in (Len(q) + 1)..(Len(q) + Len(ms)) /\ k - Len(q) \in 1..Len(ms)
          BY <1>1, <4>1
        <5> QED
          BY <1>2, <2>1, <5>1 DEF Served
      <4> QED
        BY <4>1
    <3>2. HolderOf(id) = c \/ \E j \in 1..Len(q) : j > k /\ Ends(id, q[j])
      BY <1>2, <2>1, <3>1 DEF GroupInv, GrantInv, q
    <3>3. CASE HolderOf(id) = c
      <4>1. PICK j \in 1..Len(ms) : Ends(id, ms[j])
        BY <2>1, <3>3 DEF Served, Ending
      <4>2. /\ Len(q) + j \in (Len(q) + 1)..(Len(q) + Len(ms)) /\ (Len(q) + j) - Len(q) = j
            /\ Len(q) + j \in 1..(Len(q) + Len(ms)) /\ Len(q) + j > k
        BY <1>1, <3>1
      <4>3. Ends(id, (q \o ms)[Len(q) + j])
        BY <1>2, <4>1, <4>2
      <4> QED
        BY <4>2, <4>3
    <3>4. ASSUME NEW j \in 1..Len(q), j > k, Ends(id, q[j])
          PROVE  \E n \in 1..(Len(q) + Len(ms)) : n > k /\ Ends(id, (q \o ms)[n])
      <4>1. j \in 1..(Len(q) + Len(ms))
        BY <1>1
      <4> QED
        BY <1>2, <3>4, <4>1
    <3> QED
      BY <3>2, <3>3, <3>4
  <2>2. ASSUME drag[c].group = id, drag[c].granted, HolderOf(id)' # c
        PROVE  Ending(id, q \o ms)
    <3>1. HolderOf(id) = c \/ Ending(id, q)
      BY <2>2 DEF GroupInv, GrantInv, q
    <3>2. Ending(id, q) \/ Ending(id, ms)
      BY <2>2, <3>1 DEF Served
    <3> QED
      BY <1>1, <3>2, EndingOn
  <2>3. Down(c)' = q \o ms
    BY DEF q
  <2> QED
    BY <1>1, <2>1, <2>2, <2>3 DEF GrantInv
<1>4. ASSUME id \in DOMAIN groups' PROVE HandInv(c, id)'
  <2>1. HandInv(c, id) /\ id \in DOMAIN groups /\ Tells(c, id, Actual(id), ms, Actual(id)')
    BY <1>4 DEF GroupInv, Served
  <2>2. PICK h : /\ Tells(c, id, h, q, Actual(id))
                 /\ StartsOver(q) \/ Near(board[c], drag[c], c, id, h)
                 /\ \/ Ending(id, q) \/ Dropping(c, id) \/ Dragging(c, id)
                    \/ Settled(board[c], drag[c], c, id, h)
    BY <2>1 DEF HandInv, q
  <2> DEFINE x == Actual(id)'
  <2>3. Tells(c, id, Actual(id), ms, x)
    BY <2>1
  <2> HIDE DEF x
  <2>4. Tells(c, id, h, q \o ms, x)
    BY <1>1, <2>2, <2>3, TellsOn
  <2>5. StartsOver(q) => StartsOver(q \o ms) /\ Ending(id, q)
    <3>1. ASSUME StartsOver(q) PROVE StartsOver(q \o ms)
      <4>1. Len(q) # 0
        BY <1>1, <3>1, EmptySeq DEF StartsOver
      <4>2. q \o ms \in Seq(DownFrame) /\ q \o ms # << >> /\ 1 \in 1..Len(q)
        BY <1>1, <4>1, ConcatProperties, EmptySeq
      <4>3. Head(q \o ms) = (q \o ms)[1] /\ Head(q) = q[1]
        BY <1>1, <3>1, <4>2, HeadTailProperties DEF StartsOver
      <4> QED
        BY <1>2, <3>1, <4>2, <4>3 DEF StartsOver
    <3> QED
      BY <1>1, <3>1, StartEnds
  <2>6. groups[id].locked => Ending(id, q) \/ Settled(board[c], drag[c], c, id, h)
    <3>1. CASE h.locked = groups[id].locked
      BY <1>1, <2>2, <2>5, <3>1 DEF Near
    <3>2. CASE h.locked # groups[id].locked
      <4>1. h.locked # Actual(id).locked
        BY <3>2 DEF Actual
      <4> QED
        BY <1>1, <2>2, <4>1, LockEnds
    <3> QED
      BY <3>1, <3>2
  <2>7. \/ Ending(id, q) \/ Ending(id, ms) \/ Dropping(c, id)' \/ Dragging(c, id)'
        \/ Settled(board[c], drag[c], c, id, h)
    BY <1>4, <2>2, <2>6 DEF Served
  <2>8. \/ Ending(id, q \o ms) \/ Dropping(c, id)' \/ Dragging(c, id)'
        \/ Settled(board[c], drag[c], c, id, h)
    BY <1>1, <2>7, EndingOn
  <2>9. Tells(c, id, h, Down(c)', Actual(id)')
    BY <2>4 DEF x, q
  <2>10. Down(c)' = q \o ms /\ board'[c] = board[c] /\ drag'[c] = drag[c]
    BY DEF q
  <2> QED
    BY <2>2, <2>5, <2>8, <2>9, <2>10 DEF HandInv
<1> QED
  BY <1>3, <1>4 DEF GroupInv

\* A client the server serves, and goes on feeding.
LEMMA ServeClient ==
  ASSUME ClientInv, UNCHANGED <<board, drag, grip, link, cur>>, lapsed \subseteq lapsed',
         NEW c \in Guests, FedInv(c),
         NEW ms \in Seq(DownFrame), Down(c)' = Down(c) \o ms,
         \A id \in Pieces : ~Lapsed(c, id)' => Served(c, id, ms)
  PROVE  FedInv(c)'
<1>1. Down(c) \in Seq(DownFrame)
  BY FramesIn
<1>2. ASSUME NEW id \in Pieces, ~Lapsed(c, id)' PROVE GroupInv(c, id)'
  <2>1. GroupInv(c, id)
    BY <1>2 DEF FedInv, Lapsed
  <2> QED
    BY <1>2, <2>1, ServedGroup
<1>3. StartsOver(Down(c)) => StartsOver(Down(c)')
  <2> DEFINE q == Down(c)
             r == q \o ms
  <2>1. q \in Seq(DownFrame) /\ Down(c)' = r
    BY <1>1
  <2> HIDE DEF q, r
  <2>2. ASSUME StartsOver(q) PROVE StartsOver(r)
    <3>1. Len(q) \in Nat \ {0} /\ Len(ms) \in Nat /\ Len(r) = Len(q) + Len(ms) /\ r \in Seq(DownFrame)
      BY <2>1, <2>2, EmptySeq, LenProperties, ConcatProperties DEF StartsOver, r
    <3>2. r # << >> /\ 1 \in 1..Len(q)
      BY <3>1, EmptySeq
    <3>3. r[1] = q[1] /\ Head(r) = r[1] /\ Head(q) = q[1]
      BY <2>1, <2>2, <3>1, <3>2, ConcatProperties, HeadTailProperties DEF StartsOver, r
    <3> QED
      BY <2>2, <3>2, <3>3 DEF StartsOver
  <2> QED
    BY <2>1, <2>2 DEF q
<1> QED
  BY <1>2, <1>3 DEF FedInv

\* Nothing that c asks of id is taken from its frames.
UpKept(c, id) ==
  \/ Up(c)' = Up(c)
  \/ /\ Up(c) # << >> /\ Up(c)' = Tail(Up(c))
     /\ ~Asks(Head(Up(c)), "grab", id) /\ ~Asks(Head(Up(c)), "drop", id)

AsksKept(c, id) ==
  (Dropping(c, id) => Dropping(c, id)') /\ (Dragging(c, id) => Dragging(c, id)')

LEMMA AskedKept ==
  ASSUME NEW c \in Guests, NEW id \in Pieces, Up(c) \in Seq(UpFrame), UpKept(c, id)
  PROVE  /\ GrabIn(Up(c), id) => GrabIn(Up(c)', id)
         /\ DropIn(Up(c), id) => DropIn(Up(c)', id)
         /\ GrabThenDrop(Up(c), id) => GrabThenDrop(Up(c)', id)
BY AskedFromSecond DEF UpKept

LEMMA UpKeptAsks ==
  ASSUME ClientInv, NEW c \in Guests, NEW id \in Pieces, UpKept(c, id), UNCHANGED <<drag, grip>>,
         HolderOf(id)' = HolderOf(id)
  PROVE  AsksKept(c, id)
<1>1. Up(c) \in Seq(UpFrame)
  BY FramesIn
<1>2. /\ GrabIn(Up(c), id) => GrabIn(Up(c)', id)
      /\ DropIn(Up(c), id) => DropIn(Up(c)', id)
      /\ GrabThenDrop(Up(c), id) => GrabThenDrop(Up(c)', id)
  BY <1>1, AskedKept
<1> QED
  BY <1>2 DEF AsksKept, Dropping, Dragging

\* Frames that are not about id.
LEMMA NotAbout ==
  ASSUME NEW c \in Guests, NEW id \in Pieces, NEW h, NEW m, m.type # "snapshot",
         m.type \in {"grab_result", "group_moved", "held", "released", "snap_result"} => m.id # id,
         m.type = "snap_result" => id \notin m.merged
  PROVE  Beside(c, id, h, m) /\ ~Granted(id, m)
BY DEF Beside, Told, Sent, HeldBy, Granted

LEMMA ServedBeside ==
  ASSUME ClientInv, NEW c \in Guests, NEW id \in Pieces, NEW ms \in Seq(DownFrame),
         HolderOf(id)' = HolderOf(id),
         id \in DOMAIN groups' => id \in DOMAIN groups /\ Actual(id)' = Actual(id),
         \A k \in 1..Len(ms) : /\ ~Granted(id, ms[k])
                               /\ id \in DOMAIN groups' => Beside(c, id, Actual(id), ms[k]),
         AsksKept(c, id) \/ (id \in DOMAIN groups => groups[id].locked)
  PROVE  Served(c, id, ms)
<1>1. Len(ms) \in Nat
  BY LenProperties
<1>2. id \in DOMAIN groups' => Tells(c, id, Actual(id), ms, Actual(id))
  BY <1>1, TellsBeside
<1> QED
  BY <1>2 DEF Served, AsksKept

\* What a step that takes a frame of the socket s leaves of a client that is fed.
LEMMA PlayedTo ==
  ASSUME ClientInv, NEW s \in Sockets, Took(s), NEW c \in Guests, srv'[Sock(c)] = srv[Sock(c)],
         Fed(c)'
  PROVE  /\ Fed(c) /\ Sock(c) \in Joined /\ Listening(Sock(c))
         /\ IF Sock(c) = s
              THEN /\ c = Owner(s) /\ Up(c) \in Seq(UpFrame) /\ Up(c) # << >>
                   /\ Head(Up(c)) = Head(up[s]) /\ Up(c)' = Tail(Up(c))
              ELSE Up(c)' = Up(c)
<1>1. Sock(c) \in Sockets /\ Owner(Sock(c)) = c /\ up \in [Sockets -> Seq(UpFrame)]
  BY SockIn DEF ClientInv
<1>2. /\ up[s] # << >> /\ up' = [up EXCEPT ![s] = Tail(up[s])]
      /\ UNCHANGED <<link, cur>>
  BY DEF Took
<1>3. Sock(c)' = Sock(c) /\ srv[Sock(c)] = "joined" /\ link[c] # "down"
  BY <1>2 DEF Fed, Sock
<1>4. Up(c)' = up'[Sock(c)]
  BY <1>3 DEF Up
<1> QED
  BY <1>1, <1>2, <1>3, <1>4 DEF Fed, Joined, Listening, Up

\* What a client that listens finds on its way.
LEMMA DeliveredTo ==
  ASSUME ClientInv, NEW c \in Guests, Listening(Sock(c)), UNCHANGED cur, NEW ss,
         NEW ms \in Seq(DownFrame), down' = Deliverable(ss, ms)
  PROVE  Down(c)' = Down(c) \o (IF Sock(c) \in ss THEN ms ELSE << >>)
<1>1. Sock(c) \in Sockets /\ down[Sock(c)] \in Seq(DownFrame)
  BY SockIn DEF ClientInv
<1>2. Down(c)' = down'[Sock(c)]
  BY DEF Down, Sock
<1> QED
  BY <1>1, <1>2, ConcatEmptySeq DEF Deliverable, Down

\* A step that plays the next frame of the socket s serves every client.
LEMMA PlayedHands ==
  ASSUME SyncInv, HandsInv, NEW s \in Sockets, Took(s), UNCHANGED srv,
         ASSUME NEW c \in Guests, Fed(c), Sock(c) \in Joined, Listening(Sock(c)),
                IF Sock(c) = s
                  THEN /\ c = Owner(s) /\ Up(c) \in Seq(UpFrame) /\ Up(c) # << >>
                       /\ Head(Up(c)) = Head(up[s]) /\ Up(c)' = Tail(Up(c))
                  ELSE Up(c)' = Up(c)
         PROVE  \E ms \in Seq(DownFrame) :
                  /\ Down(c)' = Down(c) \o ms
                  /\ \A id \in Pieces : Served(c, id, ms)
  PROVE  HandsInv'
<1> SUFFICES ASSUME NEW c \in Guests, Fed(c)' PROVE FedInv(c)'
  BY DEF HandsInv
<1>1. ClientInv /\ UNCHANGED <<board, drag, grip, link, cur, lapsed>>
  BY TookIn DEF SyncInv
<1>2. srv'[Sock(c)] = srv[Sock(c)]
  OBVIOUS
<1>3. /\ Fed(c) /\ Sock(c) \in Joined /\ Listening(Sock(c))
      /\ IF Sock(c) = s
           THEN /\ c = Owner(s) /\ Up(c) \in Seq(UpFrame) /\ Up(c) # << >>
                /\ Head(Up(c)) = Head(up[s]) /\ Up(c)' = Tail(Up(c))
           ELSE Up(c)' = Up(c)
  BY <1>1, <1>2, PlayedTo
<1>4. PICK ms \in Seq(DownFrame) :
        Down(c)' = Down(c) \o ms /\ \A id \in Pieces : Served(c, id, ms)
  BY <1>3
<1>5. FedInv(c) /\ lapsed \subseteq lapsed'
  BY <1>1, <1>3 DEF HandsInv
<1> QED
  BY <1>1, <1>4, <1>5, ServeClient

\* Frames that are about no group.
Aside(m) == m.type \in {"error", "presence", "completion"}

LEMMA AsideBeside ==
  ASSUME NEW c \in Guests, NEW id \in Pieces, NEW h, NEW m, Aside(m)
  PROVE  Beside(c, id, h, m) /\ ~Granted(id, m)
BY NotAbout DEF Aside

LEMMA AsideHands ==
  ASSUME SyncInv, HandsInv, NEW s \in Sockets, Took(s), UNCHANGED <<srv, groups, holds>>,
         NEW ss, NEW m \in DownFrame, Aside(m),
         UNCHANGED down \/ down' = Deliverable(ss, <<m>>),
         ASSUME NEW c \in Guests, NEW id \in Pieces, c = Owner(s), Fed(c), Sock(c) \in Joined,
                Up(c) \in Seq(UpFrame), Up(c) # << >>,
                Head(Up(c)) = Head(up[s]), Up(c)' = Tail(Up(c)),
                HolderOf(id)' = HolderOf(id), UNCHANGED <<drag, grip>>
         PROVE  AsksKept(c, id) \/ (id \in DOMAIN groups => groups[id].locked)
  PROVE  HandsInv'
<1>1. ClientInv /\ UNCHANGED <<board, drag, grip, link, cur, lapsed>>
  BY TookIn DEF SyncInv
<1>2. \A id \in Pieces : HolderOf(id)' = HolderOf(id) /\ Actual(id)' = Actual(id)
  BY DEF HolderOf, Actual
<1>3. ASSUME NEW c \in Guests, Fed(c), Sock(c) \in Joined, Listening(Sock(c)),
             IF Sock(c) = s
               THEN /\ c = Owner(s) /\ Up(c) \in Seq(UpFrame) /\ Up(c) # << >>
                    /\ Head(Up(c)) = Head(up[s]) /\ Up(c)' = Tail(Up(c))
               ELSE Up(c)' = Up(c)
      PROVE  \E ms \in Seq(DownFrame) :
               /\ Down(c)' = Down(c) \o ms
               /\ \A id \in Pieces : Served(c, id, ms)
  <2> DEFINE one == <<m>>
  <2>1. one \in Seq(DownFrame) /\ Len(one) = 1 /\ \A k \in 1..1 : one[k] = m
    OBVIOUS
  <2>2. << >> \in Seq(DownFrame) /\ Len(<< >>) = 0
    BY EmptySeq
  <2>3. Down(c)' = Down(c) \o one \/ Down(c)' = Down(c) \o << >>
    <3>1. CASE UNCHANGED down
      <4>1. Down(c) \in Seq(DownFrame) /\ Down(c)' = Down(c)
        BY <1>1, <3>1, FramesIn DEF Down, Sock
      <4> QED
        BY <4>1, ConcatEmptySeq
    <3>2. CASE down' = Deliverable(ss, one)
      <4> HIDE DEF one
      <4> QED
        BY <1>1, <1>3, <2>1, <3>2, DeliveredTo
    <3> QED
      BY <3>1, <3>2
  <2> HIDE DEF one
  <2>4. PICK ms \in {one, << >>} : Down(c)' = Down(c) \o ms
    BY <2>3
  <2>5. ms \in Seq(DownFrame) /\ \A k \in 1..Len(ms) : Aside(ms[k])
    <3>1. CASE ms = one
      BY <2>1, <3>1
    <3>2. CASE ms = << >>
      BY <2>2, <3>2
    <3> QED
      BY <3>1, <3>2
  <2>6. ASSUME NEW id \in Pieces PROVE Served(c, id, ms)
    <3>1. AsksKept(c, id) \/ (id \in DOMAIN groups => groups[id].locked)
      <4>1. CASE Sock(c) = s
        BY <1>1, <1>2, <1>3, <4>1
      <4>2. CASE Sock(c) # s
        <5>1. UpKept(c, id)
          BY <1>3, <4>2 DEF UpKept
        <5> QED
          BY <1>1, <1>2, <5>1, UpKeptAsks
      <4> QED
        BY <4>1, <4>2
    <3>2. \A k \in 1..Len(ms) : ~Granted(id, ms[k]) /\ Beside(c, id, Actual(id), ms[k])
      BY <2>5, AsideBeside
    <3> QED
      BY <1>1, <1>2, <2>5, <3>1, <3>2, ServedBeside
  <2> QED
    BY <2>4, <2>5, <2>6
<1> QED
  BY <1>3, PlayedHands

-----------------------------------------------------------------------------
(* What the server does. *)

LEMMA SomeoneHolds ==
  ASSUME IInv, NEW id \in DOMAIN holds
  PROVE  /\ id \in Pieces /\ id \in DOMAIN groups /\ ~groups[id].locked /\ status # "completed"
         /\ HolderOf(id) = holds[id].holder /\ HolderOf(id) \in connected /\ HolderOf(id) # None
<1>1. /\ id \in DOMAIN groups /\ ~groups[id].locked /\ holds[id].holder \in connected
      /\ connected \subseteq Guests /\ DOMAIN groups \subseteq Pieces
  BY DEF IInv, TypeOK, HoldsAreLive
<1>2. status # "completed"
  BY <1>1 DEF IInv, CompletedWhenAllLocked, AllLocked
<1> QED
  BY <1>1, <1>2, NoneApart DEF HolderOf

LEMMA OwnerConnected ==
  ASSUME ClientInv, WireInv, NEW s \in Sockets, srv[s] = "joined"
  PROVE  Owner(s) \in Guests /\ Owner(s) \in connected
BY DEF WireInv, Joined, Owner, Sockets

LEMMA TwoFrames ==
  ASSUME NEW a \in DownFrame, NEW b \in DownFrame
  PROVE  <<a, b>> = <<a>> \o <<b>>
<1> DEFINE q == <<a>>
           r == <<b>>
           w == <<a, b>>
<1>1. /\ q \in Seq(DownFrame) /\ Len(q) = 1 /\ q[1] = a
      /\ r \in Seq(DownFrame) /\ Len(r) = 1 /\ r[1] = b
      /\ w \in Seq(DownFrame) /\ Len(w) = 2 /\ w[1] = a /\ w[2] = b
  OBVIOUS
<1> HIDE DEF q, r, w
<1>2. /\ q \o r \in Seq(DownFrame) /\ Len(q \o r) = 2
      /\ (q \o r)[1] = a /\ (q \o r)[2] = b
  BY <1>1, ConcatProperties
<1>3. w = q \o r
  BY <1>1, <1>2, SeqEqual
<1> QED
  BY <1>3 DEF q, r, w

\* A grab is granted: everyone is told who holds the group, and the asker that it does.
LEMMA GrantedHands ==
  ASSUME SyncInv, HandsInv, NEW s \in Sockets, Took(s), UNCHANGED srv, srv[s] = "joined",
         NEW i, Asks(Head(up[s]), "grab", i), Grab(Owner(s), i),
         down' = [t \in Sockets |->
                    IF t = s /\ Listening(s)
                      THEN down[s] \o <<HeldMsg(i, Owner(s)), GrabResult(i, "granted")>>
                      ELSE Deliverable(Joined, <<HeldMsg(i, Owner(s))>>)[t]]
  PROVE  HandsInv'
<1> DEFINE g == Owner(s)
           told == HeldMsg(i, g)
           grant == GrabResult(i, "granted")
<1>1. /\ ClientInv /\ IInv /\ WireInv /\ g \in Guests
      /\ UNCHANGED <<board, drag, grip, link, cur, lapsed>>
  BY TookIn DEF SyncInv
<1>2. /\ i \in Pieces /\ i \in DOMAIN groups /\ UNCHANGED groups
      /\ i \in DOMAIN holds => holds[i].holder = g
      /\ DOMAIN holds' = DOMAIN holds \cup {i}
      /\ \A id \in DOMAIN holds' : holds'[id].holder = IF id = i THEN g ELSE holds[id].holder
  BY <1>1 DEF Grab, Playable, SetHold, IInv, TypeOK
<1>3. HolderOf(i) \in {None, g} /\ HolderOf(i)' = g /\ g # None
  BY <1>1, <1>2, NoneApart DEF HolderOf
<1>4. \A id \in Pieces \ {i} : HolderOf(id)' = HolderOf(id) /\ Actual(id)' = Actual(id)
  BY <1>2 DEF HolderOf, Actual
<1>5. Actual(i)' = [by |-> g, at |-> None, locked |-> Actual(i).locked]
  BY <1>2, <1>3 DEF Actual
<1>6. /\ told \in DownFrame /\ grant \in DownFrame
      /\ told.type = "held" /\ told.id = i /\ told.by = g
      /\ grant.type = "grab_result" /\ grant.id = i /\ grant.outcome = "granted"
  BY <1>1, <1>2 DEF HeldMsg, GrabResult, DownFrame, HandFrame
<1>7. /\ down' = [t \in Sockets |->
                    IF t = s /\ Listening(s) THEN down[s] \o <<told, grant>>
                    ELSE IF t \in Joined /\ Listening(t) THEN down[t] \o <<told>> ELSE down[t]]
  BY DEF Deliverable
<1> HIDE DEF told, grant
<1>8. /\ <<told>> \in Seq(DownFrame) /\ <<grant>> \in Seq(DownFrame)
      /\ <<told, grant>> \in Seq(DownFrame) /\ <<told, grant>> = <<told>> \o <<grant>>
      /\ Len(<<told>>) = 1 /\ Len(<<told, grant>>) = 2
      /\ <<told>>[1] = told /\ <<told, grant>>[1] = told /\ <<told, grant>>[2] = grant
  <2>1. told \in DownFrame /\ grant \in DownFrame
    BY <1>6
  <2>2. <<told>> \in Seq(DownFrame) /\ <<grant>> \in Seq(DownFrame) /\ <<told, grant>> \in Seq(DownFrame)
    BY <2>1
  <2>3. <<told, grant>> = <<told>> \o <<grant>>
    BY <2>1, TwoFrames
  <2>4. /\ Len(<<told>>) = 1 /\ Len(<<told, grant>>) = 2
        /\ <<told>>[1] = told /\ <<told, grant>>[1] = told /\ <<told, grant>>[2] = grant
    OBVIOUS
  <2> QED
    BY <2>2, <2>3, <2>4
<1>9. \A id \in Pieces : ~Granted(id, told)
  BY <1>6 DEF Granted
<1>10. \A c \in Guests, id \in Pieces : id # i =>
         /\ Beside(c, id, Actual(id), told) /\ Beside(c, id, Actual(id), grant)
         /\ ~Granted(id, grant)
  BY <1>6, NotAbout
<1>11. ASSUME NEW c \in Guests
       PROVE  /\ Tells(c, i, Actual(i), <<told>>, Actual(i)')
              /\ Tells(c, i, Actual(i), <<told, grant>>, Actual(i)')
  <2> DEFINE h == Actual(i)
             n == Actual(i)'
  <2>1. Sent(c, i, h, told) /\ Told(i, h, told) = n
    BY <1>5, <1>6 DEF Sent, Told, HeldBy
  <2>2. Sent(c, i, n, grant) /\ Told(i, n, grant) = n
    BY <1>6 DEF Sent, Told, HeldBy
  <2> HIDE DEF h, n
  <2>3. Tells(c, i, h, <<told>>, n) /\ Tells(c, i, n, <<grant>>, n)
    BY <2>1, <2>2, TellsOne
  <2>4. Tells(c, i, h, <<told>> \o <<grant>>, n)
    BY <1>8, <2>3, TellsOn
  <2> QED
    BY <1>8, <2>3, <2>4 DEF h, n
<1>12. ASSUME NEW c \in Guests, Fed(c), Sock(c) \in Joined, Listening(Sock(c)),
              IF Sock(c) = s
                THEN /\ c = Owner(s) /\ Up(c) \in Seq(UpFrame) /\ Up(c) # << >>
                     /\ Head(Up(c)) = Head(up[s]) /\ Up(c)' = Tail(Up(c))
                ELSE Up(c)' = Up(c)
       PROVE  \E ms \in Seq(DownFrame) :
                /\ Down(c)' = Down(c) \o ms
                /\ \A id \in Pieces : Served(c, id, ms)
  <2>1. Sock(c) \in Sockets /\ Owner(Sock(c)) = c /\ Down(c)' = down'[Sock(c)]
    BY <1>1, SockIn DEF Down, Sock
  <2>2. CASE Sock(c) = s
    <3>1. Down(c)' = Down(c) \o <<told, grant>>
      BY <1>7, <1>12, <2>1, <2>2 DEF Down
    <3>2. ASSUME NEW id \in Pieces PROVE Served(c, id, <<told, grant>>)
      <4>1. CASE id # i
        <5>1. UpKept(c, id)
          BY <1>12, <2>2, <4>1 DEF UpKept, Asks
        <5>2. AsksKept(c, id)
          BY <1>1, <1>4, <4>1, <5>1, UpKeptAsks
        <5>3. \A k \in 1..Len(<<told, grant>>) :
                /\ ~Granted(id, <<told, grant>>[k])
                /\ Beside(c, id, Actual(id), <<told, grant>>[k])
          BY <1>8, <1>9, <1>10, <4>1
        <5> QED
          BY <1>1, <1>2, <1>4, <1>8, <4>1, <5>2, <5>3, ServedBeside
      <4>2. CASE id = i
        <5>1. HolderOf(id)' = c
          BY <1>3, <1>12, <2>2, <4>2
        <5>2. AsksKept(c, id)
          <6>1. /\ DropIn(Up(c), id) => DropIn(Tail(Up(c)), id)
                /\ GrabThenDrop(Up(c), id) =>
                     GrabThenDrop(Tail(Up(c)), id) \/ DropIn(Tail(Up(c)), id)
            <7>1. ~Asks(Head(Up(c)), "drop", id)
              BY <1>12, <2>2 DEF Asks
            <7> QED
              BY <1>12, <2>2, <7>1, AskedFromSecond
          <6>2. Up(c)' = Tail(Up(c))
            BY <1>12, <2>2
          <6> QED
            BY <1>1, <5>1, <6>1, <6>2 DEF AsksKept, Dropping, Dragging
        <5> QED
          BY <1>2, <1>11, <4>2, <5>1, <5>2 DEF Served, AsksKept
      <4> QED
        BY <4>1, <4>2
    <3> QED
      BY <1>8, <3>1, <3>2
  <2>3. CASE Sock(c) # s
    <3>1. Down(c)' = Down(c) \o <<told>>
      BY <1>7, <1>12, <2>1, <2>3 DEF Down
    <3>2. UpKept(c, i) /\ \A id \in Pieces : UpKept(c, id)
      BY <1>12, <2>3 DEF UpKept
    <3>3. ASSUME NEW id \in Pieces PROVE Served(c, id, <<told>>)
      <4>1. CASE id # i
        <5>1. AsksKept(c, id)
          BY <1>1, <1>4, <3>2, <4>1, UpKeptAsks
        <5>2. \A k \in 1..Len(<<told>>) :
                ~Granted(id, <<told>>[k]) /\ Beside(c, id, Actual(id), <<told>>[k])
          BY <1>8, <1>9, <1>10, <4>1
        <5> QED
          BY <1>1, <1>2, <1>4, <1>8, <4>1, <5>1, <5>2, ServedBeside
      <4>2. CASE id = i
        <5>1. HolderOf(id) = c => HolderOf(id)' = c
          BY <1>3, <4>2, NoneApart
        <5>2. AsksKept(c, id)
          <6>1. Up(c)' = Up(c)
            BY <1>12, <2>3
          <6> QED
            BY <1>1, <5>1, <6>1 DEF AsksKept, Dropping, Dragging
        <5>3. \A k \in 1..Len(<<told>>) : ~Granted(id, <<told>>[k])
          BY <1>8, <1>9
        <5> QED
          BY <1>2, <1>11, <4>2, <5>1, <5>2, <5>3 DEF Served, AsksKept
      <4> QED
        BY <4>1, <4>2
    <3> QED
      BY <1>8, <3>1, <3>3
  <2> QED
    BY <2>2, <2>3
<1> QED
  BY <1>12, PlayedHands

\* A grab is refused: the asker alone is told that another guest has the group.
LEMMA RefusedHands ==
  ASSUME SyncInv, HandsInv, NEW s \in Sockets, Took(s), UNCHANGED <<srv, vars>>,
         NEW i, Asks(Head(up[s]), "grab", i), i \in DOMAIN holds, holds[i].holder # Owner(s),
         down' = Deliverable({s}, <<GrabResult(i, "held_by")>>)
  PROVE  HandsInv'
<1> DEFINE m == GrabResult(i, "held_by")
<1>1. ClientInv /\ IInv /\ UNCHANGED <<board, drag, grip, link, cur, lapsed>>
  BY TookIn DEF SyncInv
<1>2. i \in Pieces /\ HolderOf(i) \notin {None, Owner(s)}
  BY <1>1, SomeoneHolds
<1>3. \A id \in Pieces : HolderOf(id)' = HolderOf(id) /\ Actual(id)' = Actual(id)
  BY DEF vars, HolderOf, Actual
<1>4. m \in DownFrame /\ m.type = "grab_result" /\ m.id = i /\ m.outcome = "held_by"
  BY <1>2 DEF GrabResult, DownFrame, HandFrame
<1>5. down' = Deliverable({s}, <<m>>)
  OBVIOUS
<1> HIDE DEF m
<1>6. /\ <<m>> \in Seq(DownFrame) /\ Len(<<m>>) = 1 /\ <<m>>[1] = m
      /\ << >> \in Seq(DownFrame) /\ Len(<< >>) = 0
  BY <1>4, EmptySeq
<1>7. ASSUME NEW c \in Guests, NEW id \in Pieces, c = Owner(s) \/ id # i
      PROVE  Beside(c, id, Actual(id), m) /\ ~Granted(id, m)
  <2>1. Told(id, Actual(id), m) = Actual(id) /\ ~Granted(id, m)
    BY <1>4 DEF Told, Granted
  <2>2. id = i => Actual(id).by \notin {None, c}
    BY <1>2, <1>7 DEF Actual
  <2>3. Sent(c, id, Actual(id), m)
    BY <1>4, <2>2 DEF Sent, HeldBy
  <2> QED
    BY <2>1, <2>3 DEF Beside
<1>8. ASSUME NEW c \in Guests, Fed(c), Sock(c) \in Joined, Listening(Sock(c)),
             IF Sock(c) = s
               THEN /\ c = Owner(s) /\ Up(c) \in Seq(UpFrame) /\ Up(c) # << >>
                    /\ Head(Up(c)) = Head(up[s]) /\ Up(c)' = Tail(Up(c))
               ELSE Up(c)' = Up(c)
      PROVE  \E ms \in Seq(DownFrame) :
               /\ Down(c)' = Down(c) \o ms
               /\ \A id \in Pieces : Served(c, id, ms)
  <2>1. Down(c)' = Down(c) \o (IF Sock(c) \in {s} THEN <<m>> ELSE << >>)
    BY <1>1, <1>5, <1>6, <1>8, DeliveredTo
  <2>2. CASE Sock(c) = s
    <3>1. ASSUME NEW id \in Pieces PROVE Served(c, id, <<m>>)
      <4>1. \A k \in 1..Len(<<m>>) :
              ~Granted(id, <<m>>[k]) /\ Beside(c, id, Actual(id), <<m>>[k])
        BY <1>6, <1>7, <1>8, <2>2
      <4>2. CASE id # i
        <5>1. UpKept(c, id)
          BY <1>8, <2>2, <4>2 DEF UpKept, Asks
        <5>2. AsksKept(c, id)
          BY <1>1, <1>3, <5>1, UpKeptAsks
        <5> QED
          BY <1>1, <1>3, <1>6, <4>1, <5>2, ServedBeside DEF vars
      <4>3. CASE id = i
        <5>1. Ending(id, <<m>>)
          BY <1>4, <1>6, <4>3 DEF Ending, Ends, HeldBy
        <5>2. Tells(c, id, Actual(id), <<m>>, Actual(id))
          BY <1>6, <4>1, TellsBeside
        <5> QED
          BY <1>3, <4>1, <5>1, <5>2 DEF Served, vars
      <4> QED
        BY <4>2, <4>3
    <3> QED
      BY <1>6, <2>1, <2>2, <3>1
  <2>3. CASE Sock(c) # s
    <3>1. ASSUME NEW id \in Pieces PROVE Served(c, id, << >>)
      <4>1. UpKept(c, id)
        BY <1>8, <2>3 DEF UpKept
      <4>2. AsksKept(c, id)
        BY <1>1, <1>3, <4>1, UpKeptAsks
      <4>3. \A k \in 1..Len(<< >>) :
              ~Granted(id, (<< >>)[k]) /\ Beside(c, id, Actual(id), (<< >>)[k])
        BY <1>6
      <4>4. HolderOf(id)' = HolderOf(id) /\ Actual(id)' = Actual(id) /\ groups' = groups
        BY <1>3 DEF vars
      <4> QED
        BY <1>1, <1>6, <4>2, <4>3, <4>4, ServedBeside
    <3> QED
      BY <1>6, <2>1, <2>3, <3>1
  <2> QED
    BY <2>2, <2>3
<1> QED
  BY <1>8, PlayedHands

LEMMA HandleGrabHands ==
  ASSUME SyncInv, HandsInv, NEW s \in Sockets, HandleGrab(s)
  PROVE  HandsInv'
<1> DEFINE g == Owner(s)
           i == Head(up[s]).id
<1>1. Took(s) /\ srv[s] = "joined" /\ UNCHANGED srv /\ Asks(Head(up[s]), "grab", i)
  BY DEF HandleGrab, Played, Frame1, Asks
<1>2. CASE /\ Grab(g, i)
           /\ down' = [t \in Sockets |->
                         IF t = s /\ Listening(s)
                           THEN down[s] \o <<HeldMsg(i, g), GrabResult(i, "granted")>>
                           ELSE Deliverable(Joined, <<HeldMsg(i, g)>>)[t]]
  BY <1>1, <1>2, GrantedHands
<1>3. CASE /\ Playable(g, i) /\ i \in DOMAIN holds /\ holds[i].holder # g
           /\ down' = Deliverable({s}, <<GrabResult(i, "held_by")>>)
           /\ UNCHANGED vars
  BY <1>1, <1>3, RefusedHands
<1>4. CASE ~Playable(g, i) /\ down' = Deliverable({s}, <<ErrorMsg>>) /\ UNCHANGED vars
  <2>1. ErrorMsg \in DownFrame /\ Aside(ErrorMsg)
    BY DEF ErrorMsg, DownFrame, HandFrame, Aside
  <2>2. ClientInv /\ IInv /\ WireInv
    BY DEF SyncInv
  <2>3. i \in DOMAIN groups => groups[i].locked
    <3>1. g \in connected
      BY <1>1, <2>2, OwnerConnected
    <3> QED
      BY <1>4, <2>2, <3>1 DEF Playable, IInv, CompletedWhenAllLocked, AllLocked
  <2>4. ASSUME NEW c \in Guests, NEW id \in Pieces, Up(c) # << >>, Head(Up(c)) = Head(up[s]),
               Up(c)' = Tail(Up(c)), HolderOf(id)' = HolderOf(id), UNCHANGED <<drag, grip>>
        PROVE  AsksKept(c, id) \/ (id \in DOMAIN groups => groups[id].locked)
    <3>1. CASE id # i
      <4>1. UpKept(c, id)
        BY <1>1, <2>4, <3>1 DEF UpKept, Asks
      <4> QED
        BY <2>2, <2>4, <4>1, UpKeptAsks
    <3>2. CASE id = i
      BY <2>3, <3>2
    <3> QED
      BY <3>1, <3>2
  <2>5. UNCHANGED <<srv, groups, holds>>
    BY <1>1, <1>4 DEF vars
  <2> HIDE DEF g, i
  <2> QED
    BY <1>1, <1>4, <2>1, <2>4, <2>5, AsideHands
<1> QED
  BY <1>2, <1>3, <1>4 DEF HandleGrab

\* A move is told to the others; of a held group nobody is told where it lies.
LEMMA HandleMoveHands ==
  ASSUME SyncInv, HandsInv, NEW s \in Sockets, HandleMove(s)
  PROVE  HandsInv'
<1> DEFINE g == Owner(s)
           msg == Head(up[s])
           m == [type |-> "group_moved", id |-> msg.id, position |-> msg.position]
<1>1. /\ ClientInv /\ IInv /\ WireInv /\ UNCHANGED <<board, drag, grip, link, cur, lapsed>>
      /\ Took(s) /\ srv[s] = "joined" /\ UNCHANGED srv /\ msg.type = "move" /\ msg \in UpFrame
  BY TookIn DEF SyncInv, HandleMove, Played, Frame1
<1>2. ASSUME NEW c \in Guests, NEW id \in Pieces, Up(c) # << >>, Head(Up(c)) = msg,
             Up(c)' = Tail(Up(c))
      PROVE  UpKept(c, id)
  BY <1>1, <1>2 DEF UpKept, Asks
<1>3. CASE Move(g, msg.id, msg.position) /\ down' = Deliverable(Joined \ {s}, <<m>>)
  <2>1. /\ msg.id \in DOMAIN groups /\ msg.id \in Pieces /\ msg.id \in DOMAIN holds
        /\ groups' = [groups EXCEPT ![msg.id].position = msg.position]
        /\ holds' = [holds EXCEPT ![msg.id].lastActivityAt = now]
    BY <1>1, <1>3 DEF Move, HolderMutation, Playable, IInv, TypeOK
  <2>2. /\ DOMAIN holds' = DOMAIN holds /\ DOMAIN groups' = DOMAIN groups
        /\ \A id \in DOMAIN holds : holds'[id].holder = holds[id].holder
        /\ \A id \in DOMAIN groups : groups'[id].locked = groups[id].locked
        /\ \A id \in DOMAIN groups \ {msg.id} : groups'[id] = groups[id]
    BY <1>1, <2>1 DEF IInv, TypeOK, Hold, Group
  <2>3. HolderOf(msg.id) # None
    BY <1>1, <2>1, SomeoneHolds
  <2>4. \A id \in Pieces : HolderOf(id)' = HolderOf(id)
    BY <2>2 DEF HolderOf
  <2>5. \A id \in DOMAIN groups : Actual(id)' = Actual(id)
    <3> TAKE id \in DOMAIN groups
    <3>1. HolderOf(id)' = HolderOf(id) /\ groups'[id].locked = groups[id].locked
      BY <1>1, <2>2, <2>4 DEF IInv, TypeOK
    <3>2. HolderOf(id) = None => groups'[id] = groups[id]
      BY <2>2, <2>3
    <3> QED
      BY <3>1, <3>2 DEF Actual
  <2>6. m \in DownFrame /\ m.type = "group_moved" /\ m.id = msg.id
    BY <1>1, <2>1, PlaceAssumption DEF DownFrame, HandFrame, UpFrame
  <2>7. down' = Deliverable(Joined \ {s}, <<m>>)
    BY <1>3
  <2> HIDE DEF m
  <2>8. <<m>> \in Seq(DownFrame) /\ << >> \in Seq(DownFrame)
    BY <2>6, EmptySeq
  <2>9. ASSUME NEW c \in Guests, Fed(c), Sock(c) \in Joined, Listening(Sock(c)),
               IF Sock(c) = s
                 THEN /\ c = Owner(s) /\ Up(c) \in Seq(UpFrame) /\ Up(c) # << >>
                      /\ Head(Up(c)) = Head(up[s]) /\ Up(c)' = Tail(Up(c))
                 ELSE Up(c)' = Up(c)
        PROVE  \E ms \in Seq(DownFrame) :
                 /\ Down(c)' = Down(c) \o ms
                 /\ \A id \in Pieces : Served(c, id, ms)
    <3>1. Down(c)' = Down(c) \o (IF Sock(c) \in Joined \ {s} THEN <<m>> ELSE << >>)
      BY <1>1, <2>7, <2>8, <2>9, DeliveredTo
    <3>2. PICK ms \in {<<m>>, << >>} : Down(c)' = Down(c) \o ms
      BY <3>1
    <3>3. ms \in Seq(DownFrame) /\ \A k \in 1..Len(ms) : ms[k] = m
      <4>1. CASE ms = <<m>>
        BY <2>8, <4>1
      <4>2. CASE ms = << >>
        <5>1. Len(ms) = 0
          BY <4>2
        <5> QED
          BY <2>8, <4>2, <5>1
      <4> QED
        BY <4>1, <4>2
    <3>4. ASSUME NEW id \in Pieces PROVE Served(c, id, ms)
      <4>1. UpKept(c, id)
        <5>1. CASE Sock(c) = s
          BY <1>2, <2>9, <5>1
        <5>2. CASE Sock(c) # s
          BY <2>9, <5>2 DEF UpKept
        <5> QED
          BY <5>1, <5>2
      <4>2. AsksKept(c, id)
        BY <1>1, <2>4, <4>1, UpKeptAsks
      <4>3. Beside(c, id, Actual(id), m) /\ ~Granted(id, m)
        <5>1. Actual(msg.id).by # None
          BY <2>3 DEF Actual
        <5> QED
          BY <2>6, <5>1 DEF Beside, Told, Sent, HeldBy, Granted
      <4> QED
        BY <1>1, <2>2, <2>4, <2>5, <3>3, <4>2, <4>3, ServedBeside
    <3> QED
      BY <3>2, <3>3, <3>4
  <2> QED
    BY <1>1, <2>9, PlayedHands
<1>4. CASE UNCHANGED <<vars, down>>
  <2>1. ErrorMsg \in DownFrame /\ Aside(ErrorMsg)
    BY DEF ErrorMsg, DownFrame, HandFrame, Aside
  <2>2. UNCHANGED <<srv, groups, holds, down>>
    BY <1>1, <1>4 DEF vars
  <2>3. ASSUME NEW c \in Guests, NEW id \in Pieces, Up(c) # << >>, Head(Up(c)) = Head(up[s]),
               Up(c)' = Tail(Up(c)), HolderOf(id)' = HolderOf(id), UNCHANGED <<drag, grip>>
        PROVE  AsksKept(c, id)
    BY <1>1, <1>2, <2>3, UpKeptAsks
  <2> QED
    BY <1>1, <2>1, <2>2, <2>3, AsideHands
<1> QED
  BY <1>3, <1>4 DEF HandleMove

\* The result of a drop goes to everyone, and ends the drag it answers.
LEMMA DroppedHands ==
  ASSUME SyncInv, HandsInv, SyncInv', NEW s \in Sockets, Took(s), UNCHANGED srv,
         NEW i \in Pieces, NEW pos \in Reports, Asks(Head(up[s]), "drop", i),
         Drop(Owner(s), i, pos),
         down' = Deliverable(Joined, DropMsgs(Owner(s), i, DropOutcome(i, pos)))
  PROVE  HandsInv'
<1> DEFINE g == Owner(s)
           o == DropOutcome(i, pos)
           ms == DropMsgs(g, i, o)
           result == [type |-> "snap_result", id |-> i, merged |-> o.mergedIds,
                      group |-> o.group, placed |-> Cardinality(credited'),
                      credit |-> [guest |-> g, n |-> Cardinality(credited' \ credited)]]
           done == [type |-> "completion", placed |-> Cardinality(credited'),
                    scores |-> [h \in DOMAIN identities |-> identities'[h].placedCount]]
<1>1. /\ ClientInv /\ IInv /\ WireInv /\ IInv' /\ g \in Guests
      /\ UNCHANGED <<board, drag, grip, link, cur, lapsed>>
  BY TookIn DEF SyncInv
<1>2. /\ HolderMutation(g, i) /\ groups' = AfterDrop(i, o) /\ ReleaseHolds({i})
  BY DEF Drop
<1>3. /\ i \in DOMAIN groups /\ o.group \in Group
      /\ o.mergedIds \subseteq DOMAIN groups \ ({i} \cup DOMAIN holds)
  BY <1>1, <1>2, DropResult DEF IInv
<1>4. HolderOf(i) = g /\ HolderOf(i)' = None /\ \A id \in Pieces \ {i} : HolderOf(id)' = HolderOf(id)
  BY <1>2 DEF HolderMutation, HolderOf, ReleaseHolds, Restrict
<1>5. /\ DOMAIN groups' = DOMAIN groups \ o.mergedIds
      /\ \A id \in DOMAIN groups' : groups'[id] = IF id = i THEN o.group ELSE groups[id]
  BY <1>2, <1>3 DEF AfterDrop
<1>6. DOMAIN identities = Guests
  BY <1>1 DEF WireInv
<1>7. ms \in Seq(DownFrame)
  BY <1>1, <1>6, DropTold
<1>8. ms = <<result>> \/ ms = <<result, done>>
  BY DEF DropMsgs
<1>9. /\ result.type = "snap_result" /\ result.id = i /\ result.merged = o.mergedIds
      /\ result.group = o.group /\ Aside(done)
  BY DEF Aside
<1>10. down' = Deliverable(Joined, ms)
  OBVIOUS
<1> HIDE DEF result, done, ms, o
<1>11. /\ Len(ms) \in {1, 2} /\ ms[1] = result /\ (Len(ms) = 2 => ms = <<result, done>> /\ ms[2] = done)
       /\ (Len(ms) = 1 => ms = <<result>>)
  BY <1>8
<1>12. result \in DownFrame /\ (Len(ms) = 2 => done \in DownFrame)
  <2>1. ms \in [1..Len(ms) -> DownFrame]
    BY <1>7, LenProperties
  <2> QED
    BY <1>11, <2>1
<1>13. ASSUME NEW c \in Guests, NEW id \in Pieces, id # i
       PROVE  Served(c, id, ms) \/ ~AsksKept(c, id)
  <2>1. ASSUME NEW k \in 1..Len(ms)
        PROVE  /\ ~Granted(id, ms[k])
               /\ id \in DOMAIN groups' => Beside(c, id, Actual(id), ms[k])
    <3>1. CASE ms[k] = result
      BY <1>5, <1>9, <1>13, <3>1, NotAbout DEF Granted
    <3>2. CASE ms[k] = done
      BY <1>9, <3>2, AsideBeside
    <3> QED
      BY <1>11, <3>1, <3>2
  <2>2. id \in DOMAIN groups' => id \in DOMAIN groups /\ Actual(id)' = Actual(id)
    BY <1>4, <1>5, <1>13 DEF Actual
  <2>3. HolderOf(id)' = HolderOf(id)
    BY <1>4, <1>13
  <2> QED
    BY <1>1, <1>7, <2>1, <2>2, <2>3, ServedBeside
<1>14. ASSUME NEW c \in Guests PROVE Served(c, i, ms)
  <2> DEFINE h == Actual(i)
             n == Actual(i)'
  <2>1. Ending(i, ms)
    BY <1>9, <1>11 DEF Ending, Ends
  <2>2. \A k \in 1..Len(ms) : ~Granted(i, ms[k])
    BY <1>9, <1>11 DEF Granted, Aside
  <2>3. n = [by |-> None, at |-> o.group.position, locked |-> o.group.locked]
    BY <1>3, <1>4, <1>5 DEF Actual
  <2>4. Sent(c, i, h, result) /\ Told(i, h, result) = n
    BY <1>3, <1>9, <2>3 DEF Sent, Told, HeldBy
  <2> HIDE DEF h, n
  <2>5. Tells(c, i, h, <<result>>, n)
    BY <2>4, TellsOne
  <2>6. Tells(c, i, h, ms, n)
    <3>1. CASE Len(ms) = 1
      BY <1>11, <2>5, <3>1
    <3>2. CASE Len(ms) = 2
      <4>1. ms = <<result>> \o <<done>>
        BY <1>11, <1>12, <3>2, TwoFrames
      <4>2. Beside(c, i, n, done)
        BY <1>9, AsideBeside
      <4>3. Tells(c, i, n, <<done>>, n)
        BY <4>2, TellsOne DEF Beside
      <4>4. <<result>> \in Seq(DownFrame) /\ <<done>> \in Seq(DownFrame)
        BY <1>12, <3>2
      <4> QED
        BY <2>5, <4>1, <4>3, <4>4, TellsOn
    <3> QED
      BY <1>11, <3>1, <3>2
  <2>7. i \in DOMAIN groups /\ Tells(c, i, Actual(i), ms, Actual(i)')
    BY <1>3, <2>6 DEF h, n
  <2> QED
    BY <2>1, <2>2, <2>7 DEF Served
<1>15. ASSUME NEW c \in Guests, Fed(c), Sock(c) \in Joined, Listening(Sock(c)),
              IF Sock(c) = s
                THEN /\ c = Owner(s) /\ Up(c) \in Seq(UpFrame) /\ Up(c) # << >>
                     /\ Head(Up(c)) = Head(up[s]) /\ Up(c)' = Tail(Up(c))
                ELSE Up(c)' = Up(c)
       PROVE  \E r \in Seq(DownFrame) :
                /\ Down(c)' = Down(c) \o r
                /\ \A id \in Pieces : Served(c, id, r)
  <2>1. Down(c)' = Down(c) \o ms
    BY <1>1, <1>7, <1>10, <1>15, DeliveredTo
  <2>2. ASSUME NEW id \in Pieces, id # i PROVE AsksKept(c, id)
    <3>1. UpKept(c, id)
      <4>1. CASE Sock(c) = s
        BY <1>15, <2>2, <4>1 DEF UpKept, Asks
      <4>2. CASE Sock(c) # s
        BY <1>15, <4>2 DEF UpKept
      <4> QED
        BY <4>1, <4>2
    <3> QED
      BY <1>1, <1>4, <2>2, <3>1, UpKeptAsks
  <2> QED
    BY <1>7, <1>13, <1>14, <2>1, <2>2
<1> QED
  BY <1>15, PlayedHands

\* A drop the referee refuses was not the holder's, and no drag waits for it.
LEMMA HandleDropHands ==
  ASSUME SyncInv, HandsInv, SyncInv', NEW s \in Sockets, HandleDrop(s)
  PROVE  HandsInv'
<1> DEFINE g == Owner(s)
           msg == Head(up[s])
           i == msg.id
<1>1. /\ ClientInv /\ IInv /\ WireInv
      /\ Took(s) /\ srv[s] = "joined" /\ UNCHANGED srv /\ msg.type = "drop"
      /\ Asks(msg, "drop", i) /\ msg \in UpFrame
  BY TookIn DEF SyncInv, HandleDrop, Played, Frame1, Asks
<1>2. msg.position \in Reports
  BY <1>1 DEF UpFrame
<1>3. CASE /\ Drop(g, i, msg.position)
           /\ down' = Deliverable(Joined, DropMsgs(g, i, DropOutcome(i, msg.position)))
  <2>1. i \in Pieces
    BY <1>1, <1>3 DEF Drop, HolderMutation, Playable, IInv, TypeOK
  <2> QED
    BY <1>1, <1>2, <1>3, <2>1, DroppedHands
<1>4. CASE ~HolderMutation(g, i) /\ down' = Deliverable({s}, <<ErrorMsg>>) /\ UNCHANGED vars
  <2>1. ErrorMsg \in DownFrame /\ Aside(ErrorMsg)
    BY DEF ErrorMsg, DownFrame, HandFrame, Aside
  <2>2. UNCHANGED <<srv, groups, holds>>
    BY <1>1, <1>4 DEF vars
  <2>3. HolderOf(i) # g
    <3>1. g \in connected /\ g # None
      BY <1>1, OwnerConnected, NoneApart
    <3>2. ASSUME HolderOf(i) = g PROVE FALSE
      <4>1. i \in DOMAIN holds /\ holds[i].holder = g
        BY <3>1, <3>2 DEF HolderOf
      <4>2. i \in DOMAIN groups /\ ~groups[i].locked /\ status # "completed"
        BY <1>1, <4>1, SomeoneHolds
      <4> QED
        BY <1>4, <3>1, <4>1, <4>2 DEF HolderMutation, Playable
    <3> QED
      BY <3>2
  <2>4. ASSUME NEW c \in Guests, NEW id \in Pieces, c = g, Up(c) \in Seq(UpFrame), Up(c) # << >>,
               Head(Up(c)) = msg, Up(c)' = Tail(Up(c)), HolderOf(id)' = HolderOf(id),
               UNCHANGED <<drag, grip>>
        PROVE  AsksKept(c, id)
    <3>1. CASE id # i
      <4>1. UpKept(c, id)
        BY <1>1, <2>4, <3>1 DEF UpKept, Asks
      <4> QED
        BY <1>1, <2>4, <4>1, UpKeptAsks
    <3>2. CASE id = i
      <4>1. ~Asks(Head(Up(c)), "grab", id)
        BY <1>1, <2>4 DEF Asks
      <4>2. /\ GrabIn(Up(c), id) => GrabIn(Up(c)', id)
            /\ GrabThenDrop(Up(c), id) => GrabThenDrop(Up(c)', id)
        BY <2>4, <4>1, AskedFromSecond
      <4> QED
        BY <2>3, <2>4, <3>2, <4>2 DEF AsksKept, Dropping, Dragging
    <3> QED
      BY <3>1, <3>2
  <2> HIDE DEF g, i, msg
  <2>5. Head(up[s]) = msg /\ Owner(s) = g
    BY DEF msg, g
  <2> QED
    BY <1>1, <1>4, <2>1, <2>2, <2>4, <2>5, AsideHands
<1> QED
  BY <1>3, <1>4 DEF HandleDrop

LEMMA HandleRenameHands ==
  ASSUME SyncInv, HandsInv, NEW s \in Sockets, HandleRename(s)
  PROVE  HandsInv'
<1> DEFINE g == Owner(s)
           name == Head(up[s]).name
<1>1. /\ ClientInv /\ Took(s) /\ srv[s] = "joined" /\ UNCHANGED srv
      /\ Head(up[s]).type = "rename" /\ Head(up[s]) \in UpFrame /\ g \in Guests
  BY TookIn DEF SyncInv, HandleRename, Played, Frame1
<1>2. name \in Names
  BY <1>1 DEF UpFrame
<1>3. ASSUME NEW c \in Guests, NEW id \in Pieces, Up(c) # << >>, Head(Up(c)) = Head(up[s]),
             Up(c)' = Tail(Up(c)), HolderOf(id)' = HolderOf(id), UNCHANGED <<drag, grip>>
      PROVE  AsksKept(c, id)
  <2>1. UpKept(c, id)
    BY <1>1, <1>3 DEF UpKept, Asks
  <2> QED
    BY <1>1, <1>3, <2>1, UpKeptAsks
<1>4. CASE Rename(g, name) /\ down' = Deliverable(Joined \ {s}, <<Presence("renamed", g, name)>>)
  <2> DEFINE m == Presence("renamed", g, name)
             ss == Joined \ {s}
  <2>1. m \in DownFrame /\ Aside(m)
    BY <1>1, <1>2 DEF Presence, DownFrame, RosterFrame, Aside
  <2>2. UNCHANGED <<srv, groups, holds>> /\ down' = Deliverable(ss, <<m>>)
    BY <1>1, <1>4 DEF Rename, table
  <2> HIDE DEF m, ss
  <2> QED
    BY <1>1, <1>3, <2>1, <2>2, AsideHands
<1>5. CASE down' = Deliverable({s}, <<ErrorMsg>>) /\ UNCHANGED vars
  <2>1. ErrorMsg \in DownFrame /\ Aside(ErrorMsg)
    BY DEF ErrorMsg, DownFrame, HandFrame, Aside
  <2>2. UNCHANGED <<srv, groups, holds>>
    BY <1>1, <1>5 DEF vars
  <2> QED
    BY <1>1, <1>3, <1>5, <2>1, <2>2, AsideHands
<1> QED
  BY <1>4, <1>5 DEF HandleRename

\* A snapshot shows of each group who holds it, and where it lies.
SnapshotIsExact ==
  \A id \in DOMAIN groups :
    id \in DOMAIN Fresh(SnapshotMsg) /\ HandOn(Fresh(SnapshotMsg)[id]) = Actual(id)

LEMMA SnapshotExact == IInv => SnapshotIsExact
<1> SUFFICES ASSUME IInv, NEW i \in DOMAIN groups
             PROVE  i \in DOMAIN Fresh(SnapshotMsg) /\ HandOn(Fresh(SnapshotMsg)[i]) = Actual(i)
  BY DEF SnapshotIsExact
<1> DEFINE m == SnapshotMsg
           D == {j \in DOMAIN groups : IsDeviated(groups[j]) \/ j \in DOMAIN holds}
           covered == UNION {m.groups[j].pieces : j \in DOMAIN m.groups}
           f == Fresh(m)
<1>1. /\ DOMAIN groups \subseteq Pieces /\ i \in Pieces
      /\ \A j, k \in DOMAIN groups : j # k => groups[j].pieces \cap groups[k].pieces = {}
      /\ i \in groups[i].pieces
  BY DEF IInv, TypeOK, GroupsPartition
<1>2. m.groups = [j \in D |-> [pieces |-> groups[j].pieces, position |-> groups[j].position,
                               locked |-> groups[j].locked, heldBy |-> HolderOf(j)]]
  BY DEF SnapshotMsg
<1>3. /\ DOMAIN f = D \cup (Pieces \ covered)
      /\ \A j \in DOMAIN f : f[j] = IF j \in D THEN m.groups[j] ELSE Untouched(j)
  BY <1>2 DEF Fresh, ApplySnapshot
<1> HIDE DEF f, m
<1>4. CASE i \in D
  <2>1. i \in DOMAIN f /\ f[i] = m.groups[i]
    BY <1>3, <1>4
  <2>2. /\ m.groups[i].position = groups[i].position /\ m.groups[i].locked = groups[i].locked
        /\ m.groups[i].heldBy = HolderOf(i)
    BY <1>2, <1>4
  <2>3. HandOn(f[i]) = Actual(i)
    BY <2>1, <2>2 DEF HandOn, Actual
  <2> QED
    BY <2>1, <2>3 DEF f, m
<1>5. CASE i \notin D
  <2>1. groups[i] = Singleton(i) /\ HolderOf(i) = None
    BY <1>5, UndeviatedAlone DEF HolderOf
  <2>2. i \notin covered
    <3>1. ASSUME NEW j \in D PROVE i \notin m.groups[j].pieces
      BY <1>1, <1>2, <1>5, <3>1
    <3> QED
      BY <1>2, <3>1
  <2>3. i \in DOMAIN f /\ f[i] = Untouched(i)
    BY <1>1, <1>3, <1>5, <2>2
  <2> QED
    BY <2>1, <2>3 DEF HandOn, Actual, Untouched, Singleton, f, m
<1> QED
  BY <1>4, <1>5

LEMMA SnapshotExactNext == IInv' => SnapshotIsExact'
BY SnapshotExact, PTL

\* Where a client starts over, it is right about every group.
LEMMA FedAfresh ==
  ASSUME NEW c \in Guests, SnapshotIsExact', Down(c)' = <<SnapshotMsg'>>
  PROVE  FedInv(c)'
<1> DEFINE m == SnapshotMsg'
           q == <<m>>
<1>1. m.type = "snapshot"
  BY DEF SnapshotMsg
<1>2. Down(c)' = q /\ Len(q) = 1 /\ q[1] = m /\ q # << >> /\ Head(q) = m
  OBVIOUS
<1> HIDE DEF q
<1>3. StartsOver(Down(c)')
  BY <1>1, <1>2 DEF StartsOver
<1>4. \A id \in Pieces : Ending(id, Down(c)')
  BY <1>1, <1>2 DEF Ending, Ends
<1>5. ASSUME NEW id \in Pieces PROVE GrantInv(c, id)'
  <2>1. \A k \in 1..Len(Down(c)') : ~Granted(id, Down(c)'[k])
    BY <1>1, <1>2 DEF Granted
  <2> QED
    BY <1>4, <2>1 DEF GrantInv
<1>6. ASSUME NEW id \in Pieces, id \in DOMAIN groups' PROVE HandInv(c, id)'
  <2> DEFINE h == Actual(id)'
  <2>1. Fresh(m) = Fresh(SnapshotMsg)'
    BY DEF Fresh
  <2>2. id \in DOMAIN Fresh(m) /\ HandOn(Fresh(m)[id]) = h
    BY <1>6, <2>1 DEF SnapshotIsExact
  <2>3. Sent(c, id, h, m) /\ Told(id, h, m) = h
    BY <1>1, <2>2 DEF Sent, Told, HeldBy
  <2> HIDE DEF h, m
  <2>4. Tells(c, id, h, <<m>>, h)
    BY <2>3, TellsOne
  <2>5. Tells(c, id, h, Down(c)', Actual(id)')
    BY <1>2, <2>4 DEF q, h
  <2> QED
    BY <1>3, <1>4, <2>5 DEF HandInv
<1> QED
  BY <1>3, <1>5, <1>6 DEF FedInv, GroupInv

LEMMA HandleJoinHands ==
  ASSUME SyncInv, HandsInv, SyncInv', NEW s \in Sockets, HandleJoin(s)
  PROVE  HandsInv'
<1> DEFINE g == Owner(s)
           m == Presence("joined", g, identities'[g].name)
           told == IF Solo(g) = {} THEN Joined ELSE {}
           sent == Deliverable(told, <<m>>)
<1>1. /\ ClientInv /\ IInv' /\ g \in Guests /\ Head(up[s]) \in UpFrame
      /\ UNCHANGED <<board, drag, grip, link, cur, lapsed>>
      /\ Took(s) /\ Head(up[s]).type = "join"
      /\ srv' = [srv EXCEPT ![s] = "joined"] /\ Resume(g, None)
      /\ down' = IF Listening(s) THEN [sent EXCEPT ![s] = <<SnapshotMsg'>>] ELSE sent
  BY TookIn DEF SyncInv, HandleJoin, Frame1
<1>2. UNCHANGED <<groups, holds>> /\ DOMAIN identities = Guests
  BY <1>1 DEF Resume, Enter, SyncInv, WireInv
<1>3. \A id \in Pieces : HolderOf(id)' = HolderOf(id) /\ Actual(id)' = Actual(id)
  BY <1>2 DEF HolderOf, Actual
<1>4. m \in DownFrame /\ Aside(m)
  <2>1. identities'[g].name \in Names
    <3>1. identities' \in [Guests -> Identity]
      BY <1>1, <1>2 DEF IInv, TypeOK, Resume
    <3> QED
      BY <1>1, <3>1 DEF Identity
  <2> QED
    BY <1>1, <2>1 DEF Presence, DownFrame, RosterFrame, Aside
<1>5. ASSUME NEW c \in Guests, Fed(c)' PROVE FedInv(c)'
  <2>1. /\ Sock(c) \in Sockets /\ Owner(Sock(c)) = c /\ Sock(c)' = Sock(c) /\ Down(c)' = down'[Sock(c)]
        /\ link[c] # "down" /\ Listening(Sock(c))
    BY <1>1, <1>5, SockIn DEF Sock, Fed, Down, Listening
  <2>2. CASE Sock(c) = s
    <3>1. Down(c)' = <<SnapshotMsg'>>
      <4>1. DOMAIN sent = Sockets
        BY DEF Deliverable
      <4> HIDE DEF sent
      <4> QED
        BY <1>1, <2>1, <2>2, <4>1
    <3> QED
      BY <1>1, <3>1, SnapshotExactNext, FedAfresh
  <2>3. CASE Sock(c) # s
    <3>1. srv'[Sock(c)] = srv[Sock(c)]
      BY <1>1, <2>1, <2>3 DEF ClientInv
    <3>2. Fed(c) /\ Up(c)' = Up(c)
      BY <1>1, <1>5, <2>3, <3>1, PlayedTo
    <3>3. PICK ms \in {<<m>>, << >>} : Down(c)' = Down(c) \o ms
      <4>1. down'[Sock(c)] = sent[Sock(c)]
        <5> HIDE DEF sent
        <5> QED
          BY <1>1, <2>1, <2>3
      <4>2. down[Sock(c)] \in Seq(DownFrame)
        BY <1>1, <2>1 DEF ClientInv
      <4>3. sent[Sock(c)] = down[Sock(c)] \o <<m>> \/ sent[Sock(c)] = down[Sock(c)] \o << >>
        BY <2>1, <4>2, ConcatEmptySeq DEF Deliverable
      <4> HIDE DEF sent, m
      <4> QED
        BY <2>1, <4>1, <4>3 DEF Down
    <3> HIDE DEF m
    <3>4. ms \in Seq(DownFrame) /\ \A k \in 1..Len(ms) : Aside(ms[k])
      <4>1. CASE ms = <<m>>
        <5>1. Len(<<m>>) = 1 /\ <<m>>[1] = m /\ <<m>> \in Seq(DownFrame)
          BY <1>4
        <5> QED
          BY <1>4, <4>1, <5>1
      <4>2. CASE ms = << >>
        <5>1. Len(ms) = 0
          BY <4>2
        <5> QED
          BY <4>2, <5>1, EmptySeq
      <4> QED
        BY <4>1, <4>2
    <3>5. ASSUME NEW id \in Pieces PROVE Served(c, id, ms)
      <4>1. AsksKept(c, id)
        BY <1>1, <1>3, <3>2, UpKeptAsks DEF UpKept
      <4>2. \A k \in 1..Len(ms) : ~Granted(id, ms[k]) /\ Beside(c, id, Actual(id), ms[k])
        BY <3>4, AsideBeside
      <4> QED
        BY <1>1, <1>2, <1>3, <3>4, <4>1, <4>2, ServedBeside
    <3>6. FedInv(c) /\ lapsed \subseteq lapsed'
      BY <1>1, <3>2 DEF HandsInv
    <3> QED
      BY <1>1, <3>3, <3>4, <3>5, <3>6, ServeClient
  <2> QED
    BY <2>2, <2>3
<1> QED
  BY <1>5 DEF HandsInv

\* What a hold taken from an idle hand leaves unsettled is only its holder's.
LEMMA SweepHands ==
  ASSUME SyncInv, HandsInv, NEW i \in Pieces, Sweep(i)
  PROVE  HandsInv'
<1> DEFINE m == ReleasedMsg(i)
<1>1. /\ ClientInv /\ IInv
      /\ i \in DOMAIN holds /\ ReleaseHolds({i})
      /\ UNCHANGED <<groups, board, drag, grip, link, cur, srv, up>>
      /\ down' = Deliverable(Joined, <<m>>)
      /\ lapsed' = lapsed \cup {<<HolderOf(i), i>>}
  BY DEF SyncInv, Sweep, clients
<1>2. HolderOf(i) # None /\ HolderOf(i)' = None /\ \A id \in Pieces \ {i} : HolderOf(id)' = HolderOf(id)
  BY <1>1, SomeoneHolds DEF HolderOf, ReleaseHolds, Restrict
<1>3. /\ \A id \in Pieces \ {i} : Actual(id)' = Actual(id)
      /\ Actual(i)' = [by |-> None, at |-> groups[i].position, locked |-> Actual(i).locked]
  BY <1>1, <1>2 DEF Actual
<1>4. m.type = "released" /\ m.id = i /\ m.position = groups[i].position /\ m \in DownFrame
  <2>1. groups[i] \in Group
    BY <1>1 DEF IInv, TypeOK, HoldsAreLive
  <2> QED
    BY <2>1 DEF ReleasedMsg, DownFrame, HandFrame, Group
<1> HIDE DEF m
<1>5. <<m>> \in Seq(DownFrame) /\ Len(<<m>>) = 1 /\ <<m>>[1] = m
  BY <1>4
<1>6. ASSUME NEW c \in Guests, Fed(c)' PROVE FedInv(c)'
  <2>1. Fed(c) /\ Sock(c) \in Joined /\ Listening(Sock(c)) /\ Up(c)' = Up(c)
    BY <1>1, <1>6, SockIn DEF Fed, Sock, Joined, Listening, Up
  <2>2. Down(c)' = Down(c) \o <<m>>
    BY <1>1, <1>5, <2>1, DeliveredTo
  <2>3. \A id \in Pieces : ~Granted(id, m)
    BY <1>4 DEF Granted
  <2>4. ASSUME NEW id \in Pieces, ~Lapsed(c, id)' PROVE Served(c, id, <<m>>)
    <3>1. CASE id # i
      <4>1. AsksKept(c, id)
        BY <1>1, <1>2, <2>1, <3>1, UpKeptAsks DEF UpKept
      <4>2. Beside(c, id, Actual(id), m)
        BY <1>4, <3>1, NotAbout
      <4>3. \A k \in 1..Len(<<m>>) :
              ~Granted(id, <<m>>[k]) /\ Beside(c, id, Actual(id), <<m>>[k])
        BY <1>5, <2>3, <4>2
      <4>4. HolderOf(id)' = HolderOf(id) /\ Actual(id)' = Actual(id) /\ groups' = groups
        BY <1>1, <1>2, <1>3, <3>1
      <4> QED
        BY <1>1, <1>5, <4>1, <4>3, <4>4, ServedBeside
    <3>2. CASE id = i
      <4>1. HolderOf(i) # c
        BY <1>1, <2>4, <3>2 DEF Lapsed
      <4>2. AsksKept(c, i)
        BY <1>1, <2>1, <4>1 DEF AsksKept, Dropping, Dragging
      <4>3. Sent(c, i, Actual(i), m) /\ Told(i, Actual(i), m) = Actual(i)'
        BY <1>3, <1>4 DEF Sent, Told, HeldBy
      <4>4. Tells(c, i, Actual(i), <<m>>, Actual(i)')
        <5> DEFINE h == Actual(i)
                   n == Actual(i)'
        <5>1. Sent(c, i, h, m) /\ Told(i, h, m) = n
          BY <4>3
        <5> HIDE DEF h, n
        <5>2. Tells(c, i, h, <<m>>, n)
          BY <5>1, TellsOne
        <5> QED
          BY <5>2 DEF h, n
      <4> QED
        BY <1>1, <1>5, <2>3, <3>2, <4>1, <4>2, <4>4 DEF Served, AsksKept
    <3> QED
      BY <3>1, <3>2
  <2>5. FedInv(c) /\ lapsed \subseteq lapsed'
    BY <1>1, <2>1 DEF HandsInv
  <2> QED
    BY <1>1, <1>5, <2>2, <2>4, <2>5, ServeClient
<1> QED
  BY <1>6 DEF HandsInv

\* What leave() tells of a group: that it is free, where it lies.
LEMMA FreedTold ==
  ASSUME NEW c \in Guests, NEW id \in Pieces, NEW freed, NEW rs,
         DOMAIN freed = 1..Len(rs), Len(rs) \in Nat,
         \A k \in 1..Len(rs) : rs[k] = ReleasedMsg(freed[k]),
         UNCHANGED groups, HolderOf(id)' = None, \E k \in 1..Len(rs) : freed[k] = id
  PROVE  Tells(c, id, Actual(id), rs, Actual(id)')
<1> DEFINE h == Actual(id)
           n == Actual(id)'
           t == [k \in 0..Len(rs) |-> IF \E j \in 1..k : freed[j] = id THEN n ELSE h]
<1>1. n = [by |-> None, at |-> groups[id].position, locked |-> groups[id].locked]
      /\ h.locked = groups[id].locked
  BY DEF Actual
<1>2. t[0] = h /\ t[Len(rs)] = n
  <2>1. 0 \in 0..Len(rs) /\ Len(rs) \in 0..Len(rs) /\ 1..0 = {}
    OBVIOUS
  <2> HIDE DEF h, n
  <2> QED
    BY <2>1
<1>3. \A k \in 0..Len(rs) : t[k] = IF \E j \in 1..k : freed[j] = id THEN n ELSE h
  BY DEF t
<1> HIDE DEF h, n, t
<1>4. ASSUME NEW k \in 1..Len(rs)
      PROVE  t[k] = Told(id, t[k - 1], rs[k]) /\ Sent(c, id, t[k - 1], rs[k])
  <2>1. rs[k].type = "released" /\ rs[k].id = freed[k] /\ rs[k].position = groups[freed[k]].position
    <3>1. rs[k] = ReleasedMsg(freed[k])
      OBVIOUS
    <3> QED
      BY <3>1 DEF ReleasedMsg
  <2>2. k \in 0..Len(rs) /\ k - 1 \in 0..Len(rs) /\ 1..k = 1..(k - 1) \cup {k}
    OBVIOUS
  <2>3. t[k - 1] \in {h, n} /\ t[k - 1].locked = groups[id].locked
    BY <1>1, <1>3, <2>2
  <2>4. Sent(c, id, t[k - 1], rs[k])
    BY <2>1 DEF Sent, HeldBy
  <2>5. CASE freed[k] = id
    <3>1. t[k] = n
      BY <1>3, <2>2, <2>5
    <3> QED
      BY <1>1, <2>1, <2>3, <2>4, <2>5, <3>1 DEF Told
  <2>6. CASE freed[k] # id
    <3>1. t[k] = t[k - 1]
      BY <1>3, <2>2, <2>6
    <3> QED
      BY <2>1, <2>4, <2>6, <3>1 DEF Told
  <2> QED
    BY <2>5, <2>6
<1>5. Tells(c, id, h, rs, n)
  BY <1>2, <1>4 DEF Tells
<1> QED
  BY <1>5 DEF h, n

\* Every member of a finite set is in its sequence.
LEMMA SeqCovers ==
  ASSUME NEW S, IsFiniteSet(S)
  PROVE  /\ SetToSeq(S) \in [1..Cardinality(S) -> S] /\ Cardinality(S) \in Nat
         /\ \A x \in S : \E k \in 1..Cardinality(S) : SetToSeq(S)[k] = x
<1> DEFINE n == Cardinality(S)
           q == SetToSeq(S)
<1>1. PICK f \in [1..n -> S] : \A i, j \in 1..n : f[i] = f[j] => i = j
  BY FS_CardinalityType DEF ExistsBijection, Bijection, Injection, IsInjective
<1>2. q \in [1..n -> S] /\ \A i, j \in 1..n : q[i] = q[j] => i = j
  <2>1. IsInjective(f)
    BY <1>1 DEF IsInjective
  <2>2. q \in [1..n -> S] /\ IsInjective(q)
    BY <2>1 DEF SetToSeq
  <2> HIDE DEF q
  <2> QED
    BY <2>2 DEF IsInjective
<1>3. n \in Nat
  BY FS_CardinalityType
<1> HIDE DEF q
<1>4. q \in Injection(1..n, S)
  BY <1>2 DEF Injection, IsInjective
<1>5. Cardinality(1..n) = n
  BY <1>3, FS_Interval
<1>6. q \in Surjection(1..n, S)
  BY <1>4, <1>5, FS_Injection
<1>7. \A x \in S : \E k \in 1..n : q[k] = x
  BY <1>6 DEF Surjection
<1> QED
  BY <1>2, <1>3, <1>7 DEF q

\* A guest's last socket is closed: what it held is told free, then that it left.
LEMMA LeaveHands ==
  ASSUME SyncInv, HandsInv, NEW s \in Sockets, UNCHANGED <<board, drag, grip, link, cur, lapsed>>,
         Solo(Owner(s)) = {s}, Leave(Owner(s)),
         NEW freed, freed = SetToSeq({id \in DOMAIN holds : holds[id].holder = Owner(s)}),
         down' = Deliverable(Joined \ {s}, [k \in DOMAIN freed |-> ReleasedMsg(freed[k])]
                                             \o <<Presence("left", Owner(s), None)>>),
         NEW c \in Guests, Fed(c), Sock(c) # s, Up(c)' = Up(c)
  PROVE  FedInv(c)'
<1> DEFINE g == Owner(s)
           S == {id \in DOMAIN holds : holds[id].holder = g}
           n == Cardinality(S)
           rs == [k \in DOMAIN freed |-> ReleasedMsg(freed[k])]
           m == Presence("left", g, None)
           ms == rs \o <<m>>
<1>1. /\ ClientInv /\ IInv /\ g \in Guests /\ FedInv(c) /\ lapsed \subseteq lapsed'
      /\ UNCHANGED groups /\ ReleaseHolds(S)
  BY DEF SyncInv, HandsInv, Leave, Owner, Sockets
<1>2. Sock(c) \in Joined \ {s} /\ Listening(Sock(c)) /\ c # g
  BY <1>1, SockIn DEF Fed, Joined, Listening, Solo
<1>3. S \subseteq Pieces /\ \A id \in S : groups[id] \in Group
  BY <1>1 DEF IInv, TypeOK, HoldsAreLive
<1>4. /\ freed \in [1..n -> S] /\ n \in Nat
      /\ \A id \in S : \E k \in 1..n : freed[k] = id
  <2>1. IsFiniteSet(S)
    BY <1>3, PiecesFinite, FS_Subset
  <2> HIDE DEF S
  <2> QED
    BY <2>1, SeqCovers DEF S
<1>5. /\ \A id \in S : HolderOf(id) = g /\ HolderOf(id)' = None
      /\ \A id \in Pieces \ S : HolderOf(id)' = HolderOf(id) /\ Actual(id)' = Actual(id)
  <2>1. \A id \in S : HolderOf(id) = g /\ HolderOf(id)' = None
    BY <1>1 DEF HolderOf, ReleaseHolds, Restrict
  <2>2. \A id \in Pieces \ S : HolderOf(id)' = HolderOf(id)
    BY <1>1 DEF HolderOf, ReleaseHolds, Restrict
  <2> QED
    BY <1>1, <2>1, <2>2 DEF Actual
<1> HIDE DEF S, n
<1>6. m \in DownFrame /\ Aside(m)
  BY <1>1 DEF Presence, DownFrame, RosterFrame, Aside
<1>7. rs \in Seq(DownFrame) /\ Len(rs) = n /\ \A k \in 1..n : rs[k] = ReleasedMsg(freed[k])
  <2>1. \A id \in S : ReleasedMsg(id) \in DownFrame
    <3> TAKE id \in S
    <3>1. groups[id] \in Group /\ id \in Pieces
      BY <1>3
    <3> QED
      BY <3>1 DEF ReleasedMsg, DownFrame, HandFrame, Group
  <2>2. rs \in [1..n -> DownFrame]
    BY <1>4, <2>1
  <2>3. \A k \in 1..n : rs[k] = ReleasedMsg(freed[k])
    BY <1>4
  <2> HIDE DEF rs
  <2>4. rs \in Seq(DownFrame) /\ Len(rs) = n
    BY <1>4, <2>2
  <2> QED
    BY <2>3, <2>4
<1>8. down' = Deliverable(Joined \ {s}, ms)
  OBVIOUS
<1> HIDE DEF rs, m, g
<1>9. ms \in Seq(DownFrame) /\ <<m>> \in Seq(DownFrame) /\ Len(<<m>>) = 1 /\ <<m>>[1] = m
  <2>1. <<m>> \in Seq(DownFrame) /\ Len(<<m>>) = 1 /\ <<m>>[1] = m
    BY <1>6
  <2> QED
    BY <1>7, <2>1, ConcatProperties
<1>10. /\ Len(ms) = n + 1 /\ ms[n + 1] = m
       /\ \A k \in 1..n : ms[k] = rs[k]
  BY <1>4, <1>7, <1>9, ConcatProperties
<1>11. \A k \in 1..Len(ms) :
         \/ ms[k] = m
         \/ k \in 1..n /\ ms[k].type = "released" /\ ms[k].id = freed[k] /\ freed[k] \in S
  <2> TAKE k \in 1..Len(ms)
  <2>1. k = n + 1 \/ k \in 1..n
    BY <1>4, <1>10
  <2>2. ASSUME k \in 1..n
        PROVE  ms[k].type = "released" /\ ms[k].id = freed[k] /\ freed[k] \in S
    <3>1. ms[k] = rs[k] /\ freed[k] \in S
      BY <1>4, <1>10, <2>2
    <3>2. rs[k] = ReleasedMsg(freed[k])
      BY <1>7, <2>2
    <3> HIDE DEF ms, rs
    <3> QED
      BY <3>1, <3>2 DEF ReleasedMsg
  <2> QED
    BY <1>10, <2>1, <2>2
<1>12. Down(c)' = Down(c) \o ms
  <2> HIDE DEF ms
  <2> QED
    BY <1>1, <1>2, <1>8, <1>9, DeliveredTo
<1> HIDE DEF ms
<1>13. ASSUME NEW id \in Pieces PROVE Served(c, id, ms)
  <2>1. \A k \in 1..Len(ms) : ~Granted(id, ms[k])
    BY <1>6, <1>11 DEF Granted, Aside
  <2>2. CASE id \notin S
    <3>1. AsksKept(c, id)
      BY <1>1, <1>5, <2>2, UpKeptAsks DEF UpKept
    <3>2. ASSUME NEW k \in 1..Len(ms) PROVE Beside(c, id, Actual(id), ms[k])
      <4>1. CASE ms[k] = m
        BY <1>6, <4>1, AsideBeside
      <4>2. CASE ms[k].type = "released" /\ ms[k].id \in S
        BY <2>2, <4>2, NotAbout
      <4> QED
        BY <1>11, <4>1, <4>2
    <3>3. HolderOf(id)' = HolderOf(id) /\ Actual(id)' = Actual(id) /\ groups' = groups
      BY <1>1, <1>5, <2>2
    <3> QED
      BY <1>1, <1>9, <2>1, <3>1, <3>2, <3>3, ServedBeside
  <2>3. CASE id \in S
    <3>1. HolderOf(id) # c /\ HolderOf(id)' = None
      BY <1>2, <1>5, <2>3
    <3>2. AsksKept(c, id)
      BY <3>1 DEF AsksKept, Dropping, Dragging
    <3>3. Tells(c, id, Actual(id), ms, Actual(id)')
      <4> DEFINE h == Actual(id)
                 w == Actual(id)'
      <4>1. Tells(c, id, h, rs, w)
        <5>1. DOMAIN freed = 1..Len(rs) /\ Len(rs) \in Nat
          BY <1>4, <1>7
        <5>2. \A k \in 1..Len(rs) : rs[k] = ReleasedMsg(freed[k])
          BY <1>7
        <5>3. \E k \in 1..Len(rs) : freed[k] = id
          BY <1>4, <1>7, <2>3
        <5> QED
          BY <1>1, <3>1, <5>1, <5>2, <5>3, FreedTold
      <4> HIDE DEF h, w
      <4>2. Beside(c, id, w, m)
        BY <1>6, AsideBeside
      <4>3. Tells(c, id, w, <<m>>, w)
        BY <4>2, TellsOne DEF Beside
      <4>4. Tells(c, id, h, rs \o <<m>>, w)
        BY <1>7, <1>9, <4>1, <4>3, TellsOn
      <4> QED
        BY <4>4 DEF h, w, ms
    <3> QED
      BY <1>1, <2>1, <3>1, <3>2, <3>3 DEF Served, AsksKept
  <2> QED
    BY <2>2, <2>3
<1> QED
  BY <1>1, <1>9, <1>12, <1>13, ServeClient

LEMMA CloseHands ==
  ASSUME SyncInv, HandsInv, NEW s \in Sockets, CloseAtServer(s), UNCHANGED lapsed
  PROVE  HandsInv'
<1> SUFFICES ASSUME NEW c \in Guests, Fed(c)' PROVE FedInv(c)'
  BY DEF HandsInv
<1>1. /\ ClientInv /\ LeaveBy(s) /\ UNCHANGED <<board, drag, grip, link, cur>>
      /\ srv' = [srv EXCEPT ![s] = "none"] /\ up' = [up EXCEPT ![s] = << >>]
  BY DEF SyncInv, CloseAtServer, clients
<1>2. Sock(c) \in Sockets /\ Sock(c)' = Sock(c)
  BY <1>1, SockIn DEF Sock
<1>3. Sock(c) # s
  BY <1>1, <1>2 DEF Fed, ClientInv
<1>4. Fed(c) /\ Up(c)' = Up(c)
  BY <1>1, <1>2, <1>3 DEF Fed, Up, ClientInv
<1>5. CASE UNCHANGED <<vars, down>>
  <2>1. Fed(c) => FedInv(c)
    BY DEF HandsInv
  <2>2. /\ link'[c] = link[c] /\ cur'[c] = cur[c]
        /\ up'[Sock(c)] = up[Sock(c)] /\ down'[Sock(c)] = down[Sock(c)]
    BY <1>1, <1>2, <1>3, <1>5 DEF ClientInv
  <2>3. \A id \in Pieces : Lapsed(c, id) => Lapsed(c, id)'
    BY DEF Lapsed
  <2>4. (Fed(c) => FedInv(c))'
    BY <1>1, <1>4, <1>5, <2>1, <2>2, <2>3, FedKept
  <2> QED
    BY <2>4
<1>6. CASE Solo(Owner(s)) = {s} /\ Leave(Owner(s)) /\ ~UNCHANGED <<vars, down>>
  BY <1>1, <1>3, <1>4, <1>6, LeaveHands DEF LeaveBy
<1> QED
  BY <1>1, <1>5, <1>6 DEF LeaveBy

-----------------------------------------------------------------------------
(* The theorems. *)

LEMMA HandsInit == SyncInit => HandsInv
<1> SUFFICES ASSUME SyncInit, NEW c \in Guests PROVE FedInv(c)
  BY DEF HandsInv
<1>1. SyncInv /\ IInv /\ ClientInv
  BY SyncInitInv DEF SyncInv
<1>2. SnapshotIsExact
  BY <1>1, SnapshotExact
<1>3. /\ board[c].groups = Fresh(SnapshotMsg) /\ drag[c] = NoDrag /\ link[c] = "connected"
      /\ down = [s \in Sockets |-> << >>]
  <2>1. board = [e \in Guests |-> ApplySnapshot(EmptyBoard, SnapshotMsg)]
    BY DEF SyncInit
  <2>2. drag = [e \in Guests |-> NoDrag] /\ link = [e \in Guests |-> "connected"]
        /\ down = [s \in Sockets |-> << >>]
    BY DEF SyncInit
  <2> QED
    BY <2>1, <2>2 DEF Fresh
<1>4. Down(c) = << >> /\ Len(Down(c)) = 0
  BY <1>1, <1>3, SockIn DEF Down
<1>5. ASSUME NEW id \in Pieces PROVE GrantInv(c, id)
  <2>1. ~drag[c].granted
    BY <1>3 DEF NoDrag
  <2> QED
    BY <1>4, <2>1 DEF GrantInv
<1>6. ASSUME NEW id \in Pieces, id \in DOMAIN groups PROVE HandInv(c, id)
  <2> DEFINE h == Actual(id)
  <2>1. id \in DOMAIN board[c].groups /\ HandOn(board[c].groups[id]) = h
    BY <1>2, <1>3, <1>6 DEF SnapshotIsExact
  <2>2. /\ h.by = board[c].groups[id].heldBy /\ h.locked = board[c].groups[id].locked
        /\ h.by = None => h.at = board[c].groups[id].position
    BY <2>1 DEF HandOn
  <2>3. drag[c].group # id
    BY <1>3, NoneApart DEF NoDrag
  <2> HIDE DEF h
  <2>4. Settled(board[c], drag[c], c, id, h)
    BY <2>2, <2>3 DEF Settled
  <2>5. Near(board[c], drag[c], c, id, h)
    BY <2>1, <2>2, <2>4 DEF Near
  <2>6. Tells(c, id, h, Down(c), h)
    BY <1>4, TellsNothing
  <2> QED
    BY <2>4, <2>5, <2>6 DEF HandInv, h
<1> QED
  BY <1>3, <1>5, <1>6 DEF FedInv, GroupInv

LEMMA HandsStutter ==
  ASSUME HandsInv, UNCHANGED syncVars
  PROVE  HandsInv'
<1>1. UNCHANGED <<vars, board, drag, grip, link, cur, srv, up, down, lapsed>>
  BY DEF syncVars, clients, wires
<1>2. ASSUME NEW c \in Guests PROVE (Fed(c) => FedInv(c))'
  <2>1. /\ Fed(c) => FedInv(c)
        /\ Fed(c)' => Fed(c)
        /\ \A id \in Pieces : Lapsed(c, id) => Lapsed(c, id)'
        /\ up'[Sock(c)] = up[Sock(c)] /\ down'[Sock(c)] = down[Sock(c)]
    BY <1>1 DEF HandsInv, Fed, Sock, Lapsed
  <2> QED
    BY <1>1, <2>1, FedKept
<1> QED
  BY <1>2 DEF HandsInv

\* At every moment, for every client the server answers and every group: what is in
\* flight to it leads from near what its board shows to who holds the group and where
\* it rests, and where its own drag made the board wrong, something is under way that
\* puts it right.
THEOREM HandsInvariance == SyncSpec => []HandsInv
<1>1. ASSUME SyncInv, SyncInv', HandsInv, [SyncNext]_syncVars PROVE HandsInv'
  <2>1. CASE UNCHANGED syncVars
    BY <1>1, <2>1, HandsStutter
  <2>2. ASSUME NEW c \in Guests, NEW id \in Pieces, BeginDrag(c, id) PROVE HandsInv'
    BY <1>1, <2>2, BeginDragHands
  <2>3. ASSUME NEW c \in Guests, NEW pos \in Passing, DragTo(c, pos) PROVE HandsInv'
    BY <1>1, <2>3, DragToHands
  <2>4. ASSUME NEW c \in Guests, NEW pos \in Reports, EndDrag(c, pos) PROVE HandsInv'
    BY <1>1, <2>4, EndDragHands
  <2>5. ASSUME NEW c \in Guests, NEW name \in Names, ChangeName(c, name) PROVE HandsInv'
    BY <1>1, <2>5, ChangeNameHands
  <2>6. ASSUME NEW c \in Guests, Lose(c) \/ Connect(c) \/ Receive(c) PROVE HandsInv'
    BY <1>1, <2>6, LoseHands, ConnectHands, ReceiveHands
  <2>7. ASSUME NEW s \in Sockets, Serve(s) PROVE HandsInv'
    BY <1>1, <2>7, HandleJoinHands, HandleGrabHands, HandleMoveHands, HandleDropHands,
       HandleRenameHands DEF Serve
  <2>8. ASSUME NEW s \in Sockets, Reap(s) \/ ServerDrops(s) PROVE HandsInv'
    <3>1. CloseAtServer(s) /\ UNCHANGED lapsed
      BY <2>8 DEF Reap, ServerDrops, Free, Spend
    <3> QED
      BY <1>1, <3>1, CloseHands
  <2>9. ASSUME NEW id \in Pieces, Sweep(id) PROVE HandsInv'
    BY <1>1, <2>9, SweepHands
  <2> QED
    BY <1>1, <2>1, <2>2, <2>3, <2>4, <2>5, <2>6, <2>7, <2>8, <2>9 DEF SyncNext
<1> QED
  BY HandsInit, SyncInvariance, <1>1, PTL DEF SyncSpec

\* A client that has taken and been answered everything shows a group as it is, or
\* drags it and holds it.
LEMMA QuietSettled ==
  ASSUME SyncInv, HandsInv, NEW c \in Guests, Quiet(c), NEW id \in DOMAIN groups, ~Lapsed(c, id)
  PROVE  \/ Settled(board[c], drag[c], c, id, Actual(id))
         \/ drag[c].group = id /\ HolderOf(id) = c
<1>1. id \in Pieces
  BY DEF SyncInv, IInv, TypeOK
<1>2. Up(c) = << >> /\ Down(c) = << >> /\ Fed(c)
  BY DEF Quiet, UpToDate, Up, Down, Fed, Listening, Sock, Owner
<1>3. HandInv(c, id)
  BY <1>1, <1>2 DEF HandsInv, FedInv, GroupInv
<1>4. PICK h : /\ Tells(c, id, h, Down(c), Actual(id))
               /\ \/ Ending(id, Down(c)) \/ Dropping(c, id) \/ Dragging(c, id)
                  \/ Settled(board[c], drag[c], c, id, h)
  BY <1>3 DEF HandInv
<1>5. h = Actual(id)
  <2> DEFINE w == Actual(id)
  <2>1. Tells(c, id, h, << >>, w)
    BY <1>2, <1>4
  <2> HIDE DEF w
  <2> QED
    BY <2>1, TellsNothing DEF w
<1>6. Len(Up(c)) = 0 /\ Len(Down(c)) = 0
  BY <1>2
<1>7. ~Ending(id, Down(c)) /\ ~Dropping(c, id) /\ ~GrabIn(Up(c), id)
  BY <1>6 DEF Ending, Dropping, GrabThenDrop, DropIn, GrabIn
<1> QED
  BY <1>4, <1>5, <1>7 DEF Dragging

\* NFR-6: once the referee has answered a client, a group in nobody's hand is shown
\* free, and where the referee has it, whatever the client did with it before; unless
\* it was taken from the client's own idle hand since it connected.
THEOREM RestsInPlaceCorrect == SyncSpec => []RestsInPlace
<1>1. ASSUME SyncInv, HandsInv PROVE RestsInPlace
  <2> SUFFICES ASSUME NEW c \in Guests, Quiet(c), NEW id \in DOMAIN groups \ DOMAIN holds,
                      ~Lapsed(c, id)
               PROVE  /\ board[c].groups[id].heldBy = None
                      /\ board[c].groups[id].position = groups[id].position
    BY DEF RestsInPlace
  <2>1. HolderOf(id) = None /\ None # c
    BY NoneApart DEF HolderOf
  <2>2. Actual(id).by = None /\ Actual(id).at = groups[id].position
    BY <2>1 DEF Actual
  <2>3. Settled(board[c], drag[c], c, id, Actual(id))
    BY <1>1, <2>1, QuietSettled
  <2> QED
    BY <2>2, <2>3 DEF Settled
<1> QED
  BY SyncInvariance, HandsInvariance, <1>1, PTL

\* A grant in the client's drag names a group.
Named(d) == d.granted => d.group \in Pieces
GrantsNamed == \A c \in Guests : Named(drag[c])

LEMMA NamedAfter ==
  ASSUME NEW b \in BoardType, NEW d \in DragType, NEW c \in Guests, NEW m \in DownFrame, Named(d)
  PROVE  Named(Reconcile(m, b, d, c).drag)
<1> DEFINE e == Reconcile(m, b, d, c).drag
<1>1. m.type \in {"snapshot", "grab_result", "group_moved", "held", "released", "snap_result",
                  "presence", "completion", "error"}
  BY DEF DownFrame, SnapshotFrame, HandFrame, SnapFrame, RosterFrame, DoneFrame
<1>2. CASE m.type = "grab_result"
  <2>1. Reconcile(m, b, d, c) = ReconcileGrabResult(m, b, d) /\ m.id \in Pieces
    BY <1>2 DEF Reconcile, DownFrame, SnapshotFrame, HandFrame, SnapFrame, RosterFrame, DoneFrame
  <2>2. \/ e = [d EXCEPT !.granted = TRUE] /\ d.group = m.id
        \/ e = NoDrag \/ e = d
    BY <2>1 DEF ReconcileGrabResult, Plan
  <2>3. CASE e = [d EXCEPT !.granted = TRUE] /\ d.group = m.id
    <3>1. e.group = d.group
      BY <2>3 DEF DragType
    <3> QED
      BY <2>1, <2>3, <3>1 DEF Named
  <2> QED
    BY <2>2, <2>3 DEF Named, NoDrag
<1>3. CASE m.type # "grab_result"
  <2>1. e = NoDrag \/ e = d
    BY <1>1, <1>3 DEF Reconcile, Plan, ReconcileMoved, ReconcileHeld, ReconcileReleased, AfterDropOf
  <2> QED
    BY <2>1 DEF Named, NoDrag
<1> QED
  BY <1>2, <1>3

LEMMA GrantsNamedInvariance == SyncSpec => []GrantsNamed
<1>1. SyncInit => GrantsNamed
  BY DEF SyncInit, GrantsNamed, Named, NoDrag
<1>2. ASSUME SyncInv, GrantsNamed, [SyncNext]_syncVars PROVE GrantsNamed'
  <2>1. ClientInv /\ drag \in [Guests -> DragType]
    BY <1>2 DEF SyncInv, ClientInv
  <2>2. ~NoDrag.granted
    BY DEF NoDrag
  <2>3. CASE UNCHANGED drag
    BY <1>2, <2>3 DEF GrantsNamed
  <2>4. ASSUME NEW c \in Guests, NEW id \in Pieces, BeginDrag(c, id) PROVE GrantsNamed'
    <3>1. /\ drag' = [drag EXCEPT ![c] = DragOf(id, board[c].groups[id].position)]
          /\ ~DragOf(id, board[c].groups[id].position).granted
      BY <2>4 DEF BeginDrag, DragOf
    <3> QED
      BY <1>2, <2>1, <3>1 DEF GrantsNamed, Named
  <2>5. ASSUME NEW c \in Guests, NEW pos \in Reports, EndDrag(c, pos) PROVE GrantsNamed'
    <3>1. UNCHANGED drag \/ drag' = [drag EXCEPT ![c] = NoDrag]
      BY <2>5 DEF EndDrag
    <3> QED
      BY <1>2, <2>1, <2>2, <3>1 DEF GrantsNamed, Named
  <2>6. ASSUME NEW c \in Guests, Receive(c) PROVE GrantsNamed'
    <3> DEFINE m == Head(Down(c))
               e == Reconcile(m, board[c], drag[c], c).drag
    <3>1. /\ drag' = [drag EXCEPT ![c] = e] /\ Down(c) # << >> /\ Down(c) \in Seq(DownFrame)
          /\ board[c] \in BoardType /\ drag[c] \in DragType
      BY <2>1, <2>6, FramesIn DEF Receive, Down, ClientInv
    <3>2. m \in DownFrame
      BY <3>1, HeadTailProperties
    <3>3. Named(e)
      BY <1>2, <3>1, <3>2, NamedAfter DEF GrantsNamed
    <3> HIDE DEF e, m
    <3> QED
      BY <1>2, <2>1, <3>1, <3>3 DEF GrantsNamed, Named
  <2>7. UNCHANGED drag \/ (\E c \in Guests, id \in Pieces : BeginDrag(c, id))
          \/ (\E c \in Guests, pos \in Reports : EndDrag(c, pos))
          \/ (\E c \in Guests : Receive(c))
    BY <1>2 DEF SyncNext, syncVars, clients, DragTo, ChangeName, Lose, Connect, Serve, HandleJoin,
       HandleGrab, HandleMove, HandleDrop, HandleRename, Played, Frame1, Took, Reap, ServerDrops,
       CloseAtServer, Sweep
  <2> QED
    BY <2>3, <2>4, <2>5, <2>6, <2>7
<1> QED
  BY <1>1, <1>2, SyncInvariance, PTL DEF SyncSpec

\* FR-19, FR-12: once the referee has answered a client, its board attributes a group
\* to another player only if that player holds it, but for the group it drags; and a
\* client that has taken every frame sent to it and was granted its drag holds the
\* group, unless it was taken from its idle hand since it connected.
THEOREM HoldsAgreeCorrect == SyncSpec => []HoldsAgree
<1>1. ASSUME SyncInv, HandsInv PROVE NoPhantomHolder
  <2> SUFFICES ASSUME NEW c \in Guests, Quiet(c), NEW id \in DOMAIN groups \ {drag[c].group},
                      ~Lapsed(c, id)
               PROVE  board[c].groups[id].heldBy \in {None, c, HolderOf(id)}
    BY DEF NoPhantomHolder
  <2>1. Settled(board[c], drag[c], c, id, Actual(id)) /\ Actual(id).by = HolderOf(id)
    BY <1>1, QuietSettled DEF Actual
  <2> QED
    BY <2>1 DEF Settled
<1>2. ASSUME SyncInv, HandsInv, GrantsNamed PROVE GrantedIsHeld
  <2> SUFFICES ASSUME NEW c \in Guests, UpToDate(c), drag[c].granted, ~Lapsed(c, drag[c].group)
               PROVE  HolderOf(drag[c].group) = c
    BY DEF GrantedIsHeld
  <2>1. drag[c].group \in Pieces
    BY <1>2 DEF GrantsNamed, Named
  <2>2. Down(c) = << >> /\ Fed(c)
    BY DEF UpToDate, Down, Fed, Listening, Sock, Owner
  <2>3. GrantInv(c, drag[c].group)
    BY <1>2, <2>1, <2>2 DEF HandsInv, FedInv, GroupInv
  <2>4. Len(Down(c)) = 0
    BY <2>2
  <2>5. ~Ending(drag[c].group, Down(c))
    BY <2>4 DEF Ending
  <2> QED
    BY <2>3, <2>5 DEF GrantInv
<1>3. ASSUME SyncInv, HandsInv, GrantsNamed PROVE HoldsAgree
  BY <1>1, <1>2, <1>3 DEF HoldsAgree
<1> QED
  BY SyncInvariance, HandsInvariance, GrantsNamedInvariance, <1>3, PTL
=============================================================================
