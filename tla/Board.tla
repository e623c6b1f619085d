-------------------------------- MODULE Board --------------------------------
(***************************************************************************)
(* The browser's copy of the room (apps/web/src/sync/board-store.ts) and   *)
(* the rule by which a server message meets the local drag                 *)
(* (apps/web/src/sync/reconcile.ts).  Pure operators, no state.            *)
(*                                                                         *)
(* A board is a record [groups, players, scores, placed, status]: groups   *)
(* maps an id to [pieces, position, locked, heldBy], players maps a guest  *)
(* who is present to a name.  Cursors and interpolation samples only feed  *)
(* the drawing and are left out.                                           *)
(***************************************************************************)
EXTENDS Integers, FiniteSets

CONSTANTS
  Pieces,   \* piece ids; a group id is the piece it was minted for
  Scatter,  \* initialScatter: piece -> seeded position
  None      \* nobody, nothing

\* A map of the browser with v put at k, and one without the keys ks.
Put(f, k, v) == [i \in DOMAIN f \cup {k} |-> IF i = k THEN v ELSE f[i]]
Without(f, ks) == [i \in DOMAIN f \ ks |-> f[i]]

EmptyBoard ==
  [groups |-> << >>, players |-> << >>, scores |-> << >>, placed |-> 0, status |-> "active"]

\* The one optimistic drag of a client.
NoDrag == [group |-> None, origin |-> None, granted |-> FALSE]
DragOf(id, origin) == [group |-> id, origin |-> origin, granted |-> FALSE]

\* A change to a group the board does not know is dropped.
Patch(b, id, group) == IF id \in DOMAIN b.groups THEN [b EXCEPT !.groups[id] = group] ELSE b

-----------------------------------------------------------------------------
(* The mutators driven by server messages. *)

Untouched(p) == [pieces |-> {p}, position |-> Scatter[p], locked |-> FALSE, heldBy |-> None]

\* Mutated form: merges the snapshot into the board instead of replacing it.
MergeSnapshot(b, msg) ==
  LET mine == IF b.groups = << >> THEN [p \in Pieces |-> Untouched(p)] ELSE b.groups
  IN  [groups |-> [id \in DOMAIN msg.groups \cup DOMAIN mine |->
                     IF id \in DOMAIN msg.groups THEN msg.groups[id] ELSE mine[id]],
       players |-> msg.players, scores |-> msg.scores, placed |-> msg.placed,
       status |-> msg.status]

\* The snapshot replaces the board: its groups take the place of the singletons
\* of their pieces.
ApplySnapshot(b, msg) ==
  LET covered == UNION {msg.groups[id].pieces : id \in DOMAIN msg.groups}
  IN  [groups |-> [id \in DOMAIN msg.groups \cup (Pieces \ covered) |->
                     IF id \in DOMAIN msg.groups THEN msg.groups[id] ELSE Untouched(id)],
       players |-> msg.players, scores |-> msg.scores, placed |-> msg.placed,
       status |-> msg.status]

ApplyGroupMoved(b, msg) == Patch(b, msg.id, [b.groups[msg.id] EXCEPT !.position = msg.position])

ApplyGroupHeld(b, msg) == Patch(b, msg.id, [b.groups[msg.id] EXCEPT !.heldBy = msg.by])

ApplyGroupReleased(b, msg) ==
  Patch(b, msg.id, [b.groups[msg.id] EXCEPT !.heldBy = None, !.position = msg.position])

\* A guest the board has no score entry for has placed nothing.
ScoreOn(b, g) == IF g \in DOMAIN b.scores THEN b.scores[g] ELSE 0

ApplyCredits(b, msg) ==
  IF msg.credit.n = 0 THEN b.scores
  ELSE Put(b.scores, msg.credit.guest, ScoreOn(b, msg.credit.guest) + msg.credit.n)

Landed(msg) == [pieces |-> msg.group.pieces, position |-> msg.group.position,
                locked |-> msg.group.locked, heldBy |-> None]

\* Mutated form: the absorbed groups stay.
KeepMerged(b, msg) == Put(b.groups, msg.id, Landed(msg))

\* The merged ids go; the resulting group is taken verbatim.
AfterSnap(b, msg) == Put(Without(b.groups, msg.merged), msg.id, Landed(msg))

ApplySnapResult(b, msg) ==
  [b EXCEPT !.groups = AfterSnap(b, msg), !.scores = ApplyCredits(b, msg), !.placed = msg.placed]

ApplyPresence(b, msg) ==
  CASE msg.event = "joined" -> [b EXCEPT !.players = Put(@, msg.guest, msg.name)]
    [] msg.event = "left" -> [b EXCEPT !.players = Without(@, {msg.guest})]
    [] msg.event = "renamed" ->
         IF msg.guest \in DOMAIN b.players THEN [b EXCEPT !.players[msg.guest] = msg.name] ELSE b

ApplyCompletion(b, msg) ==
  [b EXCEPT !.status = "completed", !.scores = msg.scores, !.placed = msg.placed]

-----------------------------------------------------------------------------
(* The mutators driven by the local pointer. *)

\* optimisticGrab refuses what the server would refuse.
MayGrab(b, id, me) ==
  id \in DOMAIN b.groups /\ ~b.groups[id].locked /\ b.groups[id].heldBy \in {None, me}

OptimisticGrab(b, id, me) == [b EXCEPT !.groups[id].heldBy = me]
OptimisticMove(b, id, pos) == Patch(b, id, [b.groups[id] EXCEPT !.position = pos])
RollbackGrab(b, id, origin) ==
  Patch(b, id, [b.groups[id] EXCEPT !.heldBy = None, !.position = origin])
ReleaseHold(b, id) == Patch(b, id, [b.groups[id] EXCEPT !.heldBy = None])
SetLocalName(b, me, name) ==
  IF me \in DOMAIN b.players THEN [b EXCEPT !.players[me] = name] ELSE b

-----------------------------------------------------------------------------
(* reconcile(): what a message does to the board and to the drag.  The     *)
(* local drag leads its own group, so echoes for that group are dropped.   *)

Plan(b, d) == [board |-> b, drag |-> d]

ReconcileGrabResult(msg, b, d) ==
  IF msg.outcome = "granted"
    THEN Plan(b, IF d.group = msg.id THEN [d EXCEPT !.granted = TRUE] ELSE d)
  ELSE IF d.group = msg.id THEN Plan(RollbackGrab(b, msg.id, d.origin), NoDrag)
  ELSE Plan(b, d)

ReconcileMoved(msg, b, d) == Plan(IF d.group = msg.id THEN b ELSE ApplyGroupMoved(b, msg), d)

ReconcileHeld(msg, b, d, me) ==
  Plan(IF d.group = msg.id /\ msg.by = me THEN b ELSE ApplyGroupHeld(b, msg), d)

\* Mutated form: a client that drags ignores every release.
DeafWhileDragging(msg, b, d) == Plan(IF d # NoDrag THEN b ELSE ApplyGroupReleased(b, msg), d)

ReconcileReleased(msg, b, d) ==
  Plan(IF d.group = msg.id THEN b ELSE ApplyGroupReleased(b, msg), d)

AfterDropOf(msg, d) == IF d.group = msg.id THEN NoDrag ELSE d

Reconcile(msg, b, d, me) ==
  CASE msg.type = "snapshot" -> Plan(ApplySnapshot(b, msg), NoDrag)
    [] msg.type = "grab_result" -> ReconcileGrabResult(msg, b, d)
    [] msg.type = "group_moved" -> ReconcileMoved(msg, b, d)
    [] msg.type = "held" -> ReconcileHeld(msg, b, d, me)
    [] msg.type = "released" -> ReconcileReleased(msg, b, d)
    [] msg.type = "snap_result" -> Plan(ApplySnapResult(b, msg), AfterDropOf(msg, d))
    [] msg.type = "presence" -> Plan(ApplyPresence(b, msg), d)
    [] msg.type = "completion" -> Plan(ApplyCompletion(b, msg), d)
    [] msg.type = "error" -> Plan(b, d)
=============================================================================
