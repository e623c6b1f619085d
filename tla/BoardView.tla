------------------------------- MODULE BoardView -------------------------------
(***************************************************************************)
(* The board on the screen: BoardCanvas mounts it                          *)
(* (apps/web/src/room/BoardCanvas.tsx), BoardRenderer keeps a scene graph  *)
(* that shadows the store (apps/web/src/board/renderer.ts), and            *)
(* InputController turns pointers into drags, pans and pinches             *)
(* (apps/web/src/board/input.ts).                                          *)
(*                                                                         *)
(* The store and the one optimistic drag of SyncClient are the environment *)
(* (SyncRoom has them in full): a group is what the scene and the pointer  *)
(* can tell apart, [locked, heldBy].  Positions, cursors and the camera    *)
(* are left out (Table has the camera).  Any store change may make the     *)
(* scene throw, and so may a rebuild: MaxFaults times, and a rebuild as    *)
(* often as the GPU context is lost.                                       *)
(***************************************************************************)
EXTENDS Integers, FiniteSets, Sequences, SequencesExt

CONSTANTS
  Groups,     \* group ids
  MaxFingers, \* bound on the pointers that are down
  Me, Other,  \* the guest at this screen, any other guest
  None,
  MaxMounts,  \* bound on the times the component is mounted
  MaxFaults   \* bound on the errors thrown, those of rebuilds without a GPU apart

ASSUME BoardViewAssumption ==
  /\ IsFiniteSet(Groups) /\ None \notin Groups
  /\ MaxFingers \in Nat /\ MaxMounts \in Nat /\ MaxFaults \in Nat

VARIABLES
  groups,     \* BoardState.groups: id -> [locked, heldBy]
  drag,       \* SyncClient.drag: [group, dropped]
  online,     \* SyncClient.isConnected()
  mount,      \* the current mount; 0 before the first one
  stage,      \* mount -> "none", "loading", "starting", "live", "failed", "gone"
  disposed,   \* the mounts that were cleaned up
  nodes,      \* BoardRenderer.nodes: id -> [locked, same]
  layer,      \* groupLayer.children, bottom first
  broken,     \* needsFullRebuild
  dim,        \* is there a container whose contents went with a GPU context?
  gpu,        \* "ok", "lost"
  pointers,   \* how many InputController.pointers are down
  dragging,   \* InputController.dragging: a group or None
  panning, pinch,
  faults      \* faults left

store == <<groups, drag, online>>
life == <<mount, stage, disposed>>
scene == <<nodes, layer, broken>>
gestures == <<pointers, dragging, panning, pinch>>
context == <<gpu, dim>>
viewVars == <<store, life, scene, context, gestures, faults>>

Mounts == 1..MaxMounts

NotDragging == [group |-> None, dropped |-> FALSE]
Live == mount # 0 /\ stage[mount] = "live"

\* Nothing has been received from the server, nothing is mounted.
Init ==
  /\ groups = << >> /\ drag = NotDragging /\ online = FALSE
  /\ mount = 0 /\ stage = [m \in Mounts |-> "none"] /\ disposed = {}
  /\ nodes = << >> /\ layer = << >> /\ broken = FALSE /\ gpu = "ok" /\ dim = FALSE
  /\ pointers = 0 /\ dragging = None /\ panning = FALSE /\ pinch = FALSE
  /\ faults = MaxFaults

-----------------------------------------------------------------------------
(* The scene.  sc is [nodes, layer]; a node is "same" while the store still  *)
(* has the object it was built from (existing.group === group).              *)

\* Placed groups sit beneath movable ones.
Placed(sc, id, locked) == IF locked THEN <<id>> \o sc.layer ELSE Append(sc.layer, id)

BuildNode(sc, store_, id) ==
  [nodes |-> [i \in DOMAIN sc.nodes \cup {id} |->
                IF i = id THEN [locked |-> store_[id].locked, same |-> TRUE] ELSE sc.nodes[i]],
   layer |-> Placed(sc, id, store_[id].locked)]

Detached(sc, id) ==
  IF id \in Range(sc.layer)
    THEN [sc EXCEPT !.layer = RemoveAt(@, CHOOSE i \in DOMAIN @ : @[i] = id)]
    ELSE sc

Destroyed(sc, id) == [Detached(sc, id) EXCEPT !.nodes = Restrict(@, DOMAIN @ \ {id})]

\* A group whose object is the one drawn is left as it is.
Kept(sc, store_, id) == id \in DOMAIN sc.nodes /\ sc.nodes[id].same

\* One turn of reconcileGroups: a new group is built, a replaced one rebuilt, one
\* the store no longer has is taken down.
Turn(sc, store_, id) ==
  LET cleared == IF id \in DOMAIN sc.nodes THEN Destroyed(sc, id) ELSE sc
  IN  IF id \in DOMAIN store_ THEN BuildNode(cleared, store_, id) ELSE cleared

\* What a turn that throws leaves: destroy() may have taken the container off the
\* layer, and the node stays known; buildNode() leaves the group without a node.
ThrownBy(sc, store_, id) ==
  IF id \notin DOMAIN sc.nodes THEN {sc}
  ELSE {sc, Detached(sc, id)} \cup (IF id \in DOMAIN store_ THEN {Destroyed(sc, id)} ELSE {})

\* The turns, in the order of the two maps: the groups of the store, then the
\* nodes it no longer has.
Turns(sc, store_) ==
  {a \o b : a \in SetToSeqs({id \in DOMAIN store_ : ~Kept(sc, store_, id)}),
            b \in SetToSeqs(DOMAIN sc.nodes \ DOMAIN store_)}

After(sc, store_, ids) ==
  LET upTo[k \in 0..Len(ids)] == IF k = 0 THEN sc ELSE Turn(upTo[k - 1], store_, ids[k])
  IN  upTo[Len(ids)]

\* reconcileGroups: all turns, or those before one that throws.
Reconciled(sc, store_) == {After(sc, store_, ids) : ids \in Turns(sc, store_)}
Interrupted(sc, store_) ==
  UNION {UNION {ThrownBy(After(sc, store_, SubSeq(ids, 1, k - 1)), store_, ids[k]) : k \in DOMAIN ids} :
           ids \in Turns(sc, store_)}

\* The scene after the store replaced the objects of some ids.
Aged(ids) ==
  [nodes |-> [id \in DOMAIN nodes |-> IF id \in ids THEN [nodes[id] EXCEPT !.same = FALSE] ELSE nodes[id]],
   layer |-> layer]

\* Mutated form: the error is logged and nothing else.
OnlyLogged == broken

\* syncGroups: a throw schedules a full rebuild.
Scheduled == TRUE

Throw == faults > 0 /\ faults' = faults - 1

BringToFront(sc, id) ==
  IF id \in DOMAIN sc.nodes THEN [sc EXCEPT !.layer = Append(Detached(sc, id).layer, id)] ELSE sc

\* notify(): the renderer follows a change of the store, of which it never makes
\* the store a victim; then top, if any, is brought to the front.
SyncGroups(ids, top) ==
  \/ /\ ~Live /\ UNCHANGED <<scene, faults>>
  \/ /\ Live
     /\ \E sc \in Reconciled(Aged(ids), groups') :
          LET shown == BringToFront(sc, top) IN nodes' = shown.nodes /\ layer' = shown.layer
     /\ UNCHANGED <<broken, faults>>
  \/ /\ Live /\ Throw
     /\ \E sc \in Interrupted(Aged(ids), groups') :
          LET shown == BringToFront(sc, top) IN nodes' = shown.nodes /\ layer' = shown.layer
     /\ broken' = Scheduled

\* Mutated form: a rebuild that fails is not tried again.
GiveUp == FALSE
\* A rebuild that fails is tried again in the next frame.
Retry == TRUE

\* rebuildAllGroups: whatever destroy() does, map and layer start empty.
Rebuilt(ids) == After([nodes |-> << >>, layer |-> << >>], groups, ids)

\* tick() with a rebuild to do; it also moves the containers, which is left out.
Tick ==
  /\ Live /\ broken
  /\ \E ids \in SetToSeqs(DOMAIN groups), n \in 0..Cardinality(Groups) :
       /\ n <= Len(ids)
       /\ nodes' = Rebuilt(SubSeq(ids, 1, n)).nodes
       /\ layer' = Rebuilt(SubSeq(ids, 1, n)).layer
       /\ IF n = Len(ids) THEN broken' = FALSE /\ dim' = (gpu = "lost") /\ UNCHANGED faults
                          ELSE /\ broken' = Retry /\ UNCHANGED dim
                               /\ IF gpu = "lost" THEN UNCHANGED faults ELSE Throw
  /\ UNCHANGED <<store, life, gpu, gestures>>

ContextLost ==
  /\ Live /\ gpu = "ok" /\ gpu' = "lost"
  /\ dim' = TRUE
  /\ UNCHANGED <<store, life, scene, gestures, faults>>

ContextRestored ==
  /\ Live /\ gpu = "lost" /\ gpu' = "ok"
  /\ broken' = TRUE
  /\ UNCHANGED <<store, life, nodes, layer, dim, gestures, faults>>

-----------------------------------------------------------------------------
(* What the server's messages and the network do to the store.               *)

Loose == {id \in DOMAIN groups : ~groups[id].locked}
Calm == UNCHANGED <<life, context, gestures>>

\* A board a snapshot may bring: groups were merged and placed meanwhile.  Who holds
\* what is left to GroupHeld.
Boards ==
  LET ids == IF groups = << >> THEN {Groups} ELSE (SUBSET DOMAIN groups) \ {{}}
      shapes == {[locked |-> TRUE, heldBy |-> None]}
                  \cup {[locked |-> FALSE, heldBy |-> None]}
  IN  {b \in UNION {[d -> shapes] : d \in ids} :
         \A id \in DOMAIN b \cap DOMAIN groups : groups[id].locked => b[id].locked}

Snapshot ==
  /\ groups' \in Boards
  /\ drag' = NotDragging /\ online' = TRUE
  /\ SyncGroups(DOMAIN groups, None) /\ Calm

\* "held": the holder of a group in play.
GroupHeld(id, g) ==
  /\ id \in Loose /\ ~(id = drag.group /\ g = Me)
  /\ groups' = [groups EXCEPT ![id].heldBy = g]
  /\ UNCHANGED <<drag, online>>
  /\ SyncGroups({}, None) /\ Calm

GroupReleased(id) ==
  /\ id \in Loose /\ id # drag.group
  /\ groups' = [groups EXCEPT ![id].heldBy = None]
  /\ UNCHANGED <<drag, online>>
  /\ SyncGroups({}, None) /\ Calm

\* "held_by": the grab is rolled back.
GrabRefused ==
  /\ drag # NotDragging /\ drag' = NotDragging
  /\ groups' = IF drag.group \in Loose THEN [groups EXCEPT ![drag.group].heldBy = None] ELSE groups
  /\ UNCHANGED online
  /\ SyncGroups({}, None) /\ Calm

\* "snap_result": the dropped group and those it met become one new object.
SnapResult(dropped, met, id, locked) ==
  /\ dropped \in Loose /\ met \subseteq DOMAIN groups /\ {dropped, id} \subseteq met
  /\ (\E i \in met : groups[i].locked) => locked
  /\ groups' = [i \in (DOMAIN groups \ met) \cup {id} |->
                  IF i = id THEN [locked |-> locked, heldBy |-> None] ELSE groups[i]]
  /\ drag' = IF drag.group = dropped THEN NotDragging ELSE drag
  /\ UNCHANGED online
  /\ SyncGroups(met, None) /\ Calm

Disconnect ==
  /\ online /\ online' = FALSE
  /\ UNCHANGED <<groups, drag>>
  /\ SyncGroups({}, None) /\ Calm

\* A change the scene does not draw (cursor, presence, motion) also notifies.
Notified ==
  /\ Live /\ UNCHANGED store
  /\ SyncGroups({}, None) /\ Calm

-----------------------------------------------------------------------------
(* The pointers. *)

\* hitTest: the topmost group whose outline contains the point.  In a completed
\* room there is no test; every group is locked then, which comes to the same.
HitTest(under) ==
  LET hits == SelectSeq(layer, LAMBDA id : id \in under \cap DOMAIN groups)
  IN  IF hits = << >> THEN None ELSE Last(hits)

MayGrab(id) == id \in Loose /\ groups[id].heldBy \in {None, Me}

\* A first finger: a drag if the group under it may be grabbed, nothing if
\* another player holds it, else a pan.
Press(hit) ==
  \/ /\ hit # None /\ MayGrab(hit)
     /\ groups' = [groups EXCEPT ![hit].heldBy = Me]
     /\ drag' = [group |-> hit, dropped |-> FALSE]
     /\ dragging' = hit
     /\ SyncGroups({}, hit)
     /\ UNCHANGED <<online, panning, pinch>>
  \/ /\ hit # None /\ ~MayGrab(hit) /\ groups[hit].heldBy = Other
     /\ UNCHANGED <<store, scene, faults, dragging, panning, pinch>>
  \/ /\ hit \notin Loose
     /\ panning' = TRUE
     /\ UNCHANGED <<store, scene, faults, dragging, pinch>>

\* endDrag of SyncClient: the drop is sent, or the hold released offline.
EndDrag ==
  \/ drag = NotDragging /\ UNCHANGED <<store, scene, faults>>
  \/ /\ drag # NotDragging /\ online
     /\ drag' = [drag EXCEPT !.dropped = TRUE]
     /\ UNCHANGED <<groups, online>>
     /\ SyncGroups({}, None)
  \/ /\ drag # NotDragging /\ ~online
     /\ drag' = NotDragging
     /\ groups' = IF drag.group \in Loose THEN [groups EXCEPT ![drag.group].heldBy = None] ELSE groups
     /\ UNCHANGED online
     /\ SyncGroups({}, None)

\* Mutated form: the drag is forgotten without a drop.
ForgetDrag == dragging' = None /\ UNCHANGED <<store, scene, faults>>

\* A second finger drops the group where it is.
CancelDrag ==
  /\ dragging' = None
  /\ IF dragging # None /\ dragging \in DOMAIN groups THEN EndDrag ELSE UNCHANGED <<store, scene, faults>>

PointerDown(under) ==
  /\ Live /\ pointers < MaxFingers /\ pointers' = pointers + 1
  /\ UNCHANGED <<life, context>>
  /\ \/ pointers = 0 /\ Press(HitTest(under))
     \/ /\ pointers = 1
        /\ CancelDrag /\ panning' = FALSE /\ pinch' = TRUE
     \/ /\ pointers > 1
        /\ UNCHANGED <<store, scene, faults, dragging, panning, pinch>>

\* A pinch lasts while two fingers are down.
PinchLasts == pinch /\ pointers' >= 2

PointerUp ==
  /\ Live /\ pointers > 0 /\ pointers' = pointers - 1
  /\ IF dragging # None THEN EndDrag ELSE UNCHANGED <<store, scene, faults>>
  /\ dragging' = None /\ panning' = FALSE /\ pinch' = PinchLasts
  /\ UNCHANGED <<life, context>>

-----------------------------------------------------------------------------
(* The component's life.  Its effect loads the picture and starts Pixi, both *)
(* asynchronous; the cleanup marks the effect disposed.                      *)

Outside == UNCHANGED <<store, scene, context, gestures, faults>>

\* The effect runs.  React's strict mode cleans it up and runs it again at once,
\* before the picture can have arrived.
Mount ==
  /\ mount + 1 \in Mounts
  /\ mount # 0 => mount \in disposed /\ stage[mount] = "loading"
  /\ mount' = mount + 1
  /\ stage' = [stage EXCEPT ![mount + 1] = "loading"]
  /\ UNCHANGED disposed /\ Outside

PictureArrives(m) ==
  /\ stage[m] = "loading"
  /\ \/ m \in disposed /\ stage' = [stage EXCEPT ![m] = "gone"]
     \/ m \notin disposed /\ \E s \in {"starting", "failed"} : stage' = [stage EXCEPT ![m] = s]
  /\ UNCHANGED <<mount, disposed>> /\ Outside

\* The flag is looked at again once Pixi has started.
GivenUp(m) == m \in disposed

\* Pixi has started: the scene is built from the store and listens to it, and the
\* pointers are attached.
PixiStarts(m) ==
  /\ stage[m] = "starting"
  /\ \/ /\ GivenUp(m) /\ stage' = [stage EXCEPT ![m] = "gone"]
        /\ UNCHANGED <<scene, faults>>
     \/ /\ ~GivenUp(m) /\ stage' = [stage EXCEPT ![m] = "live"]
        /\ \/ /\ \E sc \in Reconciled(Aged({}), groups) : nodes' = sc.nodes /\ layer' = sc.layer
              /\ UNCHANGED <<broken, faults>>
           \/ /\ Throw
              /\ \E sc \in Interrupted(Aged({}), groups) : nodes' = sc.nodes /\ layer' = sc.layer
              /\ broken' = Scheduled
  /\ UNCHANGED <<store, mount, disposed, context, gestures>>

\* The cleanup: a live scene and its listeners go; what is still loading notices
\* the flag.
Unmount ==
  /\ mount # 0 /\ mount \notin disposed
  /\ disposed' = disposed \cup {mount}
  /\ stage' = IF Live THEN [stage EXCEPT ![mount] = "gone"] ELSE stage
  /\ nodes' = << >> /\ layer' = << >> /\ broken' = FALSE /\ gpu' = "ok" /\ dim' = FALSE
  /\ pointers' = 0 /\ dragging' = None /\ panning' = FALSE /\ pinch' = FALSE
  /\ UNCHANGED <<store, mount, faults>>

-----------------------------------------------------------------------------

FromServer ==
  \/ Snapshot \/ GrabRefused \/ Disconnect \/ Notified
  \/ \E id \in Groups : GroupReleased(id) \/ GroupHeld(id, Other)
  \/ \E dropped, id \in Groups, met \in SUBSET Groups, locked \in BOOLEAN :
       SnapResult(dropped, met, id, locked)

FromPointers ==
  PointerUp \/ \E under \in SUBSET Groups : PointerDown(under)

Next ==
  \/ FromServer \/ FromPointers
  \/ Tick \/ ContextLost \/ ContextRestored
  \/ Mount \/ Unmount \/ \E m \in Mounts : PictureArrives(m) \/ PixiStarts(m)

\* The ticker runs in every frame.
Spec == Init /\ [][Next]_viewVars /\ WF_viewVars(Tick)
=============================================================================
