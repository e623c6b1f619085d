---------------------------- MODULE BoardViewProps ----------------------------
(***************************************************************************)
(* What BoardView promises.                                                *)
(***************************************************************************)
EXTENDS BoardView

\* The type invariant.
TypeOK ==
  /\ DOMAIN groups \subseteq Groups
  /\ \A id \in DOMAIN groups : groups[id].locked \in BOOLEAN /\ groups[id].heldBy \in {None, Me, Other}
  /\ drag.group \in Groups \cup {None} /\ online \in BOOLEAN /\ dim \in BOOLEAN
  /\ DOMAIN nodes \subseteq Groups /\ Range(layer) \subseteq DOMAIN nodes /\ IsInjective(layer)
  /\ broken \in BOOLEAN /\ gpu \in {"ok", "lost"}
  /\ pointers \in 0..MaxFingers /\ dragging \in Groups \cup {None}
  /\ panning \in BOOLEAN /\ pinch \in BOOLEAN
  /\ stage \in [Mounts -> {"none", "loading", "starting", "live", "failed", "gone"}]

\* The screen shows exactly the groups of the store, as they are.
Faithful ==
  /\ DOMAIN nodes = DOMAIN groups /\ Range(layer) = DOMAIN groups
  /\ \A id \in DOMAIN nodes : nodes[id].same
  /\ ~dim

\* With a working GPU and no rebuild scheduled the screen shows the store: no
\* error, whichever message it interrupts and in whichever group, leaves a ghost
\* piece behind unnoticed (BoardRenderer.syncGroups, tick).
SceneFollowsStore == Live /\ gpu = "ok" /\ ~broken => Faithful

\* A placed piece never covers a loose one, whatever was merged, rebuilt, brought
\* to the front or interrupted (BoardRenderer.buildNode, bringToFront).
LockedBeneath ==
  \A j \in DOMAIN layer : nodes[layer[j]].locked => \A i \in 1..j : nodes[layer[i]].locked

\* One gesture at a time, of the fingers that are down: a drag or a pan is of one
\* finger, a pinch is on exactly while two or more are down (InputController).
OneGesture ==
  /\ pinch <=> pointers >= 2
  /\ dragging # None \/ panning => pointers = 1
  /\ ~(dragging # None /\ panning)

\* The group a client leads against the server's messages is in the player's hand
\* or its drop was sent: otherwise every message about it would be ignored for
\* good (SyncClient.drag, InputController.dragging).
LedIsInHand ==
  Live /\ drag.group \in DOMAIN groups /\ ~drag.dropped => dragging = drag.group

\* At most the current mount has a scene on the page, and none that was cleaned up
\* while it loaded (BoardCanvas).
NoOrphanScene == \A m \in Mounts : stage[m] = "live" => m = mount /\ m \notin disposed

\* What is on the page is one scene, and it shows the store.
SceneIsSound == TypeOK /\ SceneFollowsStore /\ LockedBeneath /\ NoOrphanScene

\* The fingers, the gesture and the drag the client leads agree, whatever the
\* server, the browser and the component's unmounting take away in between.
GesturesAreSound == OneGesture /\ LedIsInHand

\* A scene that failed is shown again from the store as soon as the GPU works,
\* instead of staying frozen (BoardRenderer.syncGroups, rebuildAllGroups).
Unfrozen == Live /\ broken /\ gpu = "ok" ~> Faithful \/ ~Live \/ gpu = "lost"
=============================================================================
