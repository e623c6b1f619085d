-------------------------- MODULE RoomEngineJigsaw --------------------------
(***************************************************************************)
(* RoomEngine implements Jigsaw: group ids, positions, names, tokens and   *)
(* time disappear, and a group becomes the set of its pieces.              *)
(***************************************************************************)
EXTENDS RoomEngineProps

PiecesOf(ids) == {groups[id].pieces : id \in ids}

Blocks == PiecesOf(DOMAIN groups)

\* The guest holding the block b.
HandOf(b) == holds[CHOOSE id \in DOMAIN holds : groups[id].pieces = b].holder

Hand == [b \in PiecesOf(DOMAIN holds) |-> HandOf(b)]

\* A guest that was never minted has no credit.
Score == [g \in Guests |-> IF g \in DOMAIN identities THEN identities[g].placedCount ELSE 0]

Promise == INSTANCE Jigsaw WITH
  blocks <- Blocks, fixed <- LockedPieces, hand <- Hand, present <- connected, score <- Score

\* Every step of the referee is a step of the promised service, or changes
\* nothing it speaks of: a drop joins only free blocks, holds never migrate
\* between guests, and exactly the newly joined pieces are credited, once.
ImplementsJigsaw == Promise!Spec
=============================================================================
