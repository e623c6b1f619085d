------------------------------- MODULE Jigsaw -------------------------------
(***************************************************************************)
(* What a room promises, without geometry: blocks of pieces that only ever *)
(* grow together, an exclusive hand on each block, blocks that become      *)
(* fixed to the frame, and one credit per piece.  RoomEngine is shown to   *)
(* implement it.                                                           *)
(***************************************************************************)
EXTENDS Integers, FiniteSets

CONSTANTS Pieces, Guests

VARIABLES
  blocks,   \* the partition of Pieces into joined blocks
  fixed,    \* the pieces fixed to the frame
  hand,     \* held block -> the guest holding it
  present,  \* guests in the room
  credited, \* pieces credited so far
  score     \* guest -> pieces credited to it

vars == <<blocks, fixed, hand, present, credited, score>>

Init ==
  /\ blocks = {{p} : p \in Pieces}
  /\ fixed = {} /\ hand = << >> /\ present = {} /\ credited = {}
  /\ score = [g \in Guests |-> 0]

Solved == fixed = Pieces

LetGo(bs) == hand' = [b \in DOMAIN hand \ bs |-> hand[b]]

Arrive(g) ==
  /\ present' = present \cup {g}
  /\ UNCHANGED <<blocks, fixed, hand, credited, score>>

Depart(g) ==
  /\ g \in present /\ present' = present \ {g}
  /\ LetGo({b \in DOMAIN hand : hand[b] = g})
  /\ UNCHANGED <<blocks, fixed, credited, score>>

Take(g, b) ==
  /\ ~Solved /\ g \in present /\ b \in blocks
  /\ b \cap fixed = {}
  /\ b \notin DOMAIN hand
  /\ hand' = [c \in DOMAIN hand \cup {b} |-> IF c = b THEN g ELSE hand[c]]
  /\ UNCHANGED <<blocks, fixed, present, credited, score>>

\* Hands lose blocks their guests neglect.
TakeBack(bs) ==
  /\ LetGo(bs)
  /\ UNCHANGED <<blocks, fixed, present, credited, score>>

\* g puts its block b down next to the free blocks near: they become one, which
\* is fixed if any of them was, and may become fixed by where it lies.
PutDown(g, b, near, lock) ==
  /\ b \in DOMAIN hand /\ hand[b] = g
  /\ near \subseteq blocks \ DOMAIN hand
  /\ LET joined == b \cup UNION near
         stays == lock \/ joined \cap fixed # {}
         earned == IF stays \/ near # {} THEN joined \ credited ELSE {}
     IN  /\ blocks' = (blocks \ ({b} \cup near)) \cup {joined}
         /\ fixed' = IF stays THEN fixed \cup joined ELSE fixed
         /\ credited' = credited \cup earned
         /\ score' = [score EXCEPT ![g] = @ + Cardinality(earned)]
  /\ LetGo({b})
  /\ UNCHANGED present

Next ==
  \/ \E g \in Guests : Arrive(g) \/ Depart(g)
  \/ \E g \in Guests, b \in blocks : Take(g, b)
  \/ \E bs \in SUBSET DOMAIN hand : TakeBack(bs)
  \/ \E g \in Guests, b \in DOMAIN hand, near \in SUBSET blocks, lock \in BOOLEAN :
       PutDown(g, b, near, lock)

Spec == Init /\ [][Next]_vars
=============================================================================
