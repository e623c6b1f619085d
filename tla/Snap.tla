-------------------------------- MODULE Snap --------------------------------
(***************************************************************************)
(* The referee's geometry: what a drop does to the table                   *)
(* (packages/geometry/src/snap.ts).  Pure operators, no state.             *)
(*                                                                         *)
(* Coordinates are integers where the code has floating-point numbers, and *)
(* a distance is compared through its square.  A group is a record         *)
(* [pieces, position, locked]; a table is a function from live group ids   *)
(* to groups.  A group id names the piece it was minted for, so ids and    *)
(* pieces are the same numbers; the order of ids is the order of pieces,   *)
(* which is the order of the code's "row-col" strings on boards of at most *)
(* ten rows and ten columns.                                               *)
(***************************************************************************)
EXTENDS Integers, FiniteSets, FiniteSetsExt

CONSTANTS
  Rows, Cols,   \* the grid of pieces
  Cell,         \* CELL_SIZE
  Tol,          \* the snap tolerance
  Overhang,     \* how far a tab may stick out of its cell
  Area          \* the play area [minX, minY, maxX, maxY] of scatter.ts

ASSUME GridAssumption == Rows \in Nat \ {0} /\ Cols \in Nat \ {0}
ASSUME ScaleAssumption == Cell \in Nat \ {0} /\ Tol \in Nat /\ Overhang \in Nat

\* playArea pads the frame on every side by more than a tab's overhang.
ASSUME AreaAssumption ==
  /\ Area \in [minX : Int, minY : Int, maxX : Int, maxY : Int]
  /\ Area.minX <= -Overhang /\ Cols * Cell + Overhang <= Area.maxX
  /\ Area.minY <= -Overhang /\ Rows * Cell + Overhang <= Area.maxY

Pieces == 0 .. (Rows * Cols - 1)
Point == [x : Int, y : Int]
Group == [pieces : SUBSET Pieces, position : Point, locked : BOOLEAN]

Plus(a, b) == [x |-> a.x + b.x, y |-> a.y + b.y]
Minus(a, b) == [x |-> a.x - b.x, y |-> a.y - b.y]
SqNorm(v) == v.x * v.x + v.y * v.y
WithinTol(v) == SqNorm(v) <= Tol * Tol

Row(p) == p \div Cols
Col(p) == p % Cols
Frame(p) == [x |-> Col(p) * Cell, y |-> Row(p) * Cell]

\* A group is placed by its lowest-numbered piece.
Anchor(pieces) == Min(pieces)

\* Where piece p of a group with these pieces lies when the anchor is at pos.
WorldOrigin(p, pieces, pos) == Plus(pos, Minus(Frame(p), Frame(Anchor(pieces))))

Dist1(m, n) == m = n + 1 \/ n = m + 1

GridAdjacent(a, b) ==
  \/ Row(a) = Row(b) /\ Dist1(Col(a), Col(b))
  \/ Col(a) = Col(b) /\ Dist1(Row(a), Row(b))

-----------------------------------------------------------------------------
(* Clamping a group to the play area. *)

\* The shift that brings lo..hi inside min..max: the low edge is tested first.
ClampShift(lo, hi, min, max) ==
  IF lo < min THEN min - lo ELSE IF hi > max THEN max - hi ELSE 0

\* Mutated form: measures the anchor piece alone.
ClampAnchorToBoard(pos, pieces) ==
  Plus(pos, [x |-> ClampShift(pos.x - Overhang, pos.x + Cell + Overhang, Area.minX, Area.maxX),
             y |-> ClampShift(pos.y - Overhang, pos.y + Cell + Overhang, Area.minY, Area.maxY)])

ClampGroupToBoard(pos, pieces) ==
  LET xs == {WorldOrigin(p, pieces, pos).x : p \in pieces}
      ys == {WorldOrigin(p, pieces, pos).y : p \in pieces}
  IN  Plus(pos,
        [x |-> ClampShift(Min(xs) - Overhang, Max(xs) + Cell + Overhang,
                          Area.minX, Area.maxX),
         y |-> ClampShift(Min(ys) - Overhang, Max(ys) + Cell + Overhang,
                          Area.minY, Area.maxY)])

\* What clamping is for: every cell of the group, tabs included, is in the area.
InsideArea(pieces, pos) ==
  \A p \in pieces :
    LET o == WorldOrigin(p, pieces, pos) IN
    /\ Area.minX <= o.x - Overhang /\ o.x + Cell + Overhang <= Area.maxX
    /\ Area.minY <= o.y - Overhang /\ o.y + Cell + Overhang <= Area.maxY

-----------------------------------------------------------------------------
(* Alignment candidates of a group dropped at pos. *)

\* How far group g (at gpos) must move for its piece a to fit piece b of h.
Misfit(a, g, gpos, b, h, hpos) ==
  Minus(Minus(Frame(a), Frame(b)),
        Minus(WorldOrigin(a, g, gpos), WorldOrigin(b, h, hpos)))

FrameShift(pieces, pos) == Minus(Frame(Anchor(pieces)), pos)

FrameCandidates(pieces, pos) ==
  {c \in {[kind |-> "frame", translation |-> FrameShift(pieces, pos), target |-> -1]} :
     WithinTol(c.translation)}

MergeCandidates(table, id, pos) ==
  LET mine == table[id].pieces IN
  UNION {{[kind |-> "merge", target |-> h,
           translation |-> Misfit(pair[1], mine, pos, pair[2], table[h].pieces, table[h].position)] :
             pair \in {ab \in mine \X table[h].pieces :
                         /\ GridAdjacent(ab[1], ab[2])
                         /\ WithinTol(Misfit(ab[1], mine, pos, ab[2],
                                             table[h].pieces, table[h].position))}} :
         h \in DOMAIN table \ {id}}

Candidates(table, id, pos) ==
  FrameCandidates(table[id].pieces, pos) \cup MergeCandidates(table, id, pos)

\* Frame before merge, then the shorter translation, then the smaller target.
\* (Adjacent pairs of the same two rigid groups give the same translation.)
Precedes(c, d) ==
  \/ c.kind = "frame" /\ d.kind = "merge"
  \/ /\ c.kind = d.kind
     /\ \/ SqNorm(c.translation) < SqNorm(d.translation)
        \/ /\ SqNorm(c.translation) = SqNorm(d.translation)
           /\ c.target <= d.target

BestCandidate(cands) == CHOOSE c \in cands : \A d \in cands : Precedes(c, d)

-----------------------------------------------------------------------------
(* The groups one drop joins. *)

Connects(table, g, h) ==
  \E a \in table[g].pieces, b \in table[h].pieces :
    /\ GridAdjacent(a, b)
    /\ WithinTol(Misfit(a, table[g].pieces, table[g].position,
                        b, table[h].pieces, table[h].position))

Links(table) ==
  {gh \in (DOMAIN table) \X (DOMAIN table) : Connects(table, gh[1], gh[2])}

\* Mutated form: only the direct neighbours join.
DirectComponent(table, id) ==
  {g \in DOMAIN table : g = id \/ <<id, g>> \in Links(table)}

\* Groups reachable from id through Links: those no closed set around id omits.
Component(table, id) ==
  LET links == Links(table)
      closed == {S \in SUBSET DOMAIN table :
                   id \in S /\ \A gh \in links : gh[1] \in S => gh[2] \in S}
  IN  {g \in DOMAIN table : \A S \in closed : g \in S}

\* The group of the component the others move to: the largest; among equals one
\* that was not dropped, then the one with the smallest anchor.
Preferred(table, id, g, h) ==
  LET m == Cardinality(table[g].pieces)
      n == Cardinality(table[h].pieces)
  IN  \/ m > n
      \/ m = n /\ g # id /\ h = id
      \/ m = n /\ (g = id <=> h = id) /\ Anchor(table[g].pieces) <= Anchor(table[h].pieces)

PickReference(table, component, id) ==
  CHOOSE g \in component : \A h \in component : Preferred(table, id, g, h)

\* The outcome of a drop: the group that results, the ids it absorbs, and the
\* pieces that count for credit (none unless the drop merged or locked).
NoSnapOutcome(group, pos) ==
  [group |-> [group EXCEPT !.position = pos], mergedIds |-> {}, connectedPieces |-> {}]

SnapOutcome(table, id, pos, chosen) ==
  LET aligned == [table EXCEPT ![id].position = Plus(pos, chosen.translation)]
      component == Component(aligned, id)
      union == UNION {table[g].pieces : g \in component}
      home == Frame(Anchor(union))
      ref == aligned[PickReference(table, component, id)]
      rest == Plus(ref.position, Minus(home, Frame(Anchor(ref.pieces))))
      locked == \/ chosen.kind = "frame"
                \/ \E g \in component : table[g].locked
                \/ WithinTol(Minus(rest, home))
  IN  [group |-> [pieces |-> union,
                  position |-> IF locked THEN home ELSE rest,
                  locked |-> locked],
       mergedIds |-> component \ {id},
       connectedPieces |-> IF locked \/ component # {id} THEN union ELSE {}]

EvaluateSnap(table, id, pos) ==
  LET cands == Candidates(table, id, pos)
  IN  IF table[id].locked
        THEN NoSnapOutcome(table[id], table[id].position)
      ELSE IF cands = {}
        THEN NoSnapOutcome(table[id], ClampGroupToBoard(pos, table[id].pieces))
      ELSE SnapOutcome(table, id, pos, BestCandidate(cands))
=============================================================================
