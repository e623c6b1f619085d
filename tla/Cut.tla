--------------------------------- MODULE Cut ---------------------------------
(***************************************************************************)
(* A puzzle's pieces and their edges: generatePuzzle                       *)
(* (packages/geometry/src/puzzle.ts), and the silhouettes applyVariety     *)
(* tells apart (packages/geometry/src/variety.ts).  Pieces are numbered    *)
(* row by row from 0.  Every piece keeps its own copy of its four edges,   *)
(* [kind, tab], as the code's descriptors do.  Two edges either look the   *)
(* same or do not: the distance of two silhouettes is how many sides of    *)
(* them differ, in place of the root mean square of their sampled points.  *)
(***************************************************************************)
EXTENDS Tab, Sequences, FiniteSets, FiniteSetsExt

SIDES == <<"top", "right", "bottom", "left">>
SideSet == {"top", "right", "bottom", "left"}

PieceIds(g) == 0..(g.rows * g.cols - 1)
RowOf(g, p) == p \div g.cols
ColOf(g, p) == p % g.cols

AtBorder(g, p, s) ==
  CASE s = "top" -> RowOf(g, p) = 0
    [] s = "right" -> ColOf(g, p) = g.cols - 1
    [] s = "bottom" -> RowOf(g, p) = g.rows - 1
    [] s = "left" -> ColOf(g, p) = 0

\* Where it is not at the border.
NeighborOf(g, p, s) ==
  CASE s = "top" -> p - g.cols
    [] s = "right" -> p + 1
    [] s = "bottom" -> p + g.cols
    [] s = "left" -> p - 1

Facing == [top |-> "bottom", bottom |-> "top", left |-> "right", right |-> "left"]

\* An internal edge belongs to the piece it is to the right of or below.
SharedEdge(g, p, s) ==
  IF s \in {"right", "bottom"} THEN <<p, s>> ELSE <<NeighborOf(g, p, s), Facing[s]>>
SharedEdges(g) ==
  {e \in PieceIds(g) \X {"right", "bottom"} : ~AtBorder(g, e[1], e[2])}

FlatEdge == [kind |-> "flat"]

DescriptorFor(s, sign, tab) ==
  [kind |-> IF (sign > 0) = (s \in {"right", "bottom"}) THEN "tab" ELSE "blank", tab |-> tab]

\* sign and tab: what was drawn for each internal edge.
GeneratePuzzle(g, sign, tab) ==
  [p \in PieceIds(g) |->
     [s \in SideSet |->
        IF AtBorder(g, p, s) THEN FlatEdge
        ELSE LET e == SharedEdge(g, p, s) IN DescriptorFor(s, sign[e], tab[e])]]

-----------------------------------------------------------------------------
(* Silhouettes: the four sides clockwise, each seen from the piece.          *)

Seen(s, edge) ==
  IF edge.kind = "flat" THEN edge
  ELSE IF s \in {"bottom", "left"} THEN [edge EXCEPT !.tab = Mirror(@)] ELSE edge

Silhouette(piece) == [i \in 1..4 |-> Seen(SIDES[i], piece[SIDES[i]])]

Kinds(shape) == [i \in 1..4 |-> shape[i].kind]
Turned(shape, turn) == [i \in 1..4 |-> shape[((i - 1 + turn) % 4) + 1]]

\* Of two silhouettes with the same kinds.
SilhouetteDistance(a, b) == Cardinality({i \in 1..4 : a[i] # b[i]})

Unmatched == 5  \* Infinity: farther than any two silhouettes

\* How far shape is from the nearest of the silhouettes in seen.
DistanceToPeers(shape, seen) ==
  Min({Unmatched}
        \cup {SilhouetteDistance(shape, o) : o \in {o \in seen : Kinds(o) = Kinds(shape)}})

\* A finished piece is remembered in every quarter turn.
AllTurns(shape) == {Turned(shape, turn) : turn \in 0..3}

\* Only the right and bottom edges of a piece are not those of an earlier one.
MutableSides(piece) == {s \in {"right", "bottom"} : piece[s].kind # "flat"}

Redrawn(piece, tabs) ==
  [s \in SideSet |-> IF s \in DOMAIN tabs THEN [piece[s] EXCEPT !.tab = tabs[s]] ELSE piece[s]]

\* The neighbours' copies of the edges that are p's to choose.
\* As a mutated form of Committed: the piece itself keeps its last attempt.
NeighborsOnly(g, edges, p, chosen) ==
  [q \in DOMAIN edges |->
     LET theirs == {s \in DOMAIN chosen : NeighborOf(g, p, s) = q}
     IN  Redrawn(edges[q], [t \in {Facing[s] : s \in theirs} |-> chosen[Facing[t]]])]

\* The chosen tabs go to the piece and to the neighbours that share them.
Committed(g, edges, p, chosen) ==
  [NeighborsOnly(g, edges, p, chosen) EXCEPT ![p] = Redrawn(@, chosen)]
=============================================================================
