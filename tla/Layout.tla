-------------------------------- MODULE Layout --------------------------------
(***************************************************************************)
(* The cloth around the frame and the cells pieces are scattered on:       *)
(* packages/geometry/src/scatter.ts.  World units, a cell is 100 of them;  *)
(* roots and ratios are rounded down to a unit.  Which piece lands on      *)
(* which cell, and how far it is jittered, is left open.                   *)
(***************************************************************************)
EXTENDS Lengths, FiniteSets, Sequences

CELL_SIZE == 100
SCATTER_PITCH == 160
PIECE_HALF == 50
OVERHANG == 38
MAX_JITTER == 15
FOOTPRINT == PIECE_HALF + OVERHANG + MAX_JITTER

Widened(b, dx, dy) ==
  [minX |-> b.minX - dx, minY |-> b.minY - dy, maxX |-> b.maxX + dx, maxY |-> b.maxY + dy]

WidthOf(b) == b.maxX - b.minX
HeightOf(b) == b.maxY - b.minY

FrameOf(g) ==
  [minX |-> 0, minY |-> 0, maxX |-> g.cols * CELL_SIZE, maxY |-> g.rows * CELL_SIZE]

\* Math.sqrt, rounded down: found in steps of 256 first.
Coarse(n) ==
  CHOOSE t \in 0..(n \div 65536) : (256 * t) * (256 * t) <= n /\ (256 * t + 256) * (256 * t + 256) > n
Root(n) ==
  LET t == 256 * Coarse(n)
  IN  CHOOSE r \in t..(t + 255) : r * r <= n /\ (r + 1) * (r + 1) > n

\* The root of (w + 2t)(h + 2t) - wh = need.
Band(g) ==
  LET half == (g.rows + g.cols) * CELL_SIZE
      need == g.rows * g.cols * 145 * ((SCATTER_PITCH * SCATTER_PITCH) \div 100)
  IN  (Root(half * half + 4 * need) - half) \div 4

SortingInset(g) == Larger(Band(g), FOOTPRINT + SCATTER_PITCH)

ScatterBounds(g) ==
  LET reach == SortingInset(g) + FOOTPRINT IN Widened(FrameOf(g), reach, reach)

\* Widened to 16:10.
PlayArea(g) ==
  LET b == ScatterBounds(g)
      w == WidthOf(b)
      h == HeightOf(b)
  IN  Widened(b, (Larger(w, (h * 8) \div 5) - w) \div 2, (Larger(h, (w * 5) \div 8) - h) \div 2)

MatBounds(g) ==
  LET p == PlayArea(g)
      hem == (2 * Smaller(WidthOf(p), HeightOf(p))) \div 96
  IN  Widened(p, hem, hem)

-----------------------------------------------------------------------------
(* initialScatter *)

\* A tried pitch is in tenths of a unit, the cells it spaces are on whole units.
Lattice(lo, hi, pitch) == {lo + (k * pitch) \div 10 : k \in 0..((10 * (hi - lo)) \div pitch)}

\* Mutated form: the frame is cleared by a piece, not by its tabs and jitter.
InFrameOnly(c, g, footprint) ==
  /\ c.x >= -PIECE_HALF /\ c.x <= g.cols * CELL_SIZE + PIECE_HALF
  /\ c.y >= -PIECE_HALF /\ c.y <= g.rows * CELL_SIZE + PIECE_HALF

InsideFrame(c, g, footprint) ==
  /\ c.x >= -footprint /\ c.x <= g.cols * CELL_SIZE + footprint
  /\ c.y >= -footprint /\ c.y <= g.rows * CELL_SIZE + footprint

ValidCellCenters(g, pitch, footprint) ==
  LET b == PlayArea(g)
      xs == Lattice(b.minX + footprint, b.maxX - footprint, pitch)
      ys == Lattice(b.minY + footprint, b.maxY - footprint, pitch)
  IN  {c \in [x : xs, y : ys] : ~InsideFrame(c, g, footprint)}

\* The jitters and pitches tried, in order: each jitter with the full pitch and with it
\* tightened by 0.85 once and twice, a third time being too tight.
Pitches == <<10 * SCATTER_PITCH, 1360, 1156>>
Tries ==
  [n \in 1..12 |-> [jitter |-> MAX_JITTER - 5 * ((n - 1) \div 3), pitch |-> Pitches[1 + ((n - 1) % 3)]]]

CentersOf(g, t) == ValidCellCenters(g, t.pitch, PIECE_HALF + OVERHANG + t.jitter)

\* The first try with a cell for every piece, the last one if there is none (then
\* the code throws when it reads the missing cell; EnoughCells).
ChosenTry(g) ==
  LET enough(i) == Cardinality(CentersOf(g, Tries[i])) >= g.rows * g.cols
  IN  CHOOSE i \in 1..Len(Tries) :
        /\ enough(i) \/ i = Len(Tries)
        /\ \A j \in 1..(i - 1) : ~enough(j)

\* distanceToFrame, squared.
DistanceToFrame(c, g) ==
  LET dx == Larger(0, Larger(-c.x, c.x - g.cols * CELL_SIZE))
      dy == Larger(0, Larger(-c.y, c.y - g.rows * CELL_SIZE))
  IN  dx * dx + dy * dy

\* The cells that are eligible: the nearest 1.45 per piece.
Eligible(g, centers) ==
  LET far == [c \in centers |-> DistanceToFrame(c, g)]
      before(a, b) == \/ far[a] < far[b]
                      \/ far[a] = far[b] /\ (a.y < b.y \/ (a.y = b.y /\ a.x < b.x))
  IN  {c \in centers :
         Cardinality({o \in centers : before(o, c)}) < (g.rows * g.cols * 145 + 99) \div 100}

\* initialScatter: piece ids take distinct cells, each jittered by at most jitter.
InitialScatter(g) ==
  LET t == Tries[ChosenTry(g)]
  IN  [cells |-> Eligible(g, CentersOf(g, t)),
       jitter |-> Smaller(t.jitter, (t.pitch - 10 * CELL_SIZE) \div 20)]
=============================================================================
