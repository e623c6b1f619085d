------------------------------- MODULE Picture -------------------------------
(***************************************************************************)
(* From a picture and a piece count to a grid: deriveGrid                  *)
(* (packages/geometry/src/grid.ts) and processUploadedImage                *)
(* (apps/server/src/images/process-image.ts).  A picture is its size in    *)
(* pixels and what is wrong with its bytes; reasons of refusals are left   *)
(* out.  Logarithms are in units of 1 / LnUnit.                            *)
(***************************************************************************)
EXTENDS Lengths

MIN_CELL_PX == 50
MAX_DIMENSION_PX == 2048

LnUnit == 32000
LnTerms == 12

Distance(a, b) == Larger(a, b) - Smaller(a, b)
Rounded(a, b) == (2 * a + b) \div (2 * b)

\* 1 + q / 3 + q^2 / 5 + ...
Series(q) ==
  LET term[k \in 0..LnTerms] ==
        LnUnit \div (2 * k + 1)
          + (IF k = LnTerms THEN 0 ELSE (term[k + 1] * q) \div LnUnit)
  IN  term[0]

\* |ln(a / b)| = 2 artanh z = 2 z (1 + z^2 / 3 + z^4 / 5 + ...) for
\* z = |a - b| / (a + b), the division in two steps for the sake of 32 bits.
LnRatio(a, b) ==
  LET d == Distance(a, b) * 200
      z == (d \div (a + b)) * (LnUnit \div 200)
             + ((d % (a + b)) * (LnUnit \div 200)) \div (a + b)
  IN  (z * Series((z * z) \div LnUnit)) \div (LnUnit \div 2)

-----------------------------------------------------------------------------
(* deriveGrid *)

\* Math.round(Math.sqrt(target * height / width)), without the root.
IdealRows(target, w, h) ==
  CHOOSE r \in 0..(target * h) :
    /\ (2 * r - 1) * (2 * r - 1) * w <= 4 * target * h \/ r = 0
    /\ (2 * r + 1) * (2 * r + 1) * w > 4 * target * h

Near(x, d) == {n \in (x - d)..(x + d) : n >= 1}

Candidates(target, w, h) ==
  UNION {{[rows |-> r, cols |-> c] : c \in Near(Rounded(target, r), 1)} :
           r \in Near(IdealRows(target, w, h), 3)}

SquarenessErr(g, w, h) == LnRatio(w * g.rows, h * g.cols)
CountErr(g, target) == (Distance(g.rows * g.cols, target) * LnUnit) \div target

\* Mutated form: the shape is left out, the count alone decides.
CostOfCount(g, target, w, h) == CountErr(g, target)

Cost(g, target, w, h) == SquarenessErr(g, w, h) + CountErr(g, target)

\* The first of the cheapest: rows, then columns, ascending.
DeriveGrid(target, w, h) ==
  LET all == Candidates(target, w, h)
      cost == [g \in all |-> Cost(g, target, w, h)]
      cheapest == {g \in all : \A o \in all : cost[g] <= cost[o]}
  IN  CHOOSE g \in cheapest :
        \A o \in cheapest : g.rows < o.rows \/ (g.rows = o.rows /\ g.cols <= o.cols)

EnoughPixels(g, w, h) == w >= MIN_CELL_PX * g.cols /\ h >= MIN_CELL_PX * g.rows

-----------------------------------------------------------------------------
(* processUploadedImage.  A file is [width, height, fault], where fault is   *)
(* "none", or "unfit": too many bytes, not an image, or not one of the       *)
(* accepted formats, or "corrupt": the header is read, the encoder fails.    *)

\* fit: "inside" withoutEnlargement.
Downscaled(f) ==
  LET long == Larger(f.width, f.height)
      scaled(n) == IF long <= MAX_DIMENSION_PX THEN n
                   ELSE Larger(1, Rounded(n * MAX_DIMENSION_PX, long))
  IN  [width |-> scaled(f.width), height |-> scaled(f.height)]

Original(f) == [width |-> f.width, height |-> f.height]

\* validatePieceGrid's verdict on an image of size s: {} or {the grid}.
ValidatePieceGrid(target, s) ==
  {g \in {DeriveGrid(target, s.width, s.height)} : EnoughPixels(g, s.width, s.height)}

\* What is stored of an upload: the encoded picture's size, and the size the
\* gallery keeps of it (handleCreateRoom).
\* Mutated form: the gallery keeps the encoded picture's size.
RecordedProcessed(f) == [stored |-> Downscaled(f), recorded |-> Downscaled(f)]

Recorded(f) == [stored |-> Downscaled(f), recorded |-> Original(f)]

\* {} or {the grid}.
ProcessUploadedImage(f, target) ==
  IF f.fault = "none" THEN ValidatePieceGrid(target, Original(f)) ELSE {}
=============================================================================
