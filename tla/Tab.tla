--------------------------------- MODULE Tab ---------------------------------
(***************************************************************************)
(* One jigsaw tab: buildTabEdge (packages/geometry/src/path.ts) for rooms  *)
(* with a plain seed, drawTab (packages/geometry/src/variety.ts) for rooms *)
(* with a "shape2:" seed.  A tab is the numbers drawn for it.  Lengths are *)
(* in 1/10000 of a cell, ratios in percent.  Only the seven points of the  *)
(* knob are kept; the straight run-in and run-out lie on the edge.         *)
(***************************************************************************)
EXTENDS Lengths

CellUnit == 10000

\* What drawTab may draw.
DrawnTabs ==
  [style : {"varied"}, height : 1800..3800, half : 1200..4900, centre : -9..9,
   neck : 24..62, lean : -12..12, skew : -12..12, shoulder : 12..42, crown : 65..100]

\* The corners of the boxes the parameters are drawn from.
LegacyTabs ==
  [style : {"legacy"}, pos : {-600, 600}, size : {-1000, 1000},
   tilt : {-400, 400}, asymmetry : {-500, 500}]
VariedTabs ==
  [style : {"varied"}, height : {1800, 3800}, half : {1200, 4900}, centre : {-9, 9},
   neck : {24, 62}, lean : {-12, 12}, skew : {-12, 12},
   shoulder : {12, 42}, crown : {65, 100}]

Percent(p, n) == (p * n) \div 100
At(u, w) == [u |-> u, w |-> w]

\* TAB_MAX_HEIGHT_RATIO: what others keep free beyond a cell for its tabs.
MaxTabHeight == 2800 + 1000

BuildTabEdge(t) ==
  LET tc == CellUnit \div 2 + t.pos
      h == 2800 + t.size
      apex == tc + t.tilt
      bwL == 2000 + t.asymmetry
      bwR == 2000 - t.asymmetry
  IN  [neckL |-> At(tc - 1100, 0), neckR |-> At(tc + 1100, 0),
       shoulderL |-> At(apex - bwL, Percent(20, h)), shoulderR |-> At(apex + bwR, Percent(20, h)),
       crownL |-> At(apex - bwL, Percent(90, h)), crownR |-> At(apex + bwR, Percent(90, h)),
       apex |-> At(apex, h)]

\* Every control point stays inside the edge's triangular corridor.
Margin == 150
Safe(u, w) == At(Larger(w + Margin, Smaller(CellUnit - w - Margin, u)), w)

\* Narrower than both shoulders after clipping.
NeckHalf(proposed, centre, left, right) ==
  Smaller(proposed, Percent(98, Smaller(centre - left.u, right.u - centre)))

DrawTab(t) ==
  LET centre == CellUnit \div 2 + Percent(t.centre, CellUnit - t.half)
      apex == centre + Percent(t.lean, t.half)
      skew == Percent(t.skew, t.half)
      left == Safe(apex - t.half - skew, Percent(t.shoulder, t.height))
      right == Safe(apex + t.half - skew, Percent(t.shoulder, t.height))
      neck == NeckHalf(Percent(t.neck, t.half), centre, left, right)
  IN  [neckL |-> At(centre - neck, 0), neckR |-> At(centre + neck, 0),
       shoulderL |-> left, shoulderR |-> right,
       crownL |-> Safe(apex - t.half - skew, Percent(t.crown, t.height)),
       crownR |-> Safe(apex + t.half - skew, Percent(t.crown, t.height)),
       apex |-> Safe(apex, t.height)]

Knob(t) == IF t.style = "legacy" THEN BuildTabEdge(t) ELSE DrawTab(t)

\* The tab whose curve is t's read from its other end: u becomes 1 - u.
Mirror(t) ==
  IF t.style = "legacy"
  THEN [t EXCEPT !.pos = -@, !.tilt = -@, !.asymmetry = -@]
  ELSE [t EXCEPT !.centre = -@, !.lean = -@, !.skew = -@]
=============================================================================
