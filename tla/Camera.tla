-------------------------------- MODULE Camera --------------------------------
(***************************************************************************)
(* Pan and zoom: apps/web/src/board/camera.ts.  A camera is [x, y, scale]: *)
(* x, y in screen pixels, the scale in units of 1 / Scale pixels per world *)
(* unit.  mat is matBounds(rows, cols), which the code works out at every  *)
(* call.                                                                   *)
(***************************************************************************)
EXTENDS Layout

Scale == 10000

BOARD_FIT_TRAY_INSET_PX == 104
PAN_OVERSCROLL_PX == 290

\* A world length on the screen.
OnScreen(n, scale) == (n * scale) \div Scale

FitBox(vp) == [width |-> vp.width, height |-> Larger(1, vp.height - BOARD_FIT_TRAY_INSET_PX)]

\* The scale at which bounds b fill 92% of the clear area.
Fit(b, vp) ==
  LET box == FitBox(vp)
      fit == (Smaller((box.width * Scale) \div WidthOf(b), (box.height * Scale) \div HeightOf(b)) * 92)
               \div 100
  IN  IF fit > 0 THEN fit ELSE Scale \div 100

MinScale(mat, vp) == Fit(mat, vp)

\* A cell fills 45% of the smaller side.
MaxScale(vp) ==
  (Larger(1, Smaller(vp.width, vp.height)) * 45 * (Scale \div 100)) \div CELL_SIZE

ClampScale(scale, mat, vp) ==
  LET lo == MinScale(mat, vp)
      hi == Larger(lo, MaxScale(vp))
  IN  Smaller(hi, Larger(lo, scale))

\* Mutated form: no slack beyond the viewport.
ClampEdgeTight(edge, size, vpSize) ==
  Smaller(Larger(0, vpSize - size), Larger(Smaller(0, vpSize - size), edge))

ClampEdge(edge, size, vpSize) ==
  Smaller(Larger(0, vpSize - size) + PAN_OVERSCROLL_PX,
          Larger(Smaller(0, vpSize - size) - PAN_OVERSCROLL_PX, edge))

ClampCamera(cam, mat, vp) ==
  LET left == OnScreen(mat.minX, cam.scale)
      top == OnScreen(mat.minY, cam.scale)
  IN  [cam EXCEPT !.x = ClampEdge(@ + left, OnScreen(WidthOf(mat), cam.scale), vp.width) - left,
                  !.y = ClampEdge(@ + top, OnScreen(HeightOf(mat), cam.scale), vp.height) - top]

FitCamera(g, vp) ==
  LET b == ScatterBounds(g)
      box == FitBox(vp)
      scale == ClampScale(Fit(b, vp), MatBounds(g), vp)
  IN  [x |-> (box.width - OnScreen(WidthOf(b), scale)) \div 2 - OnScreen(b.minX, scale),
       y |-> (box.height - OnScreen(HeightOf(b), scale)) \div 2 - OnScreen(b.minY, scale),
       scale |-> scale]

\* ... for the scale that is used.
UsedScale(asked, clamped) == clamped

\* The offset at which the world point under the anchor stays under it.
Anchored(cam, anchor, scale) ==
  [x |-> anchor.x - ((anchor.x - cam.x) * scale) \div cam.scale,
   y |-> anchor.y - ((anchor.y - cam.y) * scale) \div cam.scale,
   scale |-> scale]

\* factor is [by, over]: the scale is multiplied by by / over.
ZoomAt(cam, factor, anchor, mat, vp) ==
  LET asked == (cam.scale * factor.by) \div factor.over
      clamped == ClampScale(asked, mat, vp)
  IN  ClampCamera([Anchored(cam, anchor, UsedScale(asked, clamped)) EXCEPT !.scale = clamped], mat, vp)
=============================================================================
