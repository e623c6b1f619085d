----------------------------- MODULE TableProps -----------------------------
(***************************************************************************)
(* What a table has to be, whichever way it came to be.                    *)
(***************************************************************************)
EXTENDS Table

Sizes == [width : Nat, height : Nat]
Grids == [rows : Nat \ {0}, cols : Nat \ {0}]

\* Every variable has its type (Picture, Cut, Layout, Camera).
TypeOK ==
  /\ stage \in {"home", "made", "cutting", "cut", "laid", "open"}
  /\ picture = None \/ (picture.file \in Files /\ picture.stored \in Sizes /\ picture.recorded \in Sizes)
  /\ room = None \/ room.grid \in Grids
  /\ DOMAIN edges \subseteq Nat /\ IsFiniteSet(seen)
  /\ pen.piece \in Nat /\ pen.tries \in 0..MAX_ATTEMPTS /\ pen.best \in -1..Unmatched
  /\ DOMAIN pen.chosen \subseteq {"right", "bottom"}
  /\ tired \subseteq 0..pen.piece
  /\ stage = "laid" => (layout.cells \subseteq [x : Int, y : Int] /\ layout.jitter \in Nat)
  /\ vp = None \/ vp \in Viewports
  /\ camera = None \/ camera \in [x : Int, y : Int, scale : Nat \ {0}]
  /\ gestures \in 0..MaxGestures

-----------------------------------------------------------------------------
(* The picture.                                                              *)

\* Whether a room is made of an upload or of the gallery's copy of it, its grid
\* is the one the upload itself stands for, and every piece of it has its 50
\* pixels there: processing a picture never changes the verdict on it
\* (process-image.ts: ProcessedImage.grid, validatePieceGrid).
JudgedByOriginal ==
  stage = "made" =>
    LET f == picture.file IN
    /\ f.fault = "none"
    /\ room.grid = DeriveGrid(room.target, f.width, f.height)
    /\ EnoughPixels(room.grid, f.width, f.height)

\* Of the piece counts the product offers, no room has pieces more than root two
\* times as long as wide, nor misses the count by more than 15%: the window
\* deriveGrid searches holds such a grid (grid.test.ts).
NearSquare ==
  stage = "made" /\ room.target >= 100 =>
    LET w == picture.file.width * room.grid.rows
        h == picture.file.height * room.grid.cols
        count == room.grid.rows * room.grid.cols
    IN  /\ 100 * w <= 141 * h /\ 100 * h <= 141 * w
        /\ 100 * (count - room.target) <= 15 * room.target
        /\ 100 * (room.target - count) <= 15 * room.target

-----------------------------------------------------------------------------
(* The cut.                                                                  *)

Done == {p \in DOMAIN edges : p < pen.piece}

\* Across each side of a finished piece lies the border, or a neighbour whose
\* copy of the edge is the same curve with the opposite kind: neither its own
\* redrawing nor that of a later piece tears them apart (applyVariety).
Interlocking ==
  \A p \in Done, s \in SideSet :
    IF AtBorder(Grid, p, s) THEN edges[p][s] = FlatEdge
    ELSE LET mine == edges[p][s]
             theirs == edges[NeighborOf(Grid, p, s)][Facing[s]]
         IN  mine.tab = theirs.tab /\ {mine.kind, theirs.kind} = {"tab", "blank"}

\* No finished piece fits over another, in any quarter turn, unless every
\* attempt at the later one was too close: the silhouettes it was compared with
\* are still those of the pieces on the table (applyVariety).
NoTwins ==
  \A p, q \in Done : p < q /\ q \notin tired /\ seen # {} =>
    \A turn \in 0..3 :
      LET a == Turned(Silhouette(edges[p]), turn)
          b == Silhouette(edges[q])
      IN  Kinds(a) = Kinds(b) => SilhouetteDistance(a, b) >= MIN_DISTANCE

\* Every tab that is drawn holds its neighbour and leaves the rest alone: the
\* knob is at least as wide as its neck on both flanks, stays inside the edge's
\* corridor (inside 15% of its ends for plain seeds), and is no higher than what
\* the scatter and the tiles keep free for it (drawTab, buildTabEdge,
\* TAB_MAX_HEIGHT_RATIO).
TabsHold ==
  \A p \in Done : \A s \in SideSet : edges[p][s].kind # "flat" =>
    LET k == Knob(edges[p][s].tab)
        points == {k.shoulderL, k.shoulderR, k.crownL, k.crownR, k.apex}
    IN  /\ k.shoulderL.u <= k.neckL.u /\ k.neckL.u < k.neckR.u /\ k.neckR.u <= k.shoulderR.u
        /\ \A c \in points :
             LET room_ == IF edges[p][s].tab.style = "legacy" THEN 1500 ELSE c.w + Margin
             IN  room_ <= c.u /\ c.u <= CellUnit - room_ /\ c.w <= MaxTabHeight

\* The finished pieces fit together, hold, and fit nowhere else.
PiecesFit == Interlocking /\ NoTwins /\ TabsHold

-----------------------------------------------------------------------------
(* The scatter.                                                              *)

Apart(a, b, d) == a - b >= d \/ b - a >= d

\* Among the pitches and jitters that are tried is one with a cell for each piece
\* (initialScatter reads centers[id] for each).
EnoughCells ==
  stage = "laid" => Cardinality(layout.cells) >= Grid.rows * Grid.cols

\* What the two searches look for lies among what they try: a grid near the
\* picture's shape and the count, and room for every piece.
SearchesSucceed == NearSquare /\ EnoughCells

\* Whatever cells the shuffle deals and however far the pieces are jittered: no
\* two pieces' cells overlap, and each piece with its tabs lies inside the play
\* area and off the frame (initialScatter).
ScatterIsRoomy ==
  stage = "laid" =>
    LET area == PlayArea(Grid)
        frame == FrameOf(Grid)
        reach == PIECE_HALF + OVERHANG + layout.jitter
        pitch == CELL_SIZE + 2 * layout.jitter
    IN  /\ \A c, o \in layout.cells : c # o => Apart(c.x, o.x, pitch) \/ Apart(c.y, o.y, pitch)
        /\ \A c \in layout.cells :
             /\ c.x - reach >= area.minX /\ c.x + reach <= area.maxX
             /\ c.y - reach >= area.minY /\ c.y + reach <= area.maxY
             /\ \/ c.x + reach <= frame.minX \/ c.x - reach >= frame.maxX
                \/ c.y + reach <= frame.minY \/ c.y - reach >= frame.maxY

-----------------------------------------------------------------------------
(* The camera.                                                               *)

Corners(b) == [x : {b.minX, b.maxX}, y : {b.minY, b.maxY}]
XOnScreen(cam, wx) == OnScreen(wx, cam.scale) + cam.x
YOnScreen(cam, wy) == OnScreen(wy, cam.scale) + cam.y

\* Past both the mat and the screen.
Far(mat) ==
  OnScreen(WidthOf(mat), camera.scale) + OnScreen(HeightOf(mat), camera.scale)
    + vp.width + vp.height + PAN_OVERSCROLL_PX

\* The camera after a pan that would take the mat's corner to dx, dy.
Panned(mat, dx, dy) ==
  ClampCamera([camera EXCEPT !.x = dx - OnScreen(mat.minX, camera.scale),
                             !.y = dy - OnScreen(mat.minY, camera.scale)], mat, vp)

PanelWidth == 280  \* .players-panel, constants.ts
TrayHeight == 84   \* .room-menu, constants.ts

\* However the board was panned, zoomed and resized, panning alone brings any
\* spot a piece can lie on out from under the players panel at the right and the
\* tray at the bottom, and back into view from the left and the top
\* (clampCamera; constants.ts on PAN_OVERSCROLL_PX).
ClearOfPanel ==
  stage = "open" =>
    LET mat == Mat
        area == Corners(layout.area)
        west == Panned(mat, -Far(mat), 0)
        east == Panned(mat, Far(mat), 0)
        north == Panned(mat, 0, -Far(mat))
        south == Panned(mat, 0, Far(mat))
    IN  \A c \in area :
          /\ XOnScreen(west, c.x) <= vp.width - PanelWidth /\ XOnScreen(east, c.x) >= 0
          /\ YOnScreen(north, c.y) <= vp.height - TrayHeight /\ YOnScreen(south, c.y) >= 0

\* A zoom keeps the spot under the cursor there, to a pixel and a world unit (the
\* grain of the model), from wherever the gestures and resizes before it have left
\* the camera, unless the board's edge stops it (zoomAt).
AnchorHolds ==
  stage = "open" =>
    LET mat == Mat IN
    \A factor \in Factors, a \in Anchors(vp) :
      LET after == ZoomAt(camera, factor, a, mat, vp)
          stopped(d) == ClampCamera(Moved(after, d), mat, vp)
          near == -(after.scale \div Scale + 1)..0
          wx == ((a.x - camera.x) * Scale) \div camera.scale
          wy == ((a.y - camera.y) * Scale) \div camera.scale
      IN  /\ \/ XOnScreen(after, wx) - a.x \in near
             \/ stopped([x |-> 5, y |-> 0]) = after \/ stopped([x |-> -5, y |-> 0]) = after
          /\ \/ YOnScreen(after, wy) - a.y \in near
             \/ stopped([x |-> 0, y |-> 5]) = after \/ stopped([x |-> 0, y |-> -5]) = after

\* Whatever the gestures and resizes so far, every piece can be brought into reach
\* and a zoom stays where it is aimed.
CameraServes == TypeOK /\ ClearOfPanel /\ AnchorHolds

\* Some of the mat is always on the screen (camera.ts on clampCamera: "so the
\* mat can't be dragged entirely out of view").  The code does not keep it on small
\* screens (README, section 5).
MatInView ==
  stage = "open" =>
    LET b == Mat
    IN  /\ XOnScreen(camera, b.maxX) > 0 /\ XOnScreen(camera, b.minX) < vp.width
        /\ YOnScreen(camera, b.maxY) > 0 /\ YOnScreen(camera, b.minY) < vp.height
=============================================================================
