-------------------------------- MODULE Table --------------------------------
(***************************************************************************)
(* How a table comes to be: a picture is uploaded, or taken again from the *)
(* gallery, and judged (Picture); its grid is cut, piece after piece       *)
(* (Cut); the pieces are scattered (Layout); a player looks at them        *)
(* through a camera (Camera).  What a later stage does not read of an      *)
(* earlier one is forgotten when the stage begins.                         *)
(***************************************************************************)
EXTENDS Picture, Cut, Camera

CONSTANTS
  Files,        \* the files that may be uploaded
  Targets,      \* the piece counts that may be asked for
  MAX_ATTEMPTS, \* the drawings tried for a piece
  MIN_DISTANCE, \* the sides two pieces have to differ in
  FewTabs,      \* bound: the tabs drawn in a room of more than two pieces
  MaxCut,       \* bound: a larger room is not cut piece by piece here
  MaxLaid,      \* bound: a larger room is not opened here
  Viewports,    \* the sizes the board has on the screen
  Step,         \* the pixels a pan or a pinch moves
  MaxGestures   \* bound on the gestures and resizes at an open board

ASSUME AttemptsAssumption == MAX_ATTEMPTS \in Nat \ {0}
ASSUME DistanceAssumption == MIN_DISTANCE \in Nat
ASSUME FilesAssumption ==
  Files \subseteq [width : Nat \ {0}, height : Nat \ {0}, fault : {"none", "unfit", "corrupt"}]
ASSUME TargetsAssumption == Targets \subseteq Nat \ {0}
ASSUME TabsAssumption == FewTabs \subseteq DrawnTabs
ASSUME ViewportsAssumption == Viewports \subseteq [width : Nat, height : Nat]
ASSUME GesturesAssumption == Step \in Nat /\ MaxGestures \in Nat

VARIABLES
  stage,    \* "home", "made", "cutting", "cut", "laid", "open"
  picture,  \* the gallery's record: [file, stored, recorded], or None
  room,     \* [target, grid], or None
  edges,    \* piece -> side -> edge
  seen,     \* the silhouettes of the finished pieces, in all turns
  pen,      \* the piece being drawn: [piece, tries, best, chosen]
  tired,    \* the pieces that ran out of attempts
  layout,   \* [cells, jitter], then [area, mat], or None
  vp,       \* the viewport: app.screen, and the canvas's client size, which Pixi
            \* sets with it (autoDensity, BoardCanvas.tsx)
  camera,
  gestures  \* gestures left

cutting == <<edges, seen, pen, tired>>
viewing == <<vp, camera, gestures>>
tableVars == <<stage, picture, room, cutting, layout, viewing>>

None == << >>
Grid == room.grid
Unmarked == [piece |-> 0, tries |-> 0, best |-> -1, chosen |-> << >>]
NoCut == edges = << >> /\ seen = {} /\ pen = Unmarked /\ tired = {}
NoView == vp = None /\ camera = None /\ gestures = MaxGestures

Init ==
  /\ stage = "home" /\ picture = None /\ room = None
  /\ NoCut /\ layout = None /\ NoView

Made(target, grids) ==
  \E g \in grids : stage' = "made" /\ room' = [target |-> target, grid |-> g]

\* handleCreateRoom with a new file.
Upload(f, target) ==
  /\ stage = "home"
  /\ Made(target, ProcessUploadedImage(f, target))
  /\ picture' = [file |-> f, stored |-> Recorded(f).stored, recorded |-> Recorded(f).recorded]
  /\ UNCHANGED <<cutting, layout, viewing>>

\* ... with a picture of the gallery.
FromGallery(target) ==
  /\ stage = "made"
  /\ Made(target, ValidatePieceGrid(target, picture.recorded))
  /\ UNCHANGED <<picture, cutting, layout, viewing>>

-----------------------------------------------------------------------------
(* The cut.                                                                  *)

Large == Grid.rows * Grid.cols > MaxCut

\* The tabs that may be drawn: every corner of the box in a room of two pieces.
Palette(g) == IF g.rows * g.cols <= 2 THEN VariedTabs ELSE FewTabs

\* A "shape2:" seed draws every edge again, so what generatePuzzle drew for it
\* does not matter; nor does anything tell apart the tabs of a plain seed.
FirstTabs(varied, g) ==
  IF ~varied /\ g.rows * g.cols <= 2 THEN LegacyTabs ELSE {CHOOSE t \in LegacyTabs : TRUE}

OpenRoom(varied) ==
  /\ stage = "made" /\ Grid.rows * Grid.cols <= MaxLaid
  /\ picture' = None /\ room' = [grid |-> Grid]
  /\ IF Large THEN stage' = "cut" /\ UNCHANGED <<edges, pen>>
     ELSE /\ stage' = "cutting"
          /\ \E sign \in [SharedEdges(Grid) -> {-1, 1}],
                tab \in [SharedEdges(Grid) -> FirstTabs(varied, Grid)] :
               edges' = GeneratePuzzle(Grid, sign, tab)
          /\ pen' = [Unmarked EXCEPT !.piece = IF varied THEN 0 ELSE Grid.rows * Grid.cols]
  /\ UNCHANGED <<seen, tired, layout, viewing>>

Mutable == MutableSides(edges[pen.piece])
Settled == pen.best >= MIN_DISTANCE \/ (pen.tries > 0 /\ Mutable = {})

\* One round of the loop over attempts: the mutable edges are drawn, and kept
\* in mind if no attempt was farther from the finished pieces.
Attempt ==
  /\ stage = "cutting" /\ pen.piece \in PieceIds(Grid)
  /\ ~Settled /\ pen.tries < MAX_ATTEMPTS
  /\ \E tabs \in [Mutable -> Palette(Grid)] :
       LET drawn == Redrawn(edges[pen.piece], tabs)
           distance == DistanceToPeers(Silhouette(drawn), seen)
           better == distance > pen.best
       IN  /\ edges' = [edges EXCEPT ![pen.piece] = drawn]
           /\ pen' = [pen EXCEPT !.tries = @ + 1,
                                 !.best = IF better THEN distance ELSE @,
                                 !.chosen = IF better THEN tabs ELSE @]
  /\ UNCHANGED <<stage, picture, room, seen, tired, layout, viewing>>

Commit ==
  /\ stage = "cutting" /\ pen.piece \in PieceIds(Grid)
  /\ Settled \/ pen.tries = MAX_ATTEMPTS
  /\ edges' = Committed(Grid, edges, pen.piece, pen.chosen)
  /\ seen' = seen \cup AllTurns(Silhouette(edges'[pen.piece]))
  /\ tired' = IF pen.best < MIN_DISTANCE THEN tired \cup {pen.piece} ELSE tired
  /\ pen' = [Unmarked EXCEPT !.piece = pen.piece + 1]
  /\ UNCHANGED <<stage, picture, room, layout, viewing>>

Finished ==
  /\ stage = "cutting" /\ pen.piece \notin PieceIds(Grid)
  /\ stage' = "cut"
  /\ edges' = << >> /\ seen' = {} /\ pen' = Unmarked /\ tired' = {}
  /\ UNCHANGED <<picture, room, layout, viewing>>

-----------------------------------------------------------------------------
(* The scatter and the view.                                                 *)

Scatter ==
  /\ stage = "cut" /\ stage' = "laid"
  /\ layout' = InitialScatter(Grid)
  /\ UNCHANGED <<picture, room, cutting, viewing>>

\* BoardCanvas fits the camera to its mount.
OpenBoard(size) ==
  /\ stage = "laid" /\ stage' = "open"
  /\ layout' = [area |-> PlayArea(Grid), mat |-> MatBounds(Grid)]
  /\ vp' = size /\ camera' = FitCamera(Grid, size)
  /\ UNCHANGED <<picture, room, cutting, gestures>>

Gesture ==
  /\ stage = "open" /\ gestures > 0 /\ gestures' = gestures - 1
  /\ UNCHANGED <<stage, picture, room, cutting, layout>>

\* matBounds(rows, cols), worked out once.
Mat == layout.mat

Moved(cam, d) == [cam EXCEPT !.x = @ + d.x, !.y = @ + d.y]

\* BoardRenderer.setCamera.
SetCamera(cam, size) == camera' = ClampCamera(cam, Mat, size)

\* A pointer moves over the cloth.
Pan(d) ==
  /\ Gesture
  /\ UNCHANGED vp
  /\ SetCamera(Moved(camera, d), vp)

Wheel(factor, anchor) ==
  /\ Gesture
  /\ UNCHANGED vp
  /\ SetCamera(ZoomAt(camera, factor, anchor, Mat, vp), vp)

\* A finger of two moves: zoom around the old midpoint, then follow its drift.
UpdatePinch(factor, mid, d) ==
  /\ Gesture
  /\ UNCHANGED vp
  /\ SetCamera(Moved(ZoomAt(camera, factor, mid, Mat, vp), d), vp)

\* The window is resized: the camera is clamped again, its scale is not.  Pixi
\* changes app.screen in a listener of its own, before or after onResize reads it.
OnResize(size) ==
  /\ Gesture
  /\ vp' = size /\ size # vp
  /\ \E read \in {vp, size} : SetCamera(camera, read)

\* Back to the home page.
Leave ==
  /\ stage = "open" /\ gestures = 0
  /\ stage' = "home" /\ room' = None /\ layout' = None
  /\ vp' = None /\ camera' = None /\ gestures' = MaxGestures
  /\ UNCHANGED <<picture, cutting>>

Factors == {[by |-> 3, over |-> 1], [by |-> 1, over |-> 3]}
Drifts == {[x |-> Step, y |-> 0], [x |-> -Step, y |-> 0], [x |-> 0, y |-> Step], [x |-> 0, y |-> -Step]}
Anchors(size) ==
  IF size = None THEN {} ELSE
  {[x |-> 0, y |-> 0], [x |-> (2 * size.width) \div 3, y |-> size.height \div 3]}

Next ==
  \/ \E f \in Files, t \in Targets : Upload(f, t)
  \/ \E t \in Targets : FromGallery(t)
  \/ \E varied \in BOOLEAN : OpenRoom(varied)
  \/ Attempt \/ Commit \/ Finished
  \/ Scatter
  \/ \E size \in Viewports : OpenBoard(size)
  \/ \E d \in Drifts : Pan(d)
  \/ \E factor \in Factors, a \in Anchors(vp) :
       Wheel(factor, a) \/ \E d \in Drifts : UpdatePinch(factor, a, d)
  \/ \E size \in Viewports : OnResize(size)
  \/ Leave

Spec == Init /\ [][Next]_tableVars
=============================================================================
