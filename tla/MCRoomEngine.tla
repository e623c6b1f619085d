---------------------------- MODULE MCRoomEngine ----------------------------
(***************************************************************************)
(* Small rooms for TLC.  All use the scale Cell = 6, Tol = 1, Overhang = 2 *)
(* (the code has 100 : 15 : 38).                                           *)
(***************************************************************************)
EXTENDS RoomEngineJigsaw, TLC

XY(x, y) == [x |-> x, y |-> y]
At(x) == XY(x, 0)
GuestSymmetry == Permutations(Guests)

\* Row: a 1x3 board, frame cells at x = 0, 6, 12, pieces scattered around the
\* frame.  The reports are near and on the frame, near and on a neighbour's side,
\* and far off the mat.
RowArea == [minX |-> -20, minY |-> -14, maxX |-> 38, maxY |-> 20]
RowScatter == [p \in Pieces |-> <<At(-12), At(24), XY(6, 12)>>[p + 1]]
RowReports == {At(x) : x \in {1, 7, 12, 14, 60}}

\* Drift: the same board, with reports that leave neighbours each within the
\* tolerance of the next but not of the frame.
DriftReports == {At(x) : x \in {1, 7, 8, 14, 15}}

\* Square: a 2x2 board, frame cells at (0,0), (6,0), (0,6), (6,6).
SquareArea == [minX |-> -20, minY |-> -20, maxX |-> 32, maxY |-> 32]
SquareScatter == [p \in Pieces |-> <<XY(-9, -9), XY(17, -9), XY(-9, 17), XY(17, 17)>>[p + 1]]
SquareReports == {XY(0, 1), XY(6, 7), XY(7, 13), XY(13, 7)}

\* Timed: a 1x2 board, where time passes and more guests come than fit.
TimedScatter == [p \in Pieces |-> At(<<-12, 18>>[p + 1])]
TimedReports == {At(1), At(7)}

-----------------------------------------------------------------------------

\* Component is defined by closed sets; the code walks a queue of groups.  What
\* the walk reaches in k rounds:
Reached(links, id) ==
  LET r[k \in 0..Cardinality(Pieces)] ==
        IF k = 0 THEN {id}
        ELSE LET before == r[k-1]
             IN  before \cup {h \in DOMAIN groups : \E g \in before : <<g, h>> \in links}
  IN  r[Cardinality(Pieces)]

\* The groups a drop joins are those the code's queue visits (snap.ts), also
\* when groups that were never dropped rest within the tolerance of each other.
ComponentIsReached ==
  LET links == Links(groups)
  IN  \A id \in DOMAIN groups : Component(groups, id) = Reached(links, id)

\* NFR-6: the chosen alignment and the chosen reference do not depend on the
\* order in which the groups are listed: nothing ties with them.
ChoiceIsUnique ==
  \A id \in DOMAIN holds, pos \in Reports :
    /\ \A c, d \in Candidates(groups, id, pos) : Precedes(c, d) /\ Precedes(d, c) => c = d
    /\ \A g, h \in DOMAIN groups :
         Preferred(groups, id, g, h) /\ Preferred(groups, id, h, g) => g = h

\* NFR-6: what a drop does is determined by the table alone, not by the order in
\* which the server happens to list the groups (evaluateSnap).
JoinsAreDetermined == ComponentIsReached /\ ChoiceIsUnique
=============================================================================
