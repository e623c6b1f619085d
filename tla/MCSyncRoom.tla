------------------------------ MODULE MCSyncRoom ------------------------------
(***************************************************************************)
(* Two browsers at a 1x2 board, on the scale of MCRoomEngine.  The pointer *)
(* lets go at x = 1: that is within tolerance of piece 0's place in the    *)
(* frame, so piece 0 dropped there locks; piece 1 dropped there merges with*)
(* an untouched piece 0, whose scatter is one cell to its left.            *)
(***************************************************************************)
EXTENDS SyncRoomProps

At(x) == [x |-> x, y |-> 0]
SyncArea == [minX |-> -20, minY |-> -14, maxX |-> 38, maxY |-> 20]
SyncScatter == [p \in Pieces |-> At(<<-5, 13>>[p + 1])]
SyncReports == {At(1)}
SyncPassing == {At(4)}
SyncSymmetry == Permutations(Guests)
=============================================================================
