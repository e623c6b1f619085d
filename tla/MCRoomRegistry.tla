--------------------------- MODULE MCRoomRegistry ---------------------------
(***************************************************************************)
(* Small instances of the registry for TLC.  Sockets are numbers, and a    *)
(* guest is named by its first socket.                                     *)
(***************************************************************************)
EXTENDS RoomRegistryProps, TLC

\* Every socket is a guest of its own.
Strangers == [c \in Conns |-> c]

\* Sockets 1 and 2 are two tabs of one guest.
TwoTabs == [c \in Conns |-> IF c = 2 THEN 1 ELSE c]

\* No piece differs from another, and the run has invariants only.
PieceSymmetry == Permutations(Pieces)
=============================================================================
