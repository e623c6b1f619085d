---------------------------- MODULE MCRoomService ----------------------------
(***************************************************************************)
(* A small instance of the HTTP API: the first person has two browser ids. *)
(***************************************************************************)
EXTENDS RoomServiceProps, TLC

CONSTANTS e1, e2, l1, l2, a1, a2, r0, i0

TwoBrowsers == (e1 :> {l1, l2}) @@ (e2 :> {})
OldRoom == <<r0, i0>>

\* Requests, drawn names, labels and the two browser ids are interchangeable, and so are
\* the ids to be minted.
Same == Permutations(Slots) \cup Permutations(Minted) \cup Permutations(Tags) \cup
        Permutations({a1, a2}) \cup Permutations({l1, l2})
=============================================================================
