----------------------------- MODULE MCBoardView -----------------------------
(***************************************************************************)
(* Two groups and three fingers; the component is mounted once.            *)
(***************************************************************************)
EXTENDS BoardViewProps
=============================================================================
