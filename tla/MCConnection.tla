----------------------------- MODULE MCConnection -----------------------------
(***************************************************************************)
(* The connection in ticks of 10 s: a heartbeat every tick, a liveness     *)
(* window of 25 s that the heartbeat of the third tick finds exceeded, a   *)
(* keepalive sweep every third.  The first retry comes within a tick, the  *)
(* later ones (8 s, then the cap of 15 s) within two.                      *)
(***************************************************************************)
EXTENDS ConnectionProps
=============================================================================
