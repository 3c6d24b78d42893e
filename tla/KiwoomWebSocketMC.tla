------------------------- MODULE KiwoomWebSocketMC -------------------------
(***************************************************************************)
(* An instance of KiwoomWebSocket for TLC: three keys, so that one can be  *)
(* replayed, one fail and one be called meanwhile.  Nothing tells the keys *)
(* apart, but the run checks liveness and takes no symmetry.               *)
(***************************************************************************)
EXTENDS KiwoomWebSocket
=============================================================================
