--------------------------- MODULE KiwoomClientMC ---------------------------
(***************************************************************************)
(* An instance of KiwoomClient for TLC: two requests of the API server     *)
(* beside the trading process.  Two requests are enough for every wait on  *)
(* the two locks.                                                          *)
(***************************************************************************)
EXTENDS KiwoomClient, TLC

RequestSymmetry == Permutations(Sessions)
=============================================================================
