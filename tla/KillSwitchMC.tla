---------------------------- MODULE KillSwitchMC ----------------------------
(***************************************************************************)
(* An instance of KillSwitch for TLC with two users: what is stored for    *)
(* one must not depend on the other, and the trading process writes back   *)
(* both.                                                                   *)
(***************************************************************************)
EXTENDS KillSwitch
=============================================================================
