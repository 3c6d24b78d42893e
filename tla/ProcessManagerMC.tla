-------------------------- MODULE ProcessManagerMC --------------------------
(***************************************************************************)
(* An instance of ProcessManager for TLC.  Three pids are one more than    *)
(* two traders that live at once need.                                     *)
(***************************************************************************)
EXTENDS ProcessManager
=============================================================================
