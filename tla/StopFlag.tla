------------------------------ MODULE StopFlag ------------------------------
(***************************************************************************)
(* What the user-level stop promises, whatever it is made of: one flag per *)
(* user and the last order the user gave it.  Three orders exist:          *)
(*                                                                         *)
(*   stop     the user is stopped from now on                              *)
(*   resume   lifts the stop of the status page, and possibly no more      *)
(*   release  the toggle: the user is free again                           *)
(*                                                                         *)
(* Between two orders only a restart of the server may change a flag: it   *)
(* never frees a stopped user and never stops one who gave no order, but   *)
(* it may bring back, or finally lift, a stop that was called off.         *)
(* KillSwitch implements this with two flags in two files and a second     *)
(* process that rewrites one of them.                                      *)
(***************************************************************************)
CONSTANT Users

VARIABLES stopped, order

FlagInit == /\ stopped = [u \in Users |-> FALSE]
            /\ order = [u \in Users |-> "none"]

Order(u, what, flags) ==
    /\ order' = [order EXCEPT ![u] = what]
    /\ \E flag \in flags : stopped' = [stopped EXCEPT ![u] = flag]

Stop(u)    == Order(u, "stop", {TRUE})
Resume(u)  == Order(u, "resume", {FALSE, stopped[u]})
Release(u) == Order(u, "release", {FALSE})

Restart ==
    /\ stopped' \in [Users -> BOOLEAN]
    /\ \A u \in Users : /\ order[u] = "stop" => stopped'[u]
                        /\ order[u] = "none" => ~stopped'[u]
    /\ UNCHANGED order

FlagNext == \/ \E u \in Users : Stop(u) \/ Resume(u) \/ Release(u)
            \/ Restart

FlagSpec == FlagInit /\ [][FlagNext]_<<stopped, order>>
=============================================================================
