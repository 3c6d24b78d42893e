----------------------------- MODULE KillSwitch -----------------------------
(***************************************************************************)
(* The user-level stop of the API server: trading/kill_switch.py with the  *)
(* manual flag that trading/drawdown_guard.py keeps beside it.  A stop has *)
(* two halves, each with its own memory and its own file:                  *)
(*                                                                         *)
(*   status   .kill_switch_state.json, rewritten by every command          *)
(*   manual   .drawdown_state.json, rewritten by every update of any       *)
(*            user's guard state, in the API server and in the trading     *)
(*            process, each from the copy it loaded when it started        *)
(*                                                                         *)
(* The endpoints run to completion without an await, so a command is one   *)
(* step.  Of a guard state only manual_kill and the date of last_reset are *)
(* kept: they decide what is blocked and when the file is rewritten.       *)
(***************************************************************************)
EXTENDS Naturals

CONSTANTS Users, DiskFaults   \* DiskFaults: may a write of a file fail?

ASSUME DiskAssumption == DiskFaults \in BOOLEAN

VARIABLES
    status,      \* _kill_switch_states, NORMAL for unknown users
    statusFile,  \* .kill_switch_state.json
    guard,       \* _user_states of the API server
    guardFile,   \* .drawdown_state.json
    traderUp,    \* a trading process runs
    traderCopy,  \* its own _user_states, empty when it does not run
    command      \* history: the last command of each user

traderVars == <<traderUp, traderCopy>>
switchVars == <<status, statusFile, guard, guardFile, traderVars, command>>

Statuses == {"normal", "soft_stopped", "hard_stopped"}
Commands == {"none", "soft_stop", "hard_stop", "resume",
             "toggle_on", "toggle_off"}

\* "absent" is a user without a guard state; a state is fresh when its
\* last_reset is of today.
Absent      == [known |-> FALSE, manual |-> FALSE, fresh |-> FALSE]
GuardState  == {g \in [known : BOOLEAN, manual : BOOLEAN, fresh : BOOLEAN] :
                    ~g.known => ~g.manual /\ ~g.fresh}
NoGuards    == [u \in Users |-> Absent]

SwitchTypeOK ==
    /\ status \in [Users -> Statuses] /\ statusFile \in [Users -> Statuses]
    /\ guard \in [Users -> GuardState] /\ guardFile \in [Users -> GuardState]
    /\ traderUp \in BOOLEAN /\ traderCopy \in [Users -> GuardState]
    /\ command \in [Users -> Commands]

SwitchInit ==
    /\ status = [u \in Users |-> "normal"]
    /\ statusFile = status
    /\ guard = NoGuards /\ guardFile = NoGuards
    /\ traderUp = FALSE /\ traderCopy = NoGuards
    /\ command = [u \in Users |-> "none"]

\* What check_level3 refuses an order for.
Blocked(u) == guard[u].manual \/ status[u] # "normal"

-----------------------------------------------------------------------------
\* _save_states: an error is logged and the file keeps its old content.
StatusNotSaved(new) == UNCHANGED statusFile
SaveStatus(new) ==
    \/ statusFile' = new
    \/ DiskFaults /\ UNCHANGED statusFile

SetStatus(u, new) ==
    /\ status' = [status EXCEPT ![u] = new]
    /\ SaveStatus(status')

\* get_user_state: create the state, reset it on a new day.  The map it
\* leaves in memory, and whether it rewrites the file.
Touched(u)  == [guard EXCEPT ![u] = [known |-> TRUE, manual |-> @.manual,
                                     fresh |-> TRUE]]
NewDay(u)   == guard[u].known /\ ~guard[u].fresh
SaveGuards(new) ==
    \/ guardFile' = new
    \/ DiskFaults /\ UNCHANGED guardFile

GetUserState(u) ==
    /\ guard' = Touched(u)
    /\ IF NewDay(u) THEN SaveGuards(Touched(u)) ELSE UNCHANGED guardFile

\* The helpers behind the toggle: the manual flag is set after get_user_state
\* and not saved.
SetManual(u, flag) ==
    /\ guard' = [Touched(u) EXCEPT ![u].manual = flag]
    /\ IF NewDay(u) THEN SaveGuards(Touched(u)) ELSE UNCHANGED guardFile

-----------------------------------------------------------------------------
(* The endpoints.                                                          *)

\* A soft stop does not weaken a hard one.
SoftStopAlways(u) == SetStatus(u, "soft_stopped")
SoftStopStatus(u) ==
    IF status[u] = "hard_stopped" THEN UNCHANGED <<status, statusFile>>
                                  ELSE SetStatus(u, "soft_stopped")

Obey(u, what) == command' = [command EXCEPT ![u] = what]

SoftStop(u) ==
    /\ SoftStopStatus(u)
    /\ Obey(u, "soft_stop")
    /\ UNCHANGED <<guard, guardFile, traderVars>>

\* With confirm=True; without it nothing happens.
HardStop(u) ==
    /\ SetStatus(u, "hard_stopped")
    /\ Obey(u, "hard_stop")
    /\ UNCHANGED <<guard, guardFile, traderVars>>

Resume(u) ==
    /\ SetStatus(u, "normal")
    /\ Obey(u, "resume")
    /\ UNCHANGED <<guard, guardFile, traderVars>>

\* POST /bot/kill-switch {active: true}
ActivateManualKill(u) ==
    /\ SoftStopStatus(u)
    /\ SetManual(u, TRUE)
    /\ Obey(u, "toggle_on")
    /\ UNCHANGED traderVars

FlagStaysSet(u) == GetUserState(u)
FlagCleared(u)  == SetManual(u, FALSE)

\* POST /bot/kill-switch {active: false}
DeactivateManualKill(u) ==
    /\ SetStatus(u, "normal")
    /\ FlagCleared(u)
    /\ Obey(u, "toggle_off")
    /\ UNCHANGED traderVars

\* Any order check of the user: check_drawdown and check_level3 both begin
\* with get_user_state.
CheckUser(u) ==
    /\ GetUserState(u)
    /\ UNCHANGED <<status, statusFile, traderVars, command>>

-----------------------------------------------------------------------------
(* Days, restarts and the other process.                                   *)

Stale(g) == [u \in Users |-> [g[u] EXCEPT !.fresh = FALSE]]

Midnight ==
    /\ guard' = Stale(guard) /\ guardFile' = Stale(guardFile)
    /\ traderCopy' = Stale(traderCopy)
    /\ UNCHANGED <<status, statusFile, traderUp, command>>

\* Both maps are loaded when their modules are imported.
RestartServer ==
    /\ status' = statusFile
    /\ guard' = guardFile
    /\ UNCHANGED <<statusFile, guardFile, traderVars, command>>

TraderStarts ==
    /\ ~traderUp /\ traderUp' = TRUE
    /\ traderCopy' = guardFile
    /\ UNCHANGED <<status, statusFile, guard, guardFile, command>>

\* update_drawdown for the process's own random user id rewrites the whole
\* map, the other users as they were when it started.
TraderUpdatesDrawdown ==
    /\ traderUp
    /\ SaveGuards(traderCopy)
    /\ UNCHANGED <<status, statusFile, guard, traderVars, command>>

TraderStops ==
    /\ traderUp /\ traderUp' = FALSE
    /\ traderCopy' = NoGuards
    /\ UNCHANGED <<status, statusFile, guard, guardFile, command>>

Endpoint(u) == \/ SoftStop(u) \/ HardStop(u) \/ Resume(u)
               \/ ActivateManualKill(u) \/ DeactivateManualKill(u)
OtherProcess == TraderStarts \/ TraderUpdatesDrawdown \/ TraderStops

SwitchNext ==
    \/ \E u \in Users : Endpoint(u) \/ CheckUser(u)
    \/ Midnight \/ RestartServer \/ OtherProcess

SwitchSpec == SwitchInit /\ [][SwitchNext]_switchVars

-----------------------------------------------------------------------------
(* Properties                                                              *)

StopCommands == {"soft_stop", "hard_stop", "toggle_on"}

\* A user whose last command was a stop stays stopped until the next command,
\* through restarts, midnights and the rewrites of the other process.
StopSurvives ==
    \A u \in Users : command[u] \in StopCommands => Blocked(u)

\* A hard stop is only left by a resume: no soft stop, toggle, restart or
\* other user's command weakens it.
HardStopOnlyResumed ==
    [][\A u \in Users :
        status[u] = "hard_stopped" /\ status'[u] # "hard_stopped"
            => command'[u] \in {"resume", "toggle_off"}
               /\ status'[u] = "normal"]_switchVars

\* KillSwitch implements StopFlag: a user is stopped as soon as one of the two
\* halves says so, and the five commands are the three orders.  This holds of
\* every step, the order checks that touch the guard state, the midnights and
\* the rewrites by the trading process included.
OrderOf(what) ==
    CASE what \in StopCommands -> "stop"
      [] what = "resume"       -> "resume"
      [] what = "toggle_off"   -> "release"
      [] OTHER                 -> "none"
OrderGiven == [u \in Users |-> OrderOf(command[u])]

Flag == INSTANCE StopFlag WITH stopped <- [u \in Users |-> Blocked(u)],
                               order   <- OrderGiven

ImplementsStopFlag == Flag!FlagSpec
=============================================================================
