------------------------- MODULE OrderServiceProofs -------------------------
(***************************************************************************)
(* Proofs about KillSwitch and OrderService: first the stop commands for   *)
(* every set of users, then the orders that obey them and the limits they  *)
(* keep, for any number of overlapping requests, any limits and faults of  *)
(* the disk and the broker, and last the switch inside the order service.  *)
(***************************************************************************)
EXTENDS OrderService, DataLemmas, TLAPS

(***************************************************************************)
(* The kill switch.                                                        *)
(*                                                                         *)
(* StopSurvives rests on two facts: while writes succeed the status file   *)
(* is the status, so a restart changes nothing; and after each of the      *)
(* three stop commands the status itself is not normal, so the manual flag *)
(* may be lost.  The proof does not use the flag at all.                   *)
(***************************************************************************)

\* The part of the type invariant that the stop rests on.
StatusTyped == /\ status \in [Users -> Statuses]
               /\ statusFile \in [Users -> Statuses]
               /\ command \in [Users -> Commands]

\* Without disk faults the file is the status.
FileIsStatus == ~DiskFaults => statusFile = status

\* A stop is remembered by the status half.
StopIsInStatus ==
    \A u \in Users : command[u] \in StopCommands => status[u] # "normal"

StopInv == StatusTyped /\ FileIsStatus /\ StopIsInStatus

-----------------------------------------------------------------------------
(* The commands                                                            *)

\* What SetStatus makes of a typed status, saved or not.
LEMMA SetStatusFact ==
    ASSUME StatusTyped, FileIsStatus, NEW u \in Users, NEW new \in Statuses,
           SetStatus(u, new)
    PROVE  /\ status' = [status EXCEPT ![u] = new]
           /\ status' \in [Users -> Statuses]
           /\ statusFile' \in [Users -> Statuses]
           /\ FileIsStatus'
<1>1. status' = [status EXCEPT ![u] = new]
  BY DEF SetStatus
<1>2. status' \in [Users -> Statuses]
  BY <1>1 DEF StatusTyped
<1>3. statusFile' = status' \/ (DiskFaults /\ statusFile' = statusFile)
  BY DEF SetStatus, SaveStatus
<1>4. statusFile' \in [Users -> Statuses]
  BY <1>2, <1>3 DEF StatusTyped
<1>5. FileIsStatus'
  BY <1>3 DEF FileIsStatus
<1> QED
  BY <1>1, <1>2, <1>4, <1>5

\* A soft stop leaves the user stopped one way or the other.
LEMMA SoftStopFact ==
    ASSUME StatusTyped, FileIsStatus, NEW u \in Users, SoftStopStatus(u)
    PROVE  /\ status' \in [Users -> Statuses]
           /\ statusFile' \in [Users -> Statuses]
           /\ FileIsStatus'
           /\ status'[u] # "normal"
           /\ \A v \in Users \ {u} : status'[v] = status[v]
<1>1. CASE status[u] = "hard_stopped"
  <2>1. status' = status /\ statusFile' = statusFile
    BY <1>1 DEF SoftStopStatus
  <2> QED
    BY <1>1, <2>1 DEF StatusTyped, FileIsStatus
<1>2. CASE status[u] # "hard_stopped"
  <2>1. SetStatus(u, "soft_stopped")
    BY <1>2 DEF SoftStopStatus
  <2>2. "soft_stopped" \in Statuses
    BY DEF Statuses
  <2>3. /\ status' = [status EXCEPT ![u] = "soft_stopped"]
        /\ status' \in [Users -> Statuses]
        /\ statusFile' \in [Users -> Statuses]
        /\ FileIsStatus'
    BY <2>1, <2>2, SetStatusFact
  <2> QED
    BY <2>3 DEF StatusTyped
<1> QED
  BY <1>1, <1>2

\* A command that leaves the status file agreeing, its user stopped unless
\* it is a resume, and the other users alone, keeps the invariant.
LEMMA CommandKeepsInv ==
    ASSUME StopInv, NEW u \in Users, NEW what \in Commands, Obey(u, what),
           status' \in [Users -> Statuses],
           statusFile' \in [Users -> Statuses],
           FileIsStatus',
           what \in StopCommands => status'[u] # "normal",
           \A v \in Users \ {u} : status'[v] = status[v]
    PROVE  StopInv'
<1>1. command' = [command EXCEPT ![u] = what]
  BY DEF Obey
<1>2. StatusTyped'
  BY <1>1 DEF StopInv, StatusTyped
<1>3. StopIsInStatus'
  BY <1>1 DEF StopInv, StatusTyped, StopIsInStatus
<1> QED
  BY <1>2, <1>3 DEF StopInv

\* Every endpoint keeps the invariant.
LEMMA EndpointKeepsInv ==
    ASSUME StopInv, NEW u \in Users, Endpoint(u)
    PROVE  StopInv'
<1> USE DEF Commands, StopCommands, Statuses
<1>0. StatusTyped /\ FileIsStatus
  BY DEF StopInv
<1>1. CASE SoftStop(u)
  <2>1. SoftStopStatus(u) /\ Obey(u, "soft_stop")
    BY <1>1 DEF SoftStop
  <2> QED
    BY <1>0, <2>1, SoftStopFact, CommandKeepsInv
<1>2. CASE HardStop(u)
  <2>1. SetStatus(u, "hard_stopped") /\ Obey(u, "hard_stop")
    BY <1>2 DEF HardStop
  <2>2. /\ status' = [status EXCEPT ![u] = "hard_stopped"]
        /\ status' \in [Users -> Statuses]
        /\ statusFile' \in [Users -> Statuses] /\ FileIsStatus'
    BY <1>0, <2>1, SetStatusFact
  <2>3. status'[u] # "normal" /\ \A v \in Users \ {u} : status'[v] = status[v]
    BY <1>0, <2>2 DEF StatusTyped
  <2> QED
    BY <2>1, <2>2, <2>3, CommandKeepsInv
<1>3. CASE Resume(u)
  <2>1. SetStatus(u, "normal") /\ Obey(u, "resume")
    BY <1>3 DEF Resume
  <2>2. /\ status' = [status EXCEPT ![u] = "normal"]
        /\ status' \in [Users -> Statuses]
        /\ statusFile' \in [Users -> Statuses] /\ FileIsStatus'
    BY <1>0, <2>1, SetStatusFact
  <2>3. \A v \in Users \ {u} : status'[v] = status[v]
    BY <1>0, <2>2 DEF StatusTyped
  <2> QED
    BY <2>1, <2>2, <2>3, CommandKeepsInv
<1>4. CASE ActivateManualKill(u)
  <2>1. SoftStopStatus(u) /\ Obey(u, "toggle_on")
    BY <1>4 DEF ActivateManualKill
  <2> QED
    BY <1>0, <2>1, SoftStopFact, CommandKeepsInv
<1>5. CASE DeactivateManualKill(u)
  <2>1. SetStatus(u, "normal") /\ Obey(u, "toggle_off")
    BY <1>5 DEF DeactivateManualKill
  <2>2. /\ status' = [status EXCEPT ![u] = "normal"]
        /\ status' \in [Users -> Statuses]
        /\ statusFile' \in [Users -> Statuses] /\ FileIsStatus'
    BY <1>0, <2>1, SetStatusFact
  <2>3. \A v \in Users \ {u} : status'[v] = status[v]
    BY <1>0, <2>2 DEF StatusTyped
  <2> QED
    BY <2>1, <2>2, <2>3, CommandKeepsInv
<1> QED
  BY <1>1, <1>2, <1>3, <1>4, <1>5 DEF Endpoint

-----------------------------------------------------------------------------
(* The theorems                                                            *)

\* A restart reads the file back: with faults nothing is known of it.
LEMMA RestartKeepsInv ==
    ASSUME StopInv, ~DiskFaults, RestartServer
    PROVE  StopInv'
<1>1. status' = statusFile /\ statusFile' = statusFile /\ command' = command
  BY DEF RestartServer
<1>2. statusFile = status
  BY DEF StopInv, FileIsStatus
<1> QED
  BY <1>1, <1>2 DEF StopInv, StatusTyped, FileIsStatus, StopIsInStatus

LEMMA StopInvInductive ==
    ASSUME ~DiskFaults, StopInv, [SwitchNext]_switchVars
    PROVE  StopInv'
<1>1. ASSUME NEW u \in Users, Endpoint(u) PROVE StopInv'
  BY <1>1, EndpointKeepsInv
<1>2. CASE RestartServer
  BY <1>2, RestartKeepsInv
<1>3. ASSUME status' = status, statusFile' = statusFile, command' = command
      PROVE  StopInv'
  BY <1>3 DEF StopInv, StatusTyped, FileIsStatus, StopIsInStatus
<1>4. ASSUME NEW u \in Users, CheckUser(u) PROVE StopInv'
  BY <1>4, <1>3 DEF CheckUser
<1>5. CASE Midnight
  BY <1>5, <1>3 DEF Midnight
<1>6. CASE OtherProcess
  BY <1>6, <1>3 DEF OtherProcess, TraderStarts, TraderUpdatesDrawdown,
                    TraderStops
<1>7. CASE UNCHANGED switchVars
  BY <1>7, <1>3 DEF switchVars
<1> QED
  BY <1>1, <1>2, <1>4, <1>5, <1>6, <1>7 DEF SwitchNext

\* If no write fails, a user whose last command was a stop stays stopped,
\* through restarts, midnights and rewrites by the trading process: the
\* status half of kill_switch.py carries every stop.
THEOREM StopsSurvive == ~DiskFaults => (SwitchSpec => []StopSurvives)
<1> SUFFICES ASSUME ~DiskFaults PROVE SwitchSpec => []StopSurvives
  OBVIOUS
<1>1. SwitchInit => StopInv
  BY DEF SwitchInit, StopInv, StatusTyped, FileIsStatus, StopIsInStatus,
         Statuses, Commands, StopCommands
<1>2. StopInv /\ [SwitchNext]_switchVars => StopInv'
  BY StopInvInductive
<1>3. StopInv => StopSurvives
  BY DEF StopInv, StopIsInStatus, StopSurvives, Blocked
<1> QED
  BY <1>1, <1>2, <1>3, PTL DEF SwitchSpec

\* What one step may do to a hard stop: the body of HardStopOnlyResumed.
HardStopKept(u) ==
    status[u] = "hard_stopped" /\ status'[u] # "hard_stopped"
        => command'[u] \in {"resume", "toggle_off"} /\ status'[u] = "normal"

\* A command of one user: it keeps the user's hard stop or lifts it, and does
\* not touch the others.
LEMMA EndpointKeepsHardStops ==
    ASSUME StopInv, NEW u \in Users, Endpoint(u), NEW v \in Users
    PROVE  HardStopKept(v)
<1> USE DEF HardStopKept
<1>0. status \in [Users -> Statuses] /\ command \in [Users -> Commands]
  BY DEF StopInv, StatusTyped
<1>1. ASSUME NEW what \in Commands, Obey(u, what), SoftStopStatus(u)
      PROVE  HardStopKept(v)
  BY <1>0, <1>1 DEF SoftStopStatus, SetStatus
<1>2. CASE SoftStop(u)
  BY <1>1, <1>2 DEF SoftStop, Commands
<1>3. CASE ActivateManualKill(u)
  BY <1>1, <1>3 DEF ActivateManualKill, Commands
<1>4. CASE HardStop(u)
  BY <1>0, <1>4 DEF HardStop, SetStatus
<1>5. CASE Resume(u)
  BY <1>0, <1>5 DEF Resume, SetStatus, Obey
<1>6. CASE DeactivateManualKill(u)
  BY <1>0, <1>6 DEF DeactivateManualKill, SetStatus, Obey
<1> QED
  BY <1>2, <1>3, <1>4, <1>5, <1>6 DEF Endpoint

\* If no write fails, nothing but the user's own resume or toggle lifts a hard
\* stop: no later soft stop, restart or command of another user weakens it.
THEOREM HardStopsHold == ~DiskFaults => (SwitchSpec => HardStopOnlyResumed)
<1> SUFFICES ASSUME ~DiskFaults PROVE SwitchSpec => HardStopOnlyResumed
  OBVIOUS
<1>1. SwitchInit => StopInv
  BY DEF SwitchInit, StopInv, StatusTyped, FileIsStatus, StopIsInStatus,
         Statuses, Commands, StopCommands
<1>2. StopInv /\ [SwitchNext]_switchVars => StopInv'
  BY StopInvInductive
<1>3. StopInv /\ [SwitchNext]_switchVars
        => [\A u \in Users :
              status[u] = "hard_stopped" /\ status'[u] # "hard_stopped"
                => command'[u] \in {"resume", "toggle_off"}
                   /\ status'[u] = "normal"]_switchVars
  <2> SUFFICES ASSUME StopInv, SwitchNext, NEW v \in Users
               PROVE  HardStopKept(v)
    BY DEF HardStopKept
  <2>1. ASSUME NEW u \in Users, Endpoint(u) PROVE HardStopKept(v)
    BY <2>1, EndpointKeepsHardStops
  <2>2. ASSUME status' = status PROVE HardStopKept(v)
    BY <2>2 DEF HardStopKept
  <2>3. ASSUME NEW u \in Users, CheckUser(u) PROVE HardStopKept(v)
    BY <2>2, <2>3 DEF CheckUser
  <2>4. CASE RestartServer
    BY <2>2, <2>4 DEF RestartServer, StopInv, FileIsStatus
  <2>5. CASE Midnight
    BY <2>2, <2>5 DEF Midnight
  <2>6. CASE OtherProcess
    BY <2>2, <2>6 DEF OtherProcess, TraderStarts, TraderUpdatesDrawdown,
                      TraderStops
  <2> QED
    BY <2>1, <2>3, <2>4, <2>5, <2>6 DEF SwitchNext
<1> QED
  BY <1>1, <1>2, <1>3, PTL DEF SwitchSpec, HardStopOnlyResumed

-----------------------------------------------------------------------------
(* KillSwitch implements StopFlag                                          *)

Bits == [known : BOOLEAN, manual : BOOLEAN, fresh : BOOLEAN]
GuardsTyped == /\ guard \in [Users -> Bits] /\ guardFile \in [Users -> Bits]
               /\ traderCopy \in [Users -> Bits]

\* Of a user who never gave an order no trace of a stop is anywhere: neither
\* in the two halves, nor in the file or the copy a half may be restored from.
UntouchedIsFree ==
    \A u \in Users : command[u] = "none" =>
        /\ status[u] = "normal"
        /\ ~guard[u].manual /\ ~guardFile[u].manual /\ ~traderCopy[u].manual

FlagInv == StopInv /\ GuardsTyped /\ UntouchedIsFree

\* What the order checks leave: the same flags under another date.
LEMMA TouchedFact ==
    ASSUME GuardsTyped, NEW u \in Users
    PROVE  /\ Touched(u) \in [Users -> Bits]
           /\ \A v \in Users : Touched(u)[v].manual = guard[v].manual
BY DEF GuardsTyped, Bits, Touched

LEMMA GetUserStateFact ==
    ASSUME GuardsTyped, NEW u \in Users, GetUserState(u)
    PROVE  /\ guard' \in [Users -> Bits] /\ guardFile' \in [Users -> Bits]
           /\ \A v \in Users :
                 /\ guard'[v].manual = guard[v].manual
                 /\ guardFile'[v].manual \in {guard[v].manual, guardFile[v].manual}
<1>1. guard' = Touched(u) /\ (guardFile' = Touched(u) \/ guardFile' = guardFile)
  BY DEF GetUserState, SaveGuards
<1> QED
  BY <1>1, TouchedFact DEF GuardsTyped

LEMMA SetManualFact ==
    ASSUME GuardsTyped, NEW u \in Users, NEW flag \in BOOLEAN, SetManual(u, flag)
    PROVE  /\ guard' \in [Users -> Bits] /\ guardFile' \in [Users -> Bits]
           /\ guard'[u].manual = flag
           /\ \A v \in Users \ {u} : guard'[v].manual = guard[v].manual
           /\ \A v \in Users :
                 guardFile'[v].manual \in {guard[v].manual, guardFile[v].manual}
<1>1. /\ guard' = [Touched(u) EXCEPT ![u].manual = flag]
      /\ guardFile' = Touched(u) \/ guardFile' = guardFile
  BY DEF SetManual, SaveGuards
<1>2. Touched(u) \in [Users -> Bits]
  BY TouchedFact
<1>3. guard' \in [Users -> Bits]
  BY <1>1, <1>2 DEF Bits
<1>4. guard'[u].manual = flag
  BY <1>1, <1>2 DEF Bits
<1>5. \A v \in Users \ {u} : guard'[v].manual = guard[v].manual
  BY <1>1, <1>2, TouchedFact
<1> QED
  BY <1>1, <1>2, <1>3, <1>4, <1>5, TouchedFact DEF GuardsTyped

\* An endpoint writes the status of its user, and of the guard states at most
\* the flag of its user.
LEMMA EndpointGuards ==
    ASSUME FlagInv, NEW u \in Users, Endpoint(u)
    PROVE  /\ GuardsTyped' /\ traderCopy' = traderCopy
           /\ \A v \in Users \ {u} :
                 status'[v] = status[v] /\ guard'[v].manual = guard[v].manual
           /\ \A v \in Users :
                 guardFile'[v].manual \in {guard[v].manual, guardFile[v].manual}
<1>0. GuardsTyped /\ StatusTyped /\ FileIsStatus
  BY DEF FlagInv, StopInv
<1>1. traderCopy' = traderCopy
  BY DEF Endpoint, SoftStop, HardStop, Resume, ActivateManualKill,
         DeactivateManualKill, traderVars
<1>2. ASSUME NEW new \in Statuses, SetStatus(u, new)
      PROVE  \A v \in Users \ {u} : status'[v] = status[v]
  BY <1>0, <1>2 DEF SetStatus, StatusTyped
<1>3. \A v \in Users \ {u} : status'[v] = status[v]
  BY <1>0, <1>2, SoftStopFact DEF Endpoint, SoftStop, HardStop, Resume, ActivateManualKill,
         DeactivateManualKill, Statuses
<1>4. CASE UNCHANGED <<guard, guardFile>>
  BY <1>0, <1>1, <1>3, <1>4 DEF GuardsTyped
<1>5. ASSUME NEW flag \in BOOLEAN, SetManual(u, flag)
      PROVE  /\ GuardsTyped'
             /\ \A v \in Users \ {u} : guard'[v].manual = guard[v].manual
             /\ \A v \in Users :
                   guardFile'[v].manual \in {guard[v].manual, guardFile[v].manual}
  BY <1>0, <1>1, <1>5, SetManualFact DEF GuardsTyped
<1>6. CASE \E flag \in BOOLEAN : SetManual(u, flag)
  BY <1>1, <1>3, <1>5, <1>6
<1>7. UNCHANGED <<guard, guardFile>> \/ \E flag \in BOOLEAN : SetManual(u, flag)
  BY DEF Endpoint, SoftStop, HardStop, Resume, ActivateManualKill,
         DeactivateManualKill, FlagCleared
<1> QED
  BY <1>4, <1>6, <1>7

\* An endpoint gives its user an order, and nobody else.
LEMMA EndpointOrders ==
    ASSUME StatusTyped, NEW u \in Users, Endpoint(u)
    PROVE  \E what \in Commands \ {"none"} : command' = [command EXCEPT ![u] = what]
BY DEF Endpoint, SoftStop, HardStop, Resume, ActivateManualKill,
       DeactivateManualKill, Obey, Commands

LEMMA FlagInvInductive ==
    ASSUME ~DiskFaults, FlagInv, [SwitchNext]_switchVars
    PROVE  FlagInv'
<1>0. StopInv /\ StatusTyped /\ FileIsStatus /\ GuardsTyped /\ UntouchedIsFree
  BY DEF FlagInv, StopInv
<1>1. StopInv'
  BY <1>0, StopInvInductive
<1> SUFFICES GuardsTyped' /\ UntouchedIsFree'
  BY <1>1 DEF FlagInv
<1>2. ASSUME NEW u \in Users, Endpoint(u) PROVE GuardsTyped' /\ UntouchedIsFree'
  <2>1. PICK what \in Commands \ {"none"} : command' = [command EXCEPT ![u] = what]
    BY <1>0, <1>2, EndpointOrders
  <2>2. command'[u] # "none" /\ \A v \in Users \ {u} : command'[v] = command[v]
    BY <1>0, <2>1 DEF StatusTyped
  <2>3. /\ GuardsTyped' /\ traderCopy' = traderCopy
        /\ \A v \in Users \ {u} :
              status'[v] = status[v] /\ guard'[v].manual = guard[v].manual
        /\ \A v \in Users :
              guardFile'[v].manual \in {guard[v].manual, guardFile[v].manual}
    BY <1>2, EndpointGuards
  <2> QED
    BY <1>0, <2>2, <2>3 DEF UntouchedIsFree
<1>3. ASSUME NEW u \in Users, CheckUser(u) PROVE GuardsTyped' /\ UntouchedIsFree'
  <2>1. GetUserState(u) /\ UNCHANGED <<status, traderCopy, command>>
    BY <1>3 DEF CheckUser, traderVars
  <2> QED
    BY <1>0, <2>1, GetUserStateFact DEF GuardsTyped, UntouchedIsFree
<1>4. CASE Midnight
  <2>1. ASSUME NEW g \in [Users -> Bits]
        PROVE  Stale(g) \in [Users -> Bits]
               /\ \A v \in Users : Stale(g)[v].manual = g[v].manual
    BY DEF Stale, Bits
  <2> QED
    BY <1>0, <1>4, <2>1 DEF Midnight, GuardsTyped, UntouchedIsFree
<1>5. CASE RestartServer
  BY <1>0, <1>5 DEF RestartServer, FileIsStatus, GuardsTyped, UntouchedIsFree,
                    traderVars
<1>6. CASE OtherProcess
  <2>1. NoGuards \in [Users -> Bits] /\ \A v \in Users : ~NoGuards[v].manual
    BY DEF NoGuards, Absent, Bits
  <2>2. UNCHANGED <<status, guard, command>>
    BY <1>6 DEF OtherProcess, TraderStarts, TraderUpdatesDrawdown, TraderStops
  <2>3. /\ guardFile' \in {guardFile, traderCopy}
        /\ traderCopy' \in {traderCopy, guardFile, NoGuards}
    BY <1>6 DEF OtherProcess, TraderStarts, TraderUpdatesDrawdown, TraderStops,
                SaveGuards, traderVars
  <2> QED
    BY <1>0, <2>1, <2>2, <2>3 DEF GuardsTyped, UntouchedIsFree
<1>7. CASE UNCHANGED switchVars
  BY <1>0, <1>7 DEF switchVars, traderVars, GuardsTyped, UntouchedIsFree
<1> QED
  BY <1>2, <1>3, <1>4, <1>5, <1>6, <1>7 DEF SwitchNext

\* The two flags of StopFlag, as KillSwitch has them.
Flags == [u \in Users |-> Blocked(u)]

\* An endpoint is one of the three orders.
LEMMA EndpointIsOrder ==
    ASSUME FlagInv, FlagInv', NEW u \in Users, Endpoint(u)
    PROVE  Flag!Stop(u) \/ Flag!Resume(u) \/ Flag!Release(u)
<1>0. StatusTyped /\ GuardsTyped /\ StatusTyped' /\ GuardsTyped'
  BY DEF FlagInv, StopInv
<1>1. \A v \in Users : Blocked(v) \in BOOLEAN /\ Blocked(v)' \in BOOLEAN
  BY <1>0 DEF Blocked, GuardsTyped, Bits
<1>2. \A v \in Users \ {u} : Blocked(v)' = Blocked(v)
  BY EndpointGuards DEF Blocked
<1>3. ASSUME NEW what \in Commands, Obey(u, what)
      PROVE  OrderGiven' = [OrderGiven EXCEPT ![u] = OrderOf(what)]
  BY <1>0, <1>3 DEF Obey, OrderGiven, StatusTyped
<1>4. Flags' = [Flags EXCEPT ![u] = Blocked(u)']
  BY <1>2 DEF Flags
<1>5. CASE SoftStop(u) \/ HardStop(u) \/ ActivateManualKill(u)
  <2>1. PICK what \in StopCommands : Obey(u, what)
    BY <1>5 DEF SoftStop, HardStop, ActivateManualKill, StopCommands
  <2>2. command'[u] = what
    BY <1>0, <2>1 DEF Obey, StatusTyped
  <2>3. Blocked(u)' = TRUE
    BY <1>1, <2>1, <2>2 DEF FlagInv, StopInv, StopIsInStatus, Blocked
  <2>4. what \in Commands
    BY DEF StopCommands, Commands
  <2>5. OrderGiven' = [OrderGiven EXCEPT ![u] = "stop"]
    BY <1>3, <2>1, <2>4 DEF OrderOf, StopCommands
  <2>6. Flag!Stop(u)
    BY <1>4, <2>3, <2>5 DEF Flag!Stop, Flag!Order, Flags
  <2> QED
    BY <2>6
<1>6. CASE Resume(u)
  <2>1. Obey(u, "resume") /\ status'[u] = "normal" /\ guard' = guard
    BY <1>0, <1>6 DEF Resume, SetStatus, StatusTyped
  <2>2. Blocked(u)' \in {FALSE, Blocked(u)}
    BY <1>1, <2>1 DEF Blocked
  <2>3. OrderGiven' = [OrderGiven EXCEPT ![u] = "resume"]
    BY <1>3, <2>1 DEF OrderOf, Commands, StopCommands
  <2>4. Flags[u] = Blocked(u)
    BY DEF Flags
  <2>5. Flag!Resume(u)
    BY <1>4, <2>2, <2>3, <2>4 DEF Flag!Resume, Flag!Order, Flags
  <2> QED
    BY <2>5
<1>7. CASE DeactivateManualKill(u)
  <2>1. Obey(u, "toggle_off") /\ status'[u] = "normal" /\ SetManual(u, FALSE)
    BY <1>0, <1>7 DEF DeactivateManualKill, SetStatus, StatusTyped, FlagCleared
  <2>2. Blocked(u)' = FALSE
    BY <1>0, <1>1, <2>1, SetManualFact DEF Blocked
  <2>3. OrderGiven' = [OrderGiven EXCEPT ![u] = "release"]
    BY <1>3, <2>1 DEF OrderOf, Commands, StopCommands
  <2>4. Flag!Release(u)
    BY <1>4, <2>2, <2>3 DEF Flag!Release, Flag!Order, Flags
  <2> QED
    BY <2>4
<1> QED
  BY <1>5, <1>6, <1>7 DEF Endpoint

\* Every step is an order, a restart, or invisible.
LEMMA StepIsFlagStep ==
    ASSUME ~DiskFaults, FlagInv, FlagInv', [SwitchNext]_switchVars
    PROVE  [Flag!FlagNext]_<<Flags, OrderGiven>>
<1>0. StatusTyped /\ GuardsTyped /\ StatusTyped' /\ GuardsTyped'
  BY DEF FlagInv, StopInv
<1>1. ASSUME NEW u \in Users, Endpoint(u) PROVE Flag!FlagNext
  BY <1>1, EndpointIsOrder DEF Flag!FlagNext
<1>2. ASSUME status' = status, command' = command,
             \A v \in Users : guard'[v].manual = guard[v].manual
      PROVE  UNCHANGED <<Flags, OrderGiven>>
  BY <1>2 DEF Flags, Blocked, OrderGiven
<1>3. ASSUME NEW u \in Users, CheckUser(u) PROVE UNCHANGED <<Flags, OrderGiven>>
  <2>1. GetUserState(u) /\ status' = status /\ command' = command
    BY <1>3 DEF CheckUser
  <2> QED
    BY <1>0, <1>2, <2>1, GetUserStateFact
<1>4. CASE Midnight
  <2>1. \A v \in Users : guard'[v].manual = guard[v].manual
    BY <1>0, <1>4, ZenonT(30) DEF Midnight, Stale, GuardsTyped, Bits
  <2> QED
    BY <1>2, <1>4, <2>1 DEF Midnight
<1>5. CASE RestartServer
  <2>1. OrderGiven' = OrderGiven /\ command' = command
    BY <1>5 DEF RestartServer, OrderGiven
  <2>2. Flags' \in [Users -> BOOLEAN]
    BY <1>0 DEF Flags, Blocked, GuardsTyped, Bits
  <2>3. ASSUME NEW v \in Users, OrderGiven[v] = "stop" PROVE Flags'[v]
    <3>1. command'[v] \in StopCommands
      BY <2>1, <2>3 DEF OrderGiven, OrderOf
    <3> QED
      BY <3>1 DEF FlagInv, StopInv, StopIsInStatus, Flags, Blocked
  <2>4. ASSUME NEW v \in Users, OrderGiven[v] = "none" PROVE ~Flags'[v]
    <3>1. command'[v] = "none"
      BY <1>0, <2>1, <2>4 DEF OrderGiven, OrderOf, StatusTyped, Commands, StopCommands
    <3> QED
      BY <3>1 DEF FlagInv, UntouchedIsFree, Flags, Blocked
  <2>5. Flag!Restart
    BY <2>1, <2>2, <2>3, <2>4 DEF Flag!Restart, Flags
  <2> QED
    BY <2>5 DEF Flag!FlagNext
<1>6. CASE OtherProcess
  BY <1>2, <1>6 DEF OtherProcess, TraderStarts, TraderUpdatesDrawdown, TraderStops
<1>7. CASE UNCHANGED switchVars
  BY <1>2, <1>7 DEF switchVars
<1> QED
  BY <1>1, <1>3, <1>4, <1>5, <1>6, <1>7 DEF SwitchNext

\* If no write fails, the two halves in two files with their second writer are
\* one flag per user that only the user's orders move, or a restart, and this
\* never against the last order: KillSwitch implements StopFlag.
THEOREM SwitchIsFlag == ~DiskFaults => (SwitchSpec => ImplementsStopFlag)
<1> SUFFICES ASSUME ~DiskFaults PROVE SwitchSpec => ImplementsStopFlag
  OBVIOUS
<1>1. SwitchInit => FlagInv
  BY DEF SwitchInit, FlagInv, StopInv, StatusTyped, FileIsStatus, StopIsInStatus,
         GuardsTyped, Bits, NoGuards, Absent, UntouchedIsFree, Statuses, Commands,
         StopCommands
<1>2. FlagInv /\ [SwitchNext]_switchVars => FlagInv'
  BY FlagInvInductive
<1>3. SwitchInit => Flag!FlagInit
  <2> SUFFICES ASSUME SwitchInit PROVE Flag!FlagInit
    OBVIOUS
  <2>1. \A u \in Users : Blocked(u) = FALSE
    BY DEF SwitchInit, Blocked, NoGuards, Absent
  <2>2. \A u \in Users : OrderOf(command[u]) = "none"
    BY DEF SwitchInit, OrderOf, StopCommands
  <2> QED
    BY <2>1, <2>2 DEF Flag!FlagInit, OrderGiven
<1>4. FlagInv /\ FlagInv' /\ [SwitchNext]_switchVars
        => [Flag!FlagNext]_<<Flags, OrderGiven>>
  BY StepIsFlagStep
<1> QED
  BY <1>1, <1>2, <1>3, <1>4, PTL DEF SwitchSpec, ImplementsStopFlag,
     Flag!FlagSpec, Flags


(***************************************************************************)
(* What the functions of a state are: the part of OrderTypeOK that does    *)
(* not count (the sum a request has read) and does not concern the stops.  *)
(***************************************************************************)

RowsTyped ==
    /\ pc \in [Orders -> Steps]
    /\ req \in [Orders -> Requests \cup {NoRequest}]
    /\ working \in [Orders -> OrderStatus]
    /\ table \in [Orders -> OrderStatus \cup {"absent"}]
    /\ market \in [Orders -> {"none", "live", "partial", "filled"}]
    /\ event \in [Orders -> {"none", "partial", "filled"}]
    /\ stopHeld \in [Orders -> BOOLEAN]

\* Where a request and its row are: nothing reaches the broker before
\* place_order and no row is seen before the commit; a row is submitted
\* exactly when the broker has the order, unless a reply was lost.
Consistent(o) ==
    /\ pc[o] \in {"none", "arrived", "read", "counting", "placing"} =>
            /\ market[o] = "none" /\ table[o] = "absent"
            /\ working[o] = "created"
    /\ pc[o] = "replying" =>
            /\ market[o] # "none" /\ table[o] = "absent"
            /\ working[o] = "created"
    /\ pc[o] = "committing" =>
            /\ table[o] = "absent" /\ working[o] \in {"created", "submitted"}
            /\ o \notin cutOff =>
                    ((market[o] # "none") <=> (working[o] = "submitted"))
    /\ pc[o] = "done" =>
            /\ table[o] \in {"created", "submitted"}
            /\ o \notin cutOff =>
                    ((market[o] # "none") <=> (table[o] = "submitted"))
    /\ pc[o] = "refused" =>
            /\ table[o] = "absent"
            /\ o \notin cutOff => market[o] = "none"

RowsInv == RowsTyped /\ \A o \in Orders : Consistent(o)

RequesterBlocked(o) == Blocked(req[o].user)

\* A request whose user has been stopped since it arrived is still stopped
\* and has not passed the checks.
HeldInv ==
    \A o \in Orders :
        stopHeld[o] /\ pc[o] # "none" =>
            /\ RequesterBlocked(o)
            /\ market[o] = "none"
            /\ pc[o] \in {"arrived", "read", "refused"}

\* The state machine of order_state.py in the two states a row ever has: no
\* report of an execution and no cancellation moves it.
LEMMA NoWayOut ==
    /\ \A target : target \in {"filled", "partial_fill", "cancelled"} =>
            /\ Transition("submitted", target) = "submitted"
            /\ Transition("created", target) = "created"
    /\ CanTransition("created", "submitted")
  BY DEF Transition, CanTransition, ValidTransitions, OrderStatus

LEMMA StopHeldTyped == RememberStops => stopHeld' \in [Orders -> BOOLEAN]
  BY DEF RememberStops

LEMMA RowsInit == Init => RowsInv
  BY DEF Init, RowsInv, RowsTyped, Consistent, Steps, OrderStatus

\* The steps of one request.
LEMMA RowsRequest ==
    ASSUME RowsInv, NEW o \in Orders, Arrive(o) \/ RequestStep(o)
    PROVE  RowsInv'
  <1> USE DEF RowsInv, RowsTyped, Go
  <1>1. CASE Arrive(o)
    BY <1>1, StopHeldTyped, ZenonT(30) DEF Arrive, Consistent, Steps
  <1>2. CASE ReadInvested(o)
    BY <1>2, StopHeldTyped DEF ReadInvested, Consistent, Steps
  <1>3. CASE RunChecks(o)
    <2>1. PICK next \in {"counting", "refused"} : pc' = [pc EXCEPT ![o] = next]
      BY <1>3 DEF RunChecks
    <2>2. pc[o] = "read"
      BY <1>3 DEF RunChecks
    <2>3. UNCHANGED <<req, working, table, market, event, cutOff>>
      BY <1>3 DEF RunChecks
    <2>4. RowsTyped'
      BY <1>3, <2>1, <2>3, StopHeldTyped DEF RunChecks, Steps
    <2>5. ASSUME NEW p \in Orders PROVE Consistent(p)'
      BY <2>1, <2>2, <2>3 DEF Consistent, Steps
    <2> QED
      BY <2>4, <2>5
  <1>4. CASE CountAndInsert(o)
    <2>1. PICK next \in {"refused", "committing", "placing"} :
              pc' = [pc EXCEPT ![o] = next]
      BY <1>4 DEF CountAndInsert
    <2>2. pc[o] = "counting"
      BY <1>4 DEF CountAndInsert
    <2>3. UNCHANGED <<req, working, table, market, event, cutOff>>
      BY <1>4 DEF CountAndInsert
    <2>4. RowsTyped'
      BY <1>4, <2>1, <2>3, StopHeldTyped DEF CountAndInsert, Steps
    <2>5. ASSUME NEW p \in Orders PROVE Consistent(p)'
      BY <2>1, <2>2, <2>3 DEF Consistent, Steps
    <2> QED
      BY <2>4, <2>5
  <1>5. CASE PlaceOrder(o)
    BY <1>5, StopHeldTyped DEF PlaceOrder, Consistent, Steps
  <1>6. CASE PlaceOrderFails(o)
    BY <1>6, StopHeldTyped DEF PlaceOrderFails, Consistent, Steps
  <1>7. CASE OrderSubmitted(o)
    <2>1. working[o] = "created"
      BY <1>7 DEF OrderSubmitted, Consistent
    <2>2. working' = [working EXCEPT ![o] = "submitted"]
      BY <1>7, <2>1, NoWayOut DEF OrderSubmitted, SubmitOrder
    <2>3. RowsTyped'
      BY <1>7, <2>2, StopHeldTyped DEF OrderSubmitted, Steps, OrderStatus
    <2>4. ASSUME NEW p \in Orders PROVE Consistent(p)'
      BY <1>7, <2>2 DEF OrderSubmitted, Consistent, Steps
    <2> QED
      BY <2>3, <2>4
  <1>8. CASE Commit(o)
    BY <1>8, StopHeldTyped DEF Commit, Consistent, Steps
  <1> QED
    BY <1>1, <1>2, <1>3, <1>4, <1>5, <1>6, <1>7, <1>8 DEF RequestStep

\* A report or a cancellation finds no row it could move.
LEMMA ReportsKeepRows ==
    ASSUME RowsInv, NEW o \in Orders, OnOrderExec(o) \/ CancelOrder(o)
    PROVE  table' = table
  <1>1. table[o] \in {"absent", "created", "submitted"}
    BY DEF RowsInv, RowsTyped, Consistent, Steps
  <1> QED
    BY <1>1, NoWayOut DEF OnOrderExec, CancelOrder, RowsInv, RowsTyped

\* Executions, their reports and cancellations.
LEMMA RowsReports ==
    ASSUME RowsInv, NEW o \in Orders,
           BrokerExecutes(o) \/ OnOrderExec(o) \/ CancelOrder(o)
    PROVE  RowsInv'
  <1> USE DEF RowsInv, RowsTyped
  <1>1. CASE BrokerExecutes(o)
    <2>1. PICK done \in {"partial", "filled"} :
              /\ market[o] # "none"
              /\ market' = [market EXCEPT ![o] = done]
              /\ event' = [event EXCEPT ![o] = done]
      BY <1>1 DEF BrokerExecutes
    <2>2. RowsTyped'
      BY <1>1, <2>1, StopHeldTyped DEF BrokerExecutes
    <2>3. UNCHANGED <<pc, working, table, cutOff>>
      BY <1>1 DEF BrokerExecutes
    <2>4. ASSUME NEW q \in Orders PROVE Consistent(q)'
      <3>1. Consistent(q)
        OBVIOUS
      <3>2. (market'[q] = "none") <=> (market[q] = "none")
        BY <2>1
      <3> QED
        BY <2>3, <3>1, <3>2 DEF Consistent
    <2> QED
      BY <2>2, <2>4
  <1>2. CASE OnOrderExec(o) \/ CancelOrder(o)
    <2>1. table' = table
      BY <1>2, ReportsKeepRows
    <2> QED
      BY <1>2, <2>1, StopHeldTyped DEF OnOrderExec, CancelOrder, Consistent
  <1> QED
    BY <1>1, <1>2

\* A restart ends what is under way and remembers what the broker has of it.
LEMMA RowsRestart == RowsInv /\ ServerRestarts => RowsInv'
  BY StopHeldTyped
  DEF RowsInv, RowsTyped, ServerRestarts, Consistent, UnderWay, Steps

LEMMA RowsOthers ==
    RowsInv /\ (StopCommand \/ NextDay \/ UNCHANGED allVars) => RowsInv'
  <1>1. ASSUME RowsInv, StopCommand PROVE RowsInv'
    BY <1>1, StopHeldTyped
    DEF RowsInv, RowsTyped, Consistent, StopCommand, orderVars
  <1>2. ASSUME RowsInv, NextDay PROVE RowsInv'
    BY <1>2, StopHeldTyped DEF RowsInv, RowsTyped, Consistent, NextDay
  <1>3. ASSUME RowsInv, UNCHANGED allVars PROVE RowsInv'
    BY <1>3 DEF RowsInv, RowsTyped, Consistent, allVars, orderVars
  <1> QED
    BY <1>1, <1>2, <1>3

LEMMA RowsStep == RowsInv /\ [Next]_allVars => RowsInv'
  BY RowsRequest, RowsReports, RowsRestart, RowsOthers DEF Next

LEMMA RowsInvariant == Spec => []RowsInv
  BY RowsInit, RowsStep, PTL DEF Spec

\* Once a request is over, the database counts its order as invested exactly
\* when the broker has it (create_order, submit_order, on_order_exec and
\* cancel_order together), whatever other requests, restarts, refusals and
\* reports come between, except for orders whose reply or commit was lost.
THEOREM RowsAndBrokerAgree == Spec => []RowsMatchBroker
  <1>1. RowsInv => RowsMatchBroker
    <2> SUFFICES ASSUME RowsInv, NEW o \in Orders \ cutOff,
                        pc[o] \in {"done", "refused"}
                 PROVE  (market[o] # "none") = (table[o] \in CountedAsInvested)
      BY DEF RowsMatchBroker
    <2> QED
      BY DEF RowsInv, Consistent, CountedAsInvested
  <1> QED
    BY <1>1, RowsInvariant, PTL

(***************************************************************************)
(* Stopped users.  The history variable carries the argument: as long as   *)
(* it holds, the user is blocked in the state the checks look at, so the   *)
(* checks refuse and no later step is reached.                             *)
(***************************************************************************)

\* What RememberStops says of a request that is there after the step.
LEMMA StoppedAllAlong ==
    ASSUME RememberStops, NEW o \in Orders, stopHeld'[o], pc'[o] # "none"
    PROVE  stopHeld[o] /\ RequesterBlocked(o)'
  BY DEF RememberStops, RequesterBlocked, Blocked

\* A step that leaves every request where it is, or moves one of them inside
\* the steps before the checks or out of the way.
LEMMA HeldStep ==
    ASSUME RowsInv, HeldInv, [Next]_allVars
    PROVE  HeldInv'
  <1> SUFFICES ASSUME NEW o \in Orders, stopHeld'[o], pc'[o] # "none"
               PROVE  /\ RequesterBlocked(o)'
                      /\ market'[o] = "none"
                      /\ pc'[o] \in {"arrived", "read", "refused"}
    BY DEF HeldInv, RequesterBlocked, Blocked
  <1>1. CASE UNCHANGED allVars
    BY <1>1 DEF allVars, orderVars, switchVars, HeldInv,
               RequesterBlocked, Blocked
  <1>2. CASE Next
    <2>1. RememberStops
      BY <1>2
      DEF Next, Arrive, RequestStep, ReadInvested, RunChecks, CountAndInsert,
          PlaceOrder, PlaceOrderFails, OrderSubmitted, Commit, BrokerExecutes,
          OnOrderExec, CancelOrder, StopCommand, ServerRestarts, NextDay
    <2>2. stopHeld[o] /\ RequesterBlocked(o)'
      BY <2>1, StoppedAllAlong
    <2>3. CASE \E p \in Orders : Arrive(p)
      BY <2>2, <2>3 DEF Arrive, Go, RowsInv, RowsTyped, Consistent, HeldInv
    <2>4. ASSUME NEW p \in Orders, RequestStep(p)
          PROVE  /\ market'[o] = "none"
                 /\ pc'[o] \in {"arrived", "read", "refused"}
      <3>1. CASE pc[o] = "none"
        BY <2>4, <3>1
        DEF RequestStep, ReadInvested, RunChecks, CountAndInsert, PlaceOrder,
            PlaceOrderFails, OrderSubmitted, Commit, Go, RowsInv, RowsTyped
      <3>2. CASE pc[o] # "none"
        <4>1. /\ RequesterBlocked(o) /\ market[o] = "none"
              /\ pc[o] \in {"arrived", "read", "refused"}
          BY <2>2, <3>2 DEF HeldInv
        <4>2. CASE RunChecks(p)
          BY <4>1, <4>2 DEF RunChecks, Go, NotStopped, RequesterBlocked, RowsInv,
                           RowsTyped
        <4>3. CASE ReadInvested(p)
          BY <4>1, <4>3 DEF ReadInvested, Go, RowsInv, RowsTyped
        <4>4. CASE CountAndInsert(p) \/ PlaceOrder(p) \/ PlaceOrderFails(p)
                   \/ OrderSubmitted(p) \/ Commit(p)
          BY <4>1, <4>4
          DEF CountAndInsert, PlaceOrder, PlaceOrderFails, OrderSubmitted,
              Commit, Go, RowsInv, RowsTyped
        <4> QED
          BY <2>4, <4>2, <4>3, <4>4 DEF RequestStep
      <3> QED
        BY <3>1, <3>2
    <2>5. CASE \E p \in Orders : BrokerExecutes(p)
      BY <2>2, <2>5 DEF BrokerExecutes, RowsInv, RowsTyped, HeldInv
    <2>6. CASE \E p \in Orders : OnOrderExec(p) \/ CancelOrder(p)
      BY <2>2, <2>6 DEF OnOrderExec, CancelOrder, HeldInv
    <2>7. CASE StopCommand \/ NextDay
      BY <2>2, <2>7 DEF StopCommand, NextDay, orderVars, HeldInv
    <2>8. CASE ServerRestarts
      BY <2>2, <2>8 DEF ServerRestarts, UnderWay, HeldInv
    <2> QED
      BY <1>2, <2>2, <2>3, <2>4, <2>5, <2>6, <2>7, <2>8 DEF Next
  <1> QED
    BY <1>1, <1>2

LEMMA HeldInvariant == Spec => []HeldInv
  <1>1. Init => HeldInv
    BY DEF Init, HeldInv
  <1> QED
    BY <1>1, HeldStep, RowsInvariant, PTL DEF Spec

\* No order reaches the broker for a user who has been stopped, by either half
\* of the stop, ever since the request arrived (check_level3 before
\* place_order), also with files that cannot be written: what counts is what
\* the server has in memory at the check.
THEOREM StopsReachTheBroker == Spec => []StoppedUsersDoNotTrade
  <1>1. HeldInv => StoppedUsersDoNotTrade
    BY DEF HeldInv, StoppedUsersDoNotTrade
  <1> QED
    BY <1>1, HeldInvariant, PTL

(***************************************************************************)
(* The limits.  What bounds an invested sum or a number of orders are not  *)
(* the rows alone but the rows together with the requests that will become *)
(* rows if nothing stops them: a request joins them when it reads the sum  *)
(* (or counts the rows), and at that moment everyone else under way is one *)
(* of at most MaxConcurrent - 1.                                           *)
(***************************************************************************)

\* The steps of a request that has read the sum, that has passed the checks,
\* that has passed the daily limit.
HasRead == {"read", "counting", "placing", "replying", "committing"}
Checked == {"counting", "placing", "replying", "committing"}
Counted == {"placing", "replying", "committing"}

AskedBy(o, u)     == req[o].user = u
AskedOf(o, u, st) == req[o].user = u /\ req[o].strategy = st

Active        == {o \in Orders : pc[o] \in UnderWay}
Joining(u, st) == {o \in Orders : /\ pc[o] \in HasRead /\ AskedOf(o, u, st)
                                  /\ WithinLimits(o)}
Claims(u, st) == OrdersFor(u, st) \cup Joining(u, st)
Amounts       == [o \in Orders |-> req[o].amount]

RowsToday(u)  == {o \in today : /\ AskedBy(o, u)
                                /\ table[o] \notin {"failed", "rejected"}}
Admitted(u)   == {o \in Orders : pc[o] \in Counted /\ AskedBy(o, u)}
Slots(u)      == RowsToday(u) \cup Admitted(u)

MostInvested(st) == LimitOf(st) + (MaxConcurrent - 1) * MaxOrderAmount
MostRows         == MaxDailyOrders + MaxConcurrent - 1

ReadTyped ==
    /\ seen \in [Orders -> Nat]
    /\ today \subseteq Orders /\ cutOff \subseteq Orders
    /\ Cardinality(Active) <= MaxConcurrent
    /\ \A o \in Orders : pc[o] \in Checked => WithinLimits(o)
    /\ \A o \in today : pc[o] = "done"

FewClaims ==
    \A u \in Users, st \in Purposes :
        SumFunctionOnSet(Amounts, Claims(u, st)) <= MostInvested(st)

FewSlots == \A u \in Users : Cardinality(Slots(u)) <= MostRows

LEMMA SmallSets ==
    ASSUME ReadTyped
    PROVE  /\ IsFiniteSet(Active)
           /\ \A u, st : /\ IsFiniteSet(Claims(u, st))
                         /\ IsFiniteSet(OrdersFor(u, st))
                         /\ IsFiniteSet(Joining(u, st))
           /\ \A u : /\ IsFiniteSet(Slots(u)) /\ IsFiniteSet(RowsToday(u))
                     /\ IsFiniteSet(Admitted(u))
  <1>1. \A S \in SUBSET Orders : IsFiniteSet(S)
    BY OrdersAssumption, FS_Subset DEF OrdersAssumption
  <1>2. /\ Active \in SUBSET Orders
        /\ \A u, st : /\ Claims(u, st) \in SUBSET Orders
                      /\ OrdersFor(u, st) \in SUBSET Orders
                      /\ Joining(u, st) \in SUBSET Orders
        /\ \A u : /\ Slots(u) \in SUBSET Orders
                  /\ RowsToday(u) \in SUBSET Orders
                  /\ Admitted(u) \in SUBSET Orders
    BY DEF Active, Claims, OrdersFor, Joining, Slots, RowsToday, Admitted,
           ReadTyped
  <1> HIDE DEF Active, Claims, OrdersFor, Joining, Slots, RowsToday,
               Admitted
  <1> QED
    BY <1>1, <1>2

LEMMA AmountsTyped ==
    ASSUME RowsTyped
    PROVE  \A o \in Orders : /\ Amounts[o] \in Nat /\ Amounts[o] = req[o].amount
                             /\ req[o].amount \in Nat
  BY RequestAssumption DEF RowsTyped, Amounts, RequestAssumption, NoRequest

LEMMA LimitsTyped ==
    ASSUME NEW st \in Purposes
    PROVE  /\ LimitOf(st) \in Nat /\ MaxOrderAmount \in Nat
           /\ MaxConcurrent \in Nat /\ MaxConcurrent >= 1
           /\ (MaxConcurrent - 1) * MaxOrderAmount \in Nat
           /\ MostInvested(st) \in Nat
  <1>1. /\ LimitOf(st) \in Nat /\ MaxOrderAmount \in Nat
        /\ MaxConcurrent \in Nat /\ MaxConcurrent >= 1
    BY LimitAssumption DEF LimitAssumption, LimitOf, Purposes
  <1>2. MaxConcurrent - 1 \in Nat
    BY <1>1
  <1>3. \A m, n \in Nat : m * n \in Nat /\ m + n \in Nat
    OBVIOUS
  <1> QED
    BY <1>1, <1>2, <1>3 DEF MostInvested

(***************************************************************************)
(* Every step seen from the limits: a request arrives, reads the sum, is   *)
(* counted, is committed, or nothing but leaving happens.                  *)
(***************************************************************************)

\* Requests only move on or away.
Onward ==
    /\ UNCHANGED <<req, seen, table>>
    /\ today' \subseteq today /\ cutOff' \subseteq Orders
    /\ \A o \in Orders :
          /\ pc'[o] \in UnderWay => pc[o] \in UnderWay
          /\ pc'[o] \in HasRead  => pc[o] \in HasRead
          /\ pc'[o] \in Counted  => pc[o] \in Counted
          /\ pc'[o] \in Checked  => pc[o] \in Checked \/ WithinLimits(o)
          /\ pc[o] = "done" => pc'[o] = "done"

Passes(o) ==
    /\ pc[o] = "counting" /\ BelowDailyLimit(req[o].user)
    /\ \E step \in Counted : Go(o, step)
    /\ UNCHANGED <<req, seen, table, today, cutOff>>

LEMMA LimitShapes ==
    ASSUME RowsInv, ReadTyped, [Next]_allVars
    PROVE  \/ Onward
           \/ \E o \in Orders : \/ Arrive(o) \/ ReadInvested(o) \/ Passes(o)
                                \/ Commit(o)
  <1> USE DEF HasRead, Checked, Counted, UnderWay
  <1>0. pc \in [Orders -> Steps] /\ cutOff \subseteq Orders
    BY DEF RowsInv, RowsTyped, ReadTyped
  <1>1. ASSUME NEW o \in Orders, RunChecks(o) PROVE Onward
    <2>1. /\ pc[o] = "read" /\ UNCHANGED <<req, seen, table, today, cutOff>>
          /\ \/ WithinLimits(o) /\ pc' = [pc EXCEPT ![o] = "counting"]
             \/ pc' = [pc EXCEPT ![o] = "refused"]
      BY <1>1 DEF RunChecks, Go
    <2> QED
      BY <1>0, <2>1 DEF Onward
  <1>2. ASSUME NEW o \in Orders, CountAndInsert(o) PROVE Onward \/ Passes(o)
    <2>1. CASE BelowDailyLimit(req[o].user)
      BY <1>2, <2>1 DEF CountAndInsert, Passes
    <2>2. CASE ~BelowDailyLimit(req[o].user)
      <3>1. /\ pc[o] = "counting" /\ pc' = [pc EXCEPT ![o] = "refused"]
            /\ UNCHANGED <<req, seen, table, today, cutOff>>
        BY <1>2, <2>2 DEF CountAndInsert, Go
      <3> QED
        BY <1>0, <3>1 DEF Onward
    <2> QED
      BY <2>1, <2>2
  <1>3. ASSUME NEW o \in Orders, PlaceOrder(o) PROVE Onward
    BY <1>0, <1>3 DEF PlaceOrder, Go, Onward
  <1>4. ASSUME NEW o \in Orders, PlaceOrderFails(o) PROVE Onward
    BY <1>0, <1>4 DEF PlaceOrderFails, Go, Onward
  <1>5. ASSUME NEW o \in Orders, OrderSubmitted(o) PROVE Onward
    BY <1>0, <1>5 DEF OrderSubmitted, Go, Onward
  <1>6. ASSUME NEW o \in Orders, BrokerExecutes(o) PROVE Onward
    BY <1>0, <1>6 DEF BrokerExecutes, Onward
  <1>7. ASSUME NEW o \in Orders, OnOrderExec(o) \/ CancelOrder(o)
        PROVE  Onward
    <2>1. table' = table
      BY <1>7, ReportsKeepRows
    <2> QED
      BY <1>0, <1>7, <2>1 DEF OnOrderExec, CancelOrder, Onward
  <1>8. CASE ServerRestarts
    BY <1>0, <1>8 DEF ServerRestarts, Onward
  <1>9. CASE StopCommand \/ NextDay \/ UNCHANGED allVars
    BY <1>0, <1>9 DEF StopCommand, NextDay, allVars, orderVars, Onward
  <1> QED
    BY <1>1, <1>2, <1>3, <1>4, <1>5, <1>6, <1>7, <1>8, <1>9
    DEF Next, RequestStep

\* A smaller set of orders that ask for the same has at most the sum.
LEMMA FewerClaims ==
    ASSUME RowsInv, ReadTyped, FewClaims,
           NEW u \in Users, NEW st \in Purposes,
           Claims(u, st)' \subseteq Claims(u, st),
           \A o \in Claims(u, st)' : req'[o] = req[o]
    PROVE  SumFunctionOnSet(Amounts, Claims(u, st))' <= MostInvested(st)
  <1> DEFINE S == Claims(u, st)
             T == Claims(u, st)'
             A == Amounts'
  <1>1. /\ IsFiniteSet(S) /\ IsFiniteSet(T) /\ T \in SUBSET S
        /\ \A o \in S : Amounts[o] \in Nat
        /\ \A o \in T : A[o] = Amounts[o] /\ Amounts[o] \in Nat
    <2>1. S \subseteq Orders
      BY DEF Claims, OrdersFor, Joining
    <2>2. IsFiniteSet(S) /\ IsFiniteSet(T)
      BY SmallSets, FS_Subset
    <2>3. \A o \in Orders : Amounts[o] \in Nat
      BY AmountsTyped DEF RowsInv
    <2>4. \A o \in T : A[o] = Amounts[o]
      <3>1. \A o \in T : o \in Orders /\ req'[o] = req[o]
        BY <2>1
      <3> HIDE DEF T
      <3> QED
        BY <3>1 DEF Amounts
    <2> QED
      BY <2>1, <2>2, <2>3, <2>4
  <1>2. SumFunctionOnSet(Amounts, S) <= MostInvested(st)
    BY DEF FewClaims
  <1>3. MostInvested(st) \in Nat
    BY LimitsTyped
  <1> HIDE DEF S, T, A
  <1>4. /\ SumFunctionOnSet(A, T) = SumFunctionOnSet(Amounts, T)
        /\ SumFunctionOnSet(Amounts, T) <= SumFunctionOnSet(Amounts, S)
        /\ SumFunctionOnSet(Amounts, T) \in Nat
        /\ SumFunctionOnSet(Amounts, S) \in Nat
    BY <1>1, SumOfSameValues, SumOfPart, SumTyped
  <1>5. SumFunctionOnSet(A, T) <= MostInvested(st)
    BY <1>2, <1>3, <1>4
  <1> QED
    BY <1>5 DEF A, T

\* Whoever else is under way when o reads claims at most its orders' worth.
LEMMA OthersJoin ==
    ASSUME RowsInv, ReadTyped, NEW o \in Orders, pc[o] = "arrived",
           NEW u \in Users, NEW st \in Purposes
    PROVE  SumFunctionOnSet(Amounts, Joining(u, st))
              <= (MaxConcurrent - 1) * MaxOrderAmount
  <1> DEFINE J == Joining(u, st)
  <1>1. J \subseteq Active \ {o} /\ o \in Active /\ J \subseteq Orders
    BY DEF Joining, Active, HasRead, UnderWay
  <1>2. IsFiniteSet(Active) /\ IsFiniteSet(J)
    BY SmallSets
  <1>3. /\ Cardinality(Active \ {o}) = Cardinality(Active) - 1
        /\ IsFiniteSet(Active \ {o})
    BY <1>1, <1>2, FS_RemoveElement
  <1>4. Cardinality(J) <= Cardinality(Active \ {o})
    BY <1>1, <1>3, FS_Subset
  <1>5. /\ Cardinality(Active) \in Nat /\ Cardinality(J) \in Nat
        /\ Cardinality(Active) <= MaxConcurrent
    BY <1>2, FS_CardinalityType DEF ReadTyped
  <1>6. /\ MaxOrderAmount \in Nat /\ MaxConcurrent \in Nat
        /\ MaxConcurrent >= 1
    BY LimitsTyped
  <1>7. Cardinality(J) <= MaxConcurrent - 1 /\ MaxConcurrent - 1 \in Nat
    BY <1>3, <1>4, <1>5, <1>6
  <1>8. \A p \in J : Amounts[p] \in Nat /\ Amounts[p] <= MaxOrderAmount
    <2>1. \A p \in J : p \in Orders /\ WithinLimits(p)
      BY DEF Joining
    <2> HIDE DEF J
    <2> QED
      BY <2>1, AmountsTyped DEF RowsInv, WithinLimits
  <1> HIDE DEF J
  <1>9. SumFunctionOnSet(Amounts, J) <= Cardinality(J) * MaxOrderAmount
    BY <1>2, <1>6, <1>8, SumAtMost
  <1>10. SumFunctionOnSet(Amounts, J) \in Nat
    BY <1>2, <1>8, SumTyped
  <1>11. \A m, n, c \in Nat : m <= n => m * c <= n * c
    <2> SUFFICES ASSUME NEW m \in Nat, NEW n \in Nat, NEW c \in Nat, m <= n
                 PROVE  m * c <= n * c
      OBVIOUS
    <2>1. n - m \in Nat /\ \A a, b \in Nat : a * b \in Nat
      OBVIOUS
    <2>2. (n - m) * c \in Nat /\ m * c \in Nat /\ n * c \in Nat
      BY <2>1
    <2>3. n * c = (n - m) * c + m * c
      OBVIOUS
    <2> QED
      BY <2>2, <2>3
  <1>12. Cardinality(J) * MaxOrderAmount
               <= (MaxConcurrent - 1) * MaxOrderAmount
    BY <1>5, <1>6, <1>7, <1>11
  <1>13. /\ Cardinality(J) * MaxOrderAmount \in Nat
         /\ (MaxConcurrent - 1) * MaxOrderAmount \in Nat
    <2>1. \A a, b \in Nat : a * b \in Nat
      OBVIOUS
    <2> QED
      BY <1>5, <1>6, <1>7, <2>1
  <1> QED
    BY <1>9, <1>10, <1>12, <1>13 DEF J

\* What a request reads is at least what is committed for its strategy.
Committed(u, st) == SumFunctionOnSet(Amounts, OrdersFor(u, st))

LEMMA InvestedTyped ==
    ASSUME RowsInv, ReadTyped, NEW u, NEW st
    PROVE  /\ Invested(u, st) \in Nat /\ Committed(u, st) \in Nat
           /\ Committed(u, st) <= Invested(u, st)
  <1> DEFINE S == InvestedOrders(u, st)
             T == OrdersFor(u, st)
  <1>1. S \in SUBSET Orders /\ T \in SUBSET S
    BY DEF InvestedOrders, OrdersFor, Purposes
  <1>2. IsFiniteSet(S) /\ IsFiniteSet(T)
    BY <1>1, OrdersAssumption, FS_Subset DEF OrdersAssumption
  <1>3. \A o \in S : Amounts[o] \in Nat
    BY <1>1, AmountsTyped DEF RowsInv
  <1>4. Invested(u, st) = SumFunctionOnSet(Amounts, S)
    BY DEF Invested, SumOf, Amounts
  <1>5. Committed(u, st) = SumFunctionOnSet(Amounts, T)
    BY DEF Committed
  <1> HIDE DEF S, T
  <1>6. SumFunctionOnSet(Amounts, S) \in Nat /\ SumFunctionOnSet(Amounts, T) \in Nat
    BY <1>1, <1>2, <1>3, SumTyped
  <1>7. SumFunctionOnSet(Amounts, T) <= SumFunctionOnSet(Amounts, S)
    BY <1>1, <1>2, <1>3, SumOfPart
  <1> QED
    BY <1>4, <1>5, <1>6, <1>7

\* Reading the sum: the request joins with an order that fits what it read.
LEMMA ReadClaims ==
    ASSUME RowsInv, ReadTyped, FewClaims, NEW o \in Orders, ReadInvested(o)
    PROVE  FewClaims'
  <1> SUFFICES ASSUME NEW u \in Users, NEW st \in Purposes
               PROVE  SumFunctionOnSet(Amounts, Claims(u, st))'
                         <= MostInvested(st)
    BY DEF FewClaims, MostInvested
  <1>1. /\ UNCHANGED <<req, table>> /\ pc[o] = "arrived"
        /\ pc' = [pc EXCEPT ![o] = "read"]
        /\ seen' = [seen EXCEPT ![o] =
                        Invested(req[o].user, req[o].strategy)]
    BY DEF ReadInvested, Go
  <1>2. /\ pc \in [Orders -> Steps] /\ seen \in [Orders -> Nat]
    BY DEF RowsInv, RowsTyped, ReadTyped
  <1>3. OrdersFor(u, st)' = OrdersFor(u, st)
    BY <1>1 DEF OrdersFor
  <1>4. Joining(u, st)' \subseteq Joining(u, st) \cup {o}
    BY <1>1, <1>2 DEF Joining, HasRead, AskedOf, WithinLimits
  <1>5. CASE o \notin Joining(u, st)'
    <2>1. Claims(u, st)' \subseteq Claims(u, st)
      BY <1>3, <1>4, <1>5 DEF Claims
    <2> QED
      BY <1>1, <2>1, FewerClaims
  <1>6. CASE o \in Joining(u, st)'
    <2> DEFINE I == OrdersFor(u, st)
               J == Joining(u, st)
               V == Committed(u, st)
    <2>1. /\ AskedOf(o, u, st) /\ V + req[o].amount <= LimitOf(st)
      <3>1. req'[o].user = u /\ req'[o].strategy = st /\ WithinLimits(o)'
        BY <1>6 DEF Joining, AskedOf
      <3>2. req[o].user = u /\ req[o].strategy = st
        BY <1>1, <3>1
      <3>3. seen'[o] \in Nat /\ V \in Nat /\ V <= seen'[o]
        <4>1. seen'[o] = Invested(u, st)
          BY <1>1, <1>2, <3>2
        <4> QED
          BY <4>1, InvestedTyped
      <3>4. seen'[o] + req'[o].amount <= LimitOf(req'[o].strategy)
        BY <3>1 DEF WithinLimits
      <3> HIDE DEF V
      <3>5. V + req[o].amount <= LimitOf(st)
        <4>1. req[o].amount \in Nat
          BY AmountsTyped DEF RowsInv
        <4>2. LimitOf(st) \in Nat
          BY LimitsTyped
        <4> QED
          BY <1>1, <3>2, <3>3, <3>4, <4>1, <4>2
      <3> QED
        BY <3>2, <3>5 DEF AskedOf
    <2>2. /\ V = SumFunctionOnSet(Amounts, I) /\ V \in Nat
      BY InvestedTyped DEF Committed
    <2>3. SumFunctionOnSet(Amounts, J) <= (MaxConcurrent - 1) * MaxOrderAmount
      BY <1>1, OthersJoin
    <2>4. /\ IsFiniteSet(I) /\ IsFiniteSet(J)
          /\ I \subseteq Orders /\ J \subseteq Orders /\ o \notin J
      <3>1. IsFiniteSet(I) /\ IsFiniteSet(J)
        BY SmallSets
      <3>2. I \subseteq Orders /\ J \subseteq Orders /\ o \notin J
        BY <1>1 DEF OrdersFor, Joining, HasRead
      <3> QED
        BY <3>1, <3>2
    <2>5. Claims(u, st)' \subseteq I \cup (J \cup {o})
      BY <1>3, <1>4 DEF Claims
    <2>6. Amounts' = Amounts
      BY <1>1 DEF Amounts
    <2>7. SumFunctionOnSet(Amounts, Claims(u, st))' =
            SumFunctionOnSet(Amounts, Claims(u, st)')
      BY <2>6
    <2> DEFINE T == Claims(u, st)'
               K == J \cup {o}
               W == I \cup K
    <2>8. \A p \in Orders : Amounts[p] \in Nat /\ Amounts[p] = req[p].amount
      BY AmountsTyped DEF RowsInv
    <2>9. T \in SUBSET W
      BY <2>5
    <2> HIDE DEF I, J, V, T
    <2>10. IsFiniteSet(K)
      BY <2>4, FS_AddElement
    <2>11. SumFunctionOnSet(Amounts, K) =
              Amounts[o] + SumFunctionOnSet(Amounts, J)
      <3>1. \A p \in J : Amounts[p] \in Nat
        BY <2>4, <2>8
      <3> QED
        BY <2>4, <2>8, <3>1, SumWith
    <2>12. \A p \in W : Amounts[p] \in Nat
      BY <2>4, <2>8
    <2>13. \A p \in J : Amounts[p] \in Nat
      BY <2>4, <2>8
    <2>14. K \subseteq W
      OBVIOUS
    <2> HIDE DEF K
    <2>15. IsFiniteSet(W)
      BY <2>4, <2>10, FS_Union
    <2>16. SumFunctionOnSet(Amounts, W) <=
              SumFunctionOnSet(Amounts, I) + SumFunctionOnSet(Amounts, K)
      BY <2>4, <2>10, <2>12, SumOfUnion
    <2> HIDE DEF W
    <2>17. SumFunctionOnSet(Amounts, T) <= SumFunctionOnSet(Amounts, W)
      BY <2>9, <2>12, <2>15, SumOfPart
    <2>18. /\ SumFunctionOnSet(Amounts, W) \in Nat
           /\ SumFunctionOnSet(Amounts, J) \in Nat
      BY <2>4, <2>12, <2>13, <2>15, SumTyped
    <2>19. SumFunctionOnSet(Amounts, T) \in Nat
      <3>1. IsFiniteSet(T) /\ \A p \in T : Amounts[p] \in Nat
        BY <2>9, <2>12, <2>15, FS_Subset
      <3> QED
        BY <3>1, SumTyped
    <2>20. SumFunctionOnSet(Amounts, T) <=
              LimitOf(st) + (MaxConcurrent - 1) * MaxOrderAmount
      <3>1. /\ LimitOf(st) \in Nat /\ Amounts[o] \in Nat
            /\ (MaxConcurrent - 1) * MaxOrderAmount \in Nat
            /\ V + Amounts[o] <= LimitOf(st)
        BY <2>1, <2>8, LimitsTyped
      <3> QED
        BY <2>2, <2>3, <2>11, <2>16, <2>17, <2>18, <2>19, <3>1
    <2> QED
      BY <2>7, <2>20 DEF T, MostInvested
  <1> QED
    BY <1>5, <1>6

(***************************************************************************)
(* The bounds are kept.                                                    *)
(***************************************************************************)

LEMMA TypedStep ==
    ASSUME RowsInv, ReadTyped, [Next]_allVars
    PROVE  ReadTyped'
  <1>1. /\ pc \in [Orders -> Steps] /\ seen \in [Orders -> Nat]
        /\ req \in [Orders -> Requests \cup {NoRequest}]
        /\ today \subseteq Orders /\ cutOff \subseteq Orders
        /\ Cardinality(Active) <= MaxConcurrent
        /\ \A o \in Orders : pc[o] \in Checked => WithinLimits(o)
        /\ \A o \in today : pc[o] = "done"
    BY DEF RowsInv, RowsTyped, ReadTyped
  <1>2. IsFiniteSet(Active) /\ MaxConcurrent \in Nat
    BY SmallSets, LimitAssumption DEF LimitAssumption
  <1>3. ASSUME Active' \subseteq Active
        PROVE  Cardinality(Active') <= MaxConcurrent
    <2>1. /\ Cardinality(Active') <= Cardinality(Active)
          /\ IsFiniteSet(Active')
      BY <1>2, <1>3, FS_Subset
    <2> QED
      BY <1>1, <1>2, <2>1, FS_CardinalityType
  <1>4. CASE Onward
    <2>1. Active' \subseteq Active
      BY <1>4 DEF Onward, Active
    <2> QED
      BY <1>1, <1>3, <1>4, <2>1 DEF Onward, ReadTyped, WithinLimits
  <1>5. ASSUME NEW o \in Orders, Arrive(o) PROVE ReadTyped'
    <2>1. /\ UNCHANGED <<seen, today, cutOff>>
          /\ pc' = [pc EXCEPT ![o] = "arrived"]
          /\ \E r \in Requests : req' = [req EXCEPT ![o] = r]
          /\ pc[o] = "none" /\ Cardinality(Active) < MaxConcurrent
      BY <1>5 DEF Arrive, Go, Active
    <2>2. Active' \subseteq Active \cup {o}
      BY <1>1, <2>1 DEF Active
    <2>3. Cardinality(Active') <= MaxConcurrent
      <3>1. /\ IsFiniteSet(Active \cup {o})
            /\ Cardinality(Active \cup {o}) <= Cardinality(Active) + 1
        BY <1>2, FS_AddElement, FS_CardinalityType
      <3>2. /\ Cardinality(Active') <= Cardinality(Active \cup {o})
            /\ IsFiniteSet(Active')
        BY <2>2, <3>1, FS_Subset
      <3>3. /\ Cardinality(Active) \in Nat /\ Cardinality(Active') \in Nat
            /\ Cardinality(Active \cup {o}) \in Nat
        BY <1>2, <3>1, <3>2, FS_CardinalityType
      <3> QED
        BY <1>2, <2>1, <3>1, <3>2, <3>3
    <2>4. \A p \in Orders : pc'[p] \in Checked => WithinLimits(p)'
      <3>1. \A p \in Orders \ {o} : req'[p] = req[p]
        BY <1>1, <2>1
      <3> QED
        BY <1>1, <2>1, <3>1 DEF Checked, WithinLimits
    <2>5. \A p \in today' : pc'[p] = "done"
      BY <1>1, <2>1
    <2> QED
      BY <1>1, <2>1, <2>3, <2>4, <2>5 DEF ReadTyped
  <1>6. ASSUME NEW o \in Orders, ReadInvested(o) PROVE ReadTyped'
    <2>1. /\ UNCHANGED <<req, today, cutOff>> /\ pc[o] = "arrived"
          /\ pc' = [pc EXCEPT ![o] = "read"]
          /\ seen' = [seen EXCEPT ![o] =
                          Invested(req[o].user, req[o].strategy)]
      BY <1>6 DEF ReadInvested, Go
    <2>2. seen' \in [Orders -> Nat]
      BY <1>1, <2>1, InvestedTyped
    <2>3. Active' \subseteq Active
      BY <1>1, <2>1 DEF Active, UnderWay
    <2>4. \A p \in Orders : pc'[p] \in Checked => WithinLimits(p)'
      <3>1. \A p \in Orders \ {o} : seen'[p] = seen[p]
        BY <1>1, <2>1
      <3> QED
        BY <1>1, <2>1, <3>1 DEF Checked, WithinLimits
    <2> QED
      BY <1>1, <1>3, <2>1, <2>2, <2>3, <2>4 DEF ReadTyped
  <1>7. ASSUME NEW o \in Orders, Passes(o) \/ Commit(o) PROVE ReadTyped'
    <2>1. /\ UNCHANGED <<req, seen, cutOff>>
          /\ pc[o] \in {"counting", "committing"}
          /\ \/ \E step \in Counted : /\ pc' = [pc EXCEPT ![o] = step]
                                       /\ today' = today
             \/ /\ pc' = [pc EXCEPT ![o] = "done"]
                /\ today' = today \cup {o}
      BY <1>7 DEF Passes, Commit, Go
    <2>2. Active' \subseteq Active
      BY <1>1, <2>1 DEF Active, UnderWay
    <2>3. \A p \in Orders : pc'[p] \in Checked => WithinLimits(p)'
      BY <1>1, <2>1 DEF Checked, Counted, WithinLimits
    <2>4. today' \subseteq Orders /\ \A p \in today' : pc'[p] = "done"
      BY <1>1, <2>1
    <2> QED
      BY <1>1, <1>3, <2>1, <2>2, <2>3, <2>4 DEF ReadTyped
  <1> QED
    BY <1>4, <1>5, <1>6, <1>7, LimitShapes

LEMMA ClaimsStep ==
    ASSUME RowsInv, ReadTyped, FewClaims, [Next]_allVars
    PROVE  FewClaims'
  <1>1. ASSUME NEW o \in Orders, ReadInvested(o) PROVE FewClaims'
    BY <1>1, ReadClaims
  <1>2. ASSUME \A u \in Users, st \in Purposes :
                    /\ Claims(u, st)' \subseteq Claims(u, st)
                    /\ \A o \in Claims(u, st)' : req'[o] = req[o]
        PROVE  FewClaims'
    <2> SUFFICES ASSUME NEW u \in Users, NEW st \in Purposes
                 PROVE  SumFunctionOnSet(Amounts, Claims(u, st))'
                           <= MostInvested(st)
      BY DEF FewClaims, MostInvested
    <2> QED
      BY <1>2, FewerClaims
  <1>3. /\ pc \in [Orders -> Steps] /\ table \in [Orders -> OrderStatus \cup {"absent"}]
        /\ req \in [Orders -> Requests \cup {NoRequest}]
    BY DEF RowsInv, RowsTyped
  <1>4. CASE Onward
    <2>1. \A u, st : Claims(u, st)' \subseteq Claims(u, st)
      BY <1>4 DEF Onward, Claims, OrdersFor, Joining, AskedOf, WithinLimits
    <2> QED
      BY <1>2, <1>4, <2>1 DEF Onward
  <1>5. ASSUME NEW o \in Orders, Passes(o) PROVE FewClaims'
    <2>1. /\ UNCHANGED <<req, seen, table>> /\ pc[o] = "counting"
          /\ \E step \in Counted : pc' = [pc EXCEPT ![o] = step]
      BY <1>5 DEF Passes, Go
    <2>2. \A p \in Orders : pc'[p] \in HasRead => pc[p] \in HasRead
      BY <1>3, <2>1 DEF Counted, HasRead
    <2>3. \A u, st : Claims(u, st)' \subseteq Claims(u, st)
      BY <2>1, <2>2 DEF Claims, OrdersFor, Joining, AskedOf, WithinLimits
    <2> QED
      BY <1>2, <2>1, <2>3
  <1>6. ASSUME NEW o \in Orders, Arrive(o) PROVE FewClaims'
    <2>1. /\ UNCHANGED <<seen, table>>
          /\ pc[o] = "none" /\ pc' = [pc EXCEPT ![o] = "arrived"]
          /\ \E r \in Requests : req' = [req EXCEPT ![o] = r]
      BY <1>6 DEF Arrive, Go
    <2>2. /\ \A p \in Orders \ {o} : req'[p] = req[p] /\ pc'[p] = pc[p]
          /\ pc'[o] = "arrived" /\ table[o] = "absent"
      BY <1>3, <2>1 DEF RowsInv, Consistent
    <2>3. \A u, st : o \notin Claims(u, st)'
      BY <2>1, <2>2 DEF Claims, OrdersFor, Joining, HasRead,
                        CountedAsInvested
    <2>4. \A u, st, p : p \in Claims(u, st)' =>
                            p \in Claims(u, st) /\ req'[p] = req[p]
      <3>1. ASSUME NEW u, NEW st, NEW p, p \in Claims(u, st)'
            PROVE  p \in Claims(u, st) /\ req'[p] = req[p]
        <4>1. p \in Orders \ {o}
          BY <2>3, <3>1 DEF Claims, OrdersFor, Joining
        <4>2. req'[p] = req[p] /\ pc'[p] = pc[p]
          BY <2>2, <4>1
        <4> QED
          BY <2>1, <3>1, <4>1, <4>2 DEF Claims, OrdersFor, Joining,
                                        AskedOf, WithinLimits
      <3> QED
        BY <3>1
    <2> QED
      BY <1>2, <2>4
  <1>7. ASSUME NEW o \in Orders, Commit(o) PROVE FewClaims'
    <2>1. /\ UNCHANGED <<req, seen>>
          /\ pc[o] = "committing" /\ pc' = [pc EXCEPT ![o] = "done"]
          /\ table' = [table EXCEPT ![o] = working[o]]
      BY <1>7 DEF Commit, Go
    <2>2. pc[o] \in HasRead /\ WithinLimits(o)
      BY <2>1 DEF HasRead, Checked, ReadTyped
    <2>3. \A p \in Orders \ {o} : pc'[p] = pc[p] /\ table'[p] = table[p]
      BY <1>3, <2>1
    <2>4. pc'[o] = "done"
      BY <1>3, <2>1
    <2>5. ASSUME NEW u, NEW st, NEW p, p \in Claims(u, st)'
          PROVE  p \in Claims(u, st)
      <3>1. p \in Orders /\ AskedOf(p, u, st)
        BY <2>1, <2>5 DEF Claims, OrdersFor, Joining, AskedOf
      <3>2. CASE p = o
        BY <2>2, <3>1, <3>2 DEF Claims, Joining
      <3>3. CASE p # o
        BY <2>1, <2>3, <2>5, <3>1, <3>3
        DEF Claims, OrdersFor, Joining, AskedOf, WithinLimits
      <3> QED
        BY <3>2, <3>3
    <2> QED
      BY <1>2, <2>1, <2>5
  <1> QED
    BY <1>1, <1>4, <1>5, <1>6, <1>7, LimitShapes

\* Fewer slots are taken by a step that lets nobody through.
LEMMA FewerSlots ==
    ASSUME ReadTyped, FewSlots, NEW u \in Users,
           Slots(u)' \subseteq Slots(u)
    PROVE  Cardinality(Slots(u)') <= MostRows
  <1>1. IsFiniteSet(Slots(u))
    BY SmallSets
  <1>2. /\ Cardinality(Slots(u)') <= Cardinality(Slots(u))
        /\ IsFiniteSet(Slots(u)')
    BY <1>1, FS_Subset
  <1>3. /\ Cardinality(Slots(u)) \in Nat /\ Cardinality(Slots(u)') \in Nat
        /\ Cardinality(Slots(u)) <= MostRows
    BY <1>1, <1>2, FS_CardinalityType DEF FewSlots
  <1>4. MostRows \in Nat
    BY LimitAssumption DEF LimitAssumption, MostRows
  <1> QED
    BY <1>2, <1>3, <1>4

\* A request that passes the daily limit adds itself to at most
\* MaxDailyOrders - 1 rows and the other requests under way.
LEMMA PassesSlots ==
    ASSUME RowsInv, ReadTyped, NEW o \in Orders, Passes(o),
           NEW u \in Users, req[o].user = u
    PROVE  Cardinality(Slots(u)') <= MostRows
  <1> DEFINE R == RowsToday(u)
             A == Admitted(u)'
             T == Slots(u)'
  <1>1. /\ UNCHANGED <<req, seen, table, today>> /\ pc[o] = "counting"
        /\ \E step \in Counted : pc' = [pc EXCEPT ![o] = step]
        /\ BelowDailyLimit(u)
    BY DEF Passes, Go
  <1>2. pc \in [Orders -> Steps]
    BY DEF RowsInv, RowsTyped
  <1>3. A \subseteq Active
    BY <1>1, <1>2 DEF Admitted, Active, Counted, UnderWay
  <1>4. T \subseteq R \cup A
    BY <1>1 DEF Slots, RowsToday, AskedBy
  <1>5. Cardinality(R) < MaxDailyOrders
    BY <1>1 DEF BelowDailyLimit, DailyCount, RowsToday, AskedBy
  <1>6. /\ IsFiniteSet(R) /\ IsFiniteSet(Active)
        /\ Cardinality(Active) <= MaxConcurrent
    BY SmallSets DEF ReadTyped
  <1>7. MaxConcurrent \in Nat /\ MaxDailyOrders \in Nat
    BY LimitAssumption DEF LimitAssumption
  <1> HIDE DEF R, A, T
  <1>8. IsFiniteSet(A) /\ Cardinality(A) <= Cardinality(Active)
    BY <1>3, <1>6, FS_Subset
  <1>9. /\ IsFiniteSet(R \cup A) /\ IsFiniteSet(R \cap A)
        /\ Cardinality(R \cup A) =
              Cardinality(R) + Cardinality(A) - Cardinality(R \cap A)
    BY <1>6, <1>8, FS_Union, FS_Intersection
  <1>10. IsFiniteSet(T) /\ Cardinality(T) <= Cardinality(R \cup A)
    BY <1>4, <1>9, FS_Subset
  <1>11. /\ Cardinality(R) \in Nat /\ Cardinality(A) \in Nat
         /\ Cardinality(R \cap A) \in Nat /\ Cardinality(R \cup A) \in Nat
         /\ Cardinality(T) \in Nat /\ Cardinality(Active) \in Nat
    BY <1>6, <1>8, <1>9, <1>10, FS_CardinalityType
  <1>12. Cardinality(T) <= MaxDailyOrders + MaxConcurrent - 1
    BY <1>5, <1>6, <1>7, <1>8, <1>9, <1>10, <1>11
  <1> QED
    BY <1>12 DEF T, MostRows

LEMMA SlotsStep ==
    ASSUME RowsInv, ReadTyped, FewSlots, [Next]_allVars
    PROVE  FewSlots'
  <1> SUFFICES ASSUME NEW u \in Users
               PROVE  Cardinality(Slots(u)') <= MostRows
    BY DEF FewSlots, MostRows
  <1>1. ASSUME Slots(u)' \subseteq Slots(u)
        PROVE  Cardinality(Slots(u)') <= MostRows
    BY <1>1, FewerSlots
  <1>2. /\ pc \in [Orders -> Steps]
        /\ req \in [Orders -> Requests \cup {NoRequest}]
        /\ table \in [Orders -> OrderStatus \cup {"absent"}]
        /\ today \subseteq Orders
    BY DEF RowsInv, RowsTyped, ReadTyped
  <1>3. CASE Onward
    <2>1. Slots(u)' \subseteq Slots(u)
      BY <1>3 DEF Onward, Slots, RowsToday, Admitted, AskedBy
    <2> QED
      BY <1>1, <2>1
  <1>4. ASSUME NEW o \in Orders, Arrive(o)
        PROVE  Cardinality(Slots(u)') <= MostRows
    <2>1. /\ UNCHANGED <<seen, table, today>>
          /\ pc[o] = "none" /\ pc' = [pc EXCEPT ![o] = "arrived"]
          /\ \E r \in Requests : req' = [req EXCEPT ![o] = r]
          /\ o \notin today
      <3>1. o \notin today
        BY <1>4 DEF Arrive, RowsInv, Consistent, ReadTyped
      <3> QED
        BY <1>4, <3>1 DEF Arrive, Go
    <2>2. /\ \A p \in Orders \ {o} : req'[p] = req[p] /\ pc'[p] = pc[p]
          /\ pc'[o] = "arrived"
      BY <1>2, <2>1
    <2>3. Slots(u)' \subseteq Slots(u)
      BY <1>2, <2>1, <2>2 DEF Slots, RowsToday, Admitted, AskedBy, Counted
    <2> QED
      BY <1>1, <2>3
  <1>5. ASSUME NEW o \in Orders, ReadInvested(o)
        PROVE  Cardinality(Slots(u)') <= MostRows
    <2>1. /\ UNCHANGED <<req, table, today>>
          /\ pc[o] = "arrived" /\ pc' = [pc EXCEPT ![o] = "read"]
      BY <1>5 DEF ReadInvested, Go
    <2>2. \A p \in Orders : pc'[p] \in Counted => pc[p] \in Counted
      BY <1>2, <2>1 DEF Counted
    <2>3. Slots(u)' \subseteq Slots(u)
      BY <2>1, <2>2 DEF Slots, RowsToday, Admitted, AskedBy
    <2> QED
      BY <1>1, <2>3
  <1>6. ASSUME NEW o \in Orders, Passes(o)
        PROVE  Cardinality(Slots(u)') <= MostRows
    <2>1. CASE req[o].user = u
      BY <1>6, <2>1, PassesSlots
    <2>2. CASE req[o].user # u
      <3>1. /\ UNCHANGED <<req, table, today>> /\ \A p \in Orders \ {o} : pc'[p] = pc[p]
        BY <1>2, <1>6 DEF Passes, Go
      <3>2. Slots(u)' \subseteq Slots(u)
        BY <2>2, <3>1 DEF Slots, RowsToday, Admitted, AskedBy
      <3> QED
        BY <1>1, <3>2
    <2> QED
      BY <2>1, <2>2
  <1>7. ASSUME NEW o \in Orders, Commit(o)
        PROVE  Cardinality(Slots(u)') <= MostRows
    <2>1. /\ UNCHANGED <<req, seen>> /\ today' = today \cup {o}
          /\ pc[o] = "committing" /\ pc' = [pc EXCEPT ![o] = "done"]
          /\ table' = [table EXCEPT ![o] = working[o]]
      BY <1>7 DEF Commit, Go
    <2>2. \A p \in Orders \ {o} : pc'[p] = pc[p] /\ table'[p] = table[p]
      BY <1>2, <2>1
    <2>3. pc'[o] = "done" /\ pc[o] \in Counted
      BY <1>2, <2>1 DEF Counted
    <2>4. ASSUME NEW p, p \in Slots(u)'
          PROVE  p \in Slots(u)
      <3>1. p \in Orders /\ AskedBy(p, u)
        BY <1>2, <2>1, <2>4 DEF Slots, RowsToday, Admitted, AskedBy
      <3>2. CASE p = o
        BY <2>3, <3>1, <3>2 DEF Slots, Admitted
      <3>3. CASE p # o
        BY <2>1, <2>2, <2>4, <3>1, <3>3
        DEF Slots, RowsToday, Admitted, AskedBy
      <3> QED
        BY <3>2, <3>3
    <2> QED
      BY <1>1, <2>4
  <1> QED
    BY <1>3, <1>4, <1>5, <1>6, <1>7, LimitShapes

LimitsInv == ReadTyped /\ FewClaims /\ FewSlots

LEMMA LimitsInit == Init => LimitsInv
  <1> SUFFICES ASSUME Init PROVE LimitsInv
    OBVIOUS
  <1>1. /\ pc = [o \in Orders |-> "none"] /\ seen = [o \in Orders |-> 0]
        /\ table = [o \in Orders |-> "absent"]
        /\ today = {} /\ cutOff = {}
    BY DEF Init
  <1>2. /\ Active = {} /\ \A u, st : Claims(u, st) = {}
        /\ \A u : Slots(u) = {}
    BY <1>1 DEF Active, UnderWay, Claims, OrdersFor, Joining, HasRead,
                CountedAsInvested, Slots, RowsToday, Admitted, Counted
  <1>3. /\ MaxConcurrent \in Nat \ {0} /\ MaxDailyOrders \in Nat \ {0}
        /\ Cardinality({}) = 0
    BY LimitAssumption, FS_EmptySet DEF LimitAssumption
  <1>4. ReadTyped
    BY <1>1, <1>2, <1>3 DEF ReadTyped, Checked
  <1>5. FewSlots
    BY <1>2, <1>3 DEF FewSlots, MostRows
  <1>6. ASSUME NEW u \in Users, NEW st \in Purposes
        PROVE  SumFunctionOnSet(Amounts, Claims(u, st)) <= MostInvested(st)
    <2>1. SumFunctionOnSet(Amounts, {}) = 0
      BY SumOfNothing
    <2>2. MostInvested(st) \in Nat
      BY LimitsTyped
    <2> HIDE DEF Amounts
    <2> QED
      BY <1>2, <2>1, <2>2
  <1> QED
    BY <1>4, <1>5, <1>6 DEF LimitsInv, FewClaims

LEMMA LimitsInvariant == Spec => []LimitsInv
  <1>1. RowsInv /\ LimitsInv /\ [Next]_allVars => LimitsInv'
    BY TypedStep, ClaimsStep, SlotsStep DEF LimitsInv
  <1> QED
    BY <1>1, LimitsInit, RowsInvariant, PTL DEF Spec

\* The daily number of orders and the sum of a strategy exceed their limits
\* by at most one order for each further request under way at the same time,
\* whatever the limits, the requests, the faults and the interleaving; a
\* server that serves one request at a time keeps them exactly.
THEOREM LimitsHold == Spec => []LimitsBounded
  <1>1. RowsInv /\ LimitsInv => LimitsBounded
    <2> SUFFICES ASSUME RowsInv, LimitsInv, NEW u \in Users
                 PROVE  /\ DailyCount(u) <= MaxDailyOrders + MaxConcurrent - 1
                        /\ \A st \in Purposes :
                              Committed(u, st) <= MostInvested(st)
      BY DEF LimitsBounded, MostInvested, Committed, SumOf, Amounts
    <2>0. ReadTyped /\ FewClaims /\ FewSlots
      BY DEF LimitsInv
    <2>1. DailyCount(u) <= MaxDailyOrders + MaxConcurrent - 1
      <3>1. RowsToday(u) \subseteq Slots(u) /\ IsFiniteSet(Slots(u))
        BY <2>0, SmallSets DEF Slots
      <3>2. /\ Cardinality(RowsToday(u)) <= Cardinality(Slots(u))
            /\ IsFiniteSet(RowsToday(u))
        BY <3>1, FS_Subset
      <3>3. /\ Cardinality(Slots(u)) \in Nat
            /\ Cardinality(RowsToday(u)) \in Nat
            /\ Cardinality(Slots(u)) <= MostRows /\ MostRows \in Nat
        BY <2>0, <3>1, <3>2, FS_CardinalityType, LimitAssumption
        DEF FewSlots, LimitAssumption, MostRows
      <3>4. DailyCount(u) = Cardinality(RowsToday(u))
        BY DEF DailyCount, RowsToday, AskedBy
      <3> QED
        BY <3>2, <3>3, <3>4 DEF MostRows
    <2>2. ASSUME NEW st \in Purposes
          PROVE  Committed(u, st) <= MostInvested(st)
      <3> DEFINE I == OrdersFor(u, st)
                 C == Claims(u, st)
      <3>1. I \in SUBSET C
        BY DEF Claims
      <3>2. IsFiniteSet(C)
        BY <2>0, SmallSets
      <3>3. \A o \in C : Amounts[o] \in Nat
        BY AmountsTyped DEF RowsInv, Claims, OrdersFor, Joining
      <3>4. /\ Committed(u, st) = SumFunctionOnSet(Amounts, I)
            /\ Committed(u, st) \in Nat
        BY <2>0, InvestedTyped DEF Committed
      <3>5. SumFunctionOnSet(Amounts, C) <= MostInvested(st)
        BY <2>0 DEF FewClaims
      <3>6. MostInvested(st) \in Nat
        BY LimitsTyped
      <3> HIDE DEF I, C
      <3>7. SumFunctionOnSet(Amounts, I) <= SumFunctionOnSet(Amounts, C)
        BY <3>1, <3>2, <3>3, SumOfPart
      <3>8. SumFunctionOnSet(Amounts, C) \in Nat
        BY <3>2, <3>3, SumTyped
      <3> QED
        BY <3>4, <3>5, <3>6, <3>7, <3>8
    <2> QED
      BY <2>1, <2>2
  <1> QED
    BY <1>1, RowsInvariant, LimitsInvariant, PTL

(***************************************************************************)
(* The switch inside the order service: every step of the orders is a step *)
(* of the switch or leaves it alone, so what is proved of the switch holds *)
(* of it here, its types included.                                         *)
(***************************************************************************)

\* A request that is there is one of those that may be asked.
AskedTyped == \A o \in Orders : pc[o] # "none" => req[o] \in Requests

LEMMA AskedStep ==
    ASSUME RowsInv, AskedTyped, [Next]_allVars
    PROVE  AskedTyped'
  <1>1. /\ pc \in [Orders -> Steps]
        /\ req \in [Orders -> Requests \cup {NoRequest}]
    BY DEF RowsInv, RowsTyped
  <1>2. ASSUME NEW o \in Orders, Arrive(o) PROVE AskedTyped'
    BY <1>1, <1>2 DEF Arrive, Go, AskedTyped
  <1>3. ASSUME NEW o \in Orders, RequestStep(o) PROVE AskedTyped'
    <2>1. /\ req' = req /\ pc[o] # "none"
          /\ \A p \in Orders \ {o} : pc'[p] = pc[p]
      BY <1>1, <1>3 DEF RequestStep, ReadInvested, RunChecks, CountAndInsert,
                        PlaceOrder, PlaceOrderFails, OrderSubmitted, Commit, Go
    <2> QED
      BY <2>1 DEF AskedTyped
  <1>4. ASSUME UNCHANGED req, \A o \in Orders : pc[o] = "none" => pc'[o] = "none"
        PROVE  AskedTyped'
    BY <1>4 DEF AskedTyped
  <1>5. ASSUME NEW o \in Orders,
               BrokerExecutes(o) \/ OnOrderExec(o) \/ CancelOrder(o)
        PROVE  AskedTyped'
    BY <1>4, <1>5 DEF BrokerExecutes, OnOrderExec, CancelOrder
  <1>6. CASE ServerRestarts
    BY <1>1, <1>4, <1>6 DEF ServerRestarts, UnderWay
  <1>7. CASE StopCommand \/ NextDay \/ UNCHANGED allVars
    BY <1>4, <1>7 DEF StopCommand, NextDay, allVars, orderVars
  <1> QED
    BY <1>2, <1>3, <1>5, <1>6, <1>7 DEF Next

LEMMA AskedInvariant == Spec => []AskedTyped
  <1>1. Init => AskedTyped
    BY DEF Init, AskedTyped
  <1> QED
    BY <1>1, AskedStep, RowsInvariant, PTL DEF Spec

LEMMA OrderStepIsSwitchStep ==
    ASSUME AskedTyped, [Next]_allVars
    PROVE  [SwitchNext]_switchVars
  <1>1. ASSUME NEW o \in Orders, RunChecks(o) PROVE [SwitchNext]_switchVars
    <2>1. req[o].user \in Users
      BY <1>1, RequestAssumption DEF RunChecks, AskedTyped, RequestAssumption
    <2> QED
      BY <1>1, <2>1 DEF RunChecks, SwitchNext
  <1>2. ASSUME NEW o \in Orders,
               \/ Arrive(o) \/ (RequestStep(o) /\ ~RunChecks(o))
               \/ BrokerExecutes(o) \/ OnOrderExec(o) \/ CancelOrder(o)
        PROVE  UNCHANGED switchVars
    BY <1>2 DEF Arrive, RequestStep, ReadInvested, CountAndInsert, PlaceOrder,
                PlaceOrderFails, OrderSubmitted, Commit, BrokerExecutes,
                OnOrderExec, CancelOrder
  <1>3. CASE StopCommand
    BY <1>3, LimitAssumption DEF StopCommand, LimitAssumption, SwitchNext
  <1>4. CASE ServerRestarts \/ NextDay
    BY <1>4 DEF ServerRestarts, NextDay, SwitchNext
  <1>5. CASE UNCHANGED allVars
    BY <1>5 DEF allVars
  <1> QED
    BY <1>1, <1>2, <1>3, <1>4, <1>5 DEF Next

\* The order service implements the kill switch: requests, executions and
\* restarts of the server only do to the two halves of the stop what the
\* commands and order checks of KillSwitch do, so StopsSurvive and
\* HardStopsHold are true of the composed system as well.
THEOREM OrdersObeyTheSwitch == Spec => SwitchSpec
  <1>1. Init => SwitchInit
    BY DEF Init
  <1> QED
    BY <1>1, OrderStepIsSwitchStep, AskedInvariant, PTL DEF Spec, SwitchSpec

\* A guard state and what becomes of it.
LEMMA GuardShapes ==
    /\ Absent \in GuardState
    /\ \A m, f \in BOOLEAN :
          [known |-> TRUE, manual |-> m, fresh |-> f] \in GuardState
    /\ \A g \in GuardState : /\ [g EXCEPT !.fresh = FALSE] \in GuardState
                            /\ g.manual \in BOOLEAN
    /\ \A g \in GuardState, m \in BOOLEAN :
          g.known => [g EXCEPT !.manual = m] \in GuardState
  BY DEF GuardState, Absent

LEMMA GuardsKept ==
    ASSUME SwitchTypeOK
    PROVE  /\ \A u \in Users :
                /\ Touched(u) \in [Users -> GuardState]
                /\ \A flag \in BOOLEAN :
                      [Touched(u) EXCEPT ![u].manual = flag]
                         \in [Users -> GuardState]
           /\ \A g \in [Users -> GuardState] : Stale(g) \in [Users -> GuardState]
  <1>1. guard \in [Users -> GuardState]
    BY DEF SwitchTypeOK
  <1>2. ASSUME NEW u \in Users, NEW flag \in BOOLEAN
        PROVE  /\ Touched(u) \in [Users -> GuardState]
               /\ [Touched(u) EXCEPT ![u].manual = flag]
                         \in [Users -> GuardState]
    <2> DEFINE m == guard[u].manual
               seenToday == [known |-> TRUE, manual |-> m, fresh |-> TRUE]
    <2>1. m \in BOOLEAN
      BY <1>1, GuardShapes
    <2>2. Touched(u) = [guard EXCEPT ![u] = seenToday]
      BY <1>1 DEF Touched
    <2>3. seenToday \in GuardState /\ seenToday.known
      BY <2>1, GuardShapes
    <2> HIDE DEF seenToday
    <2>4. [seenToday EXCEPT !.manual = flag] \in GuardState
      BY <2>3, GuardShapes
    <2>5. Touched(u) \in [Users -> GuardState] /\ Touched(u)[u] = seenToday
      BY <1>1, <2>2, <2>3
    <2> QED
      BY <2>4, <2>5
  <1>3. \A g \in [Users -> GuardState] : Stale(g) \in [Users -> GuardState]
    BY GuardShapes DEF Stale
  <1> QED
    BY <1>2, <1>3

LEMMA SwitchTypesStep ==
    ASSUME SwitchTypeOK, [SwitchNext]_switchVars
    PROVE  SwitchTypeOK'
  <1>1. /\ status \in [Users -> Statuses] /\ statusFile \in [Users -> Statuses]
        /\ guard \in [Users -> GuardState]
        /\ guardFile \in [Users -> GuardState]
        /\ traderUp \in BOOLEAN /\ traderCopy \in [Users -> GuardState]
        /\ command \in [Users -> Commands]
    BY DEF SwitchTypeOK
  <1>2. ASSUME NEW u \in Users, NEW new \in Statuses, SetStatus(u, new)
        PROVE  /\ status' \in [Users -> Statuses]
               /\ statusFile' \in [Users -> Statuses]
    BY <1>1, <1>2 DEF SetStatus, SaveStatus
  <1>3. ASSUME NEW u \in Users, SoftStopStatus(u)
        PROVE  /\ status' \in [Users -> Statuses]
               /\ statusFile' \in [Users -> Statuses]
    BY <1>1, <1>2, <1>3 DEF SoftStopStatus, Statuses
  <1>4. ASSUME NEW u \in Users,
               GetUserState(u) \/ \E flag \in BOOLEAN : SetManual(u, flag)
        PROVE  /\ guard' \in [Users -> GuardState]
               /\ guardFile' \in [Users -> GuardState]
    <2>1. /\ \/ guard' = Touched(u)
             \/ \E flag \in BOOLEAN :
                    guard' = [Touched(u) EXCEPT ![u].manual = flag]
          /\ guardFile' = Touched(u) \/ guardFile' = guardFile
      BY <1>4 DEF GetUserState, SetManual, SaveGuards
    <2> QED
      BY <1>1, <2>1, GuardsKept
  <1>5. ASSUME NEW u \in Users, Endpoint(u) PROVE SwitchTypeOK'
    <2>1. command' \in [Users -> Commands]
      BY <1>1, <1>5 DEF Endpoint, SoftStop, HardStop, Resume,
         ActivateManualKill, DeactivateManualKill, Obey, Commands
    <2>2. UNCHANGED traderVars
      BY <1>5 DEF Endpoint, SoftStop, HardStop, Resume, ActivateManualKill,
                  DeactivateManualKill
    <2>3. SoftStopStatus(u) \/ \E new \in Statuses : SetStatus(u, new)
      BY <1>5 DEF Endpoint, SoftStop, HardStop, Resume, ActivateManualKill,
                  DeactivateManualKill, Statuses
    <2>4. \/ UNCHANGED <<guard, guardFile>>
          \/ \E flag \in BOOLEAN : SetManual(u, flag)
      BY <1>5 DEF Endpoint, SoftStop, HardStop, Resume, ActivateManualKill,
                  DeactivateManualKill, FlagCleared
    <2>5. /\ status' \in [Users -> Statuses]
          /\ statusFile' \in [Users -> Statuses]
      BY <1>2, <1>3, <2>3
    <2>6. /\ guard' \in [Users -> GuardState]
          /\ guardFile' \in [Users -> GuardState]
      BY <1>1, <1>4, <2>4
    <2> QED
      BY <1>1, <2>1, <2>2, <2>5, <2>6 DEF SwitchTypeOK, traderVars
  <1>6. ASSUME NEW u \in Users, CheckUser(u) PROVE SwitchTypeOK'
    BY <1>1, <1>4, <1>6 DEF CheckUser, traderVars, SwitchTypeOK
  <1>7. CASE Midnight
    <2>1. \A g \in [Users -> GuardState] : Stale(g) \in [Users -> GuardState]
      BY GuardsKept
    <2> QED
      BY <1>1, <1>7, <2>1 DEF Midnight, SwitchTypeOK
  <1>8. CASE RestartServer
    BY <1>1, <1>8 DEF RestartServer, traderVars, SwitchTypeOK
  <1>9. CASE OtherProcess
    <2>1. NoGuards \in [Users -> GuardState]
      BY GuardShapes DEF NoGuards
    <2> QED
      BY <1>1, <1>9, <2>1 DEF OtherProcess, TraderStarts, SaveGuards,
         TraderUpdatesDrawdown, TraderStops, traderVars, SwitchTypeOK
  <1>10. CASE UNCHANGED switchVars
    BY <1>1, <1>10 DEF switchVars, traderVars, SwitchTypeOK
  <1> QED
    BY <1>5, <1>6, <1>7, <1>8, <1>9, <1>10 DEF SwitchNext

LEMMA SwitchTypesInvariant == SwitchSpec => []SwitchTypeOK
  <1>1. ASSUME SwitchInit PROVE SwitchTypeOK
    <2>1. NoGuards \in [Users -> GuardState]
      BY GuardShapes DEF NoGuards
    <2> QED
      BY <1>1, <2>1 DEF SwitchInit, SwitchTypeOK, Statuses, Commands
  <1> QED
    BY <1>1, SwitchTypesStep, PTL DEF SwitchSpec

\* Every variable of the order service and of the switch inside it keeps its
\* type: a row has only the statuses of order_state.py, and the sum a request
\* reads is a natural number.
THEOREM OrderTypes == Spec => []OrderTypeOK
  <1>1. SwitchTypeOK /\ RowsInv /\ LimitsInv => OrderTypeOK
    BY DEF OrderTypeOK, RowsInv, RowsTyped, LimitsInv, ReadTyped
  <1> QED
    BY <1>1, OrdersObeyTheSwitch, SwitchTypesInvariant, RowsInvariant,
       LimitsInvariant, PTL
=============================================================================
