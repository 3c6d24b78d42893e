--------------------------- MODULE ProcessManager ---------------------------
(***************************************************************************)
(* trading/process_manager.py: the API server starts the trading process   *)
(* once, a monitor task waits for its end and starts it again before the   *)
(* next market day, and stop() ends it through the kill file, SIGTERM and  *)
(* SIGKILL.  The tasks share _status, _process, _continuous and            *)
(* _stop_requested and interleave at every await.                          *)
(*                                                                         *)
(* A pid names a process together with the tasks about it: the launch that *)
(* will create it, its monitor, and a stop() that waits for its end.       *)
(***************************************************************************)
EXTENDS FiniteSets, Naturals

CONSTANTS
    Pids,   \* process ids (bound: at most so many at a time)
    NoPid   \* None

ProcessStatus == {"idle", "starting", "running", "stopping", "crashed",
                  "waiting_next"}

ASSUME PidAssumption == /\ NoPid \notin Pids \cup {"none", "request"}
                        /\ Pids \cap {"none", "request"} = {}

VARIABLES
    status,       \* _status
    process,      \* _process
    monitorTask,  \* _monitor_task: the process whose monitor it is
    continuous,   \* _continuous
    stopReq,      \* _stop_requested
    proc,         \* the processes of the operating system
    mon,          \* the monitor of each process
    launch,       \* who is launching the process
    stopper,      \* how far the stop() that waits for the process is
    killFile,     \* data/.kill_switch
    closing,      \* the server waits for cleanup()
    tangled       \* history: a stop or a shutdown came while the manager was
                  \* starting, waiting for the next day or stopping, or the
                  \* file of the pid or of a stop could not be written

fields == <<status, process, monitorTask, continuous, stopReq>>
tasks  == <<mon, launch, stopper>>
vars   == <<fields, tasks, proc, killFile, closing, tangled>>

ProcessTypeOK ==
    /\ status \in ProcessStatus
    /\ process \in Pids \cup {NoPid} /\ monitorTask \in Pids \cup {NoPid}
    /\ continuous \in BOOLEAN /\ stopReq \in BOOLEAN
    /\ proc \in [Pids -> {"none", "alive", "ok", "bad"}]
    /\ mon \in [Pids -> {"none", "waiting", "sleeping", "launching"}]
    /\ launch \in [Pids -> {"none", "request"} \cup Pids]
    /\ stopper \in [Pids -> {"none", "grace", "term"}]
    /\ killFile \in BOOLEAN /\ closing \in BOOLEAN /\ tangled \in BOOLEAN
    /\ \A p \in Pids :
         mon[p] = "launching" <=> \E q \in Pids : launch[q] = p

NoTasks == [p \in Pids |-> "none"]

Init ==
    /\ status = "idle" /\ process = NoPid /\ monitorTask = NoPid
    /\ continuous = FALSE /\ stopReq = FALSE
    /\ proc = [p \in Pids |-> "none"]
    /\ mon = NoTasks /\ launch = NoTasks /\ stopper = NoTasks
    /\ killFile = FALSE /\ closing = FALSE /\ tangled = FALSE

Alive(p)  == proc[p] = "alive"
Exited(p) == proc[p] \in {"ok", "bad"}
Traders   == {p \in Pids : Alive(p)}
Launched  == {p \in Pids : launch[p] # "none"}

\* A pid the operating system may give to the next process.
Free(p) == /\ ~Alive(p) /\ p \notin {process, monitorTask}
           /\ mon[p] = "none" /\ launch[p] = "none" /\ stopper[p] = "none"

-----------------------------------------------------------------------------
(* Starting                                                                *)

\* start() refuses while a process is there or will be started.
MayStartUnlessRunning == status \notin {"starting", "running", "stopping"}
MayStart == status \notin {"starting", "running", "stopping",
                           "waiting_next"}

\* _launch_process begins with its status, before the screening.
Starting        == status' = "starting"

Start(p) ==
    /\ ~closing /\ MayStart /\ Free(p)
    /\ Starting /\ continuous' = TRUE /\ stopReq' = FALSE
    /\ launch' = [launch EXCEPT ![p] = "request"]
    /\ UNCHANGED <<process, monitorTask, mon, stopper, proc, killFile,
                   closing, tangled>>

\* The monitor that has launched the next process has nothing left to do.
LauncherForgotten(p) == mon
LauncherDone(p) == [q \in Pids |-> IF q = launch[p] THEN "none" ELSE mon[q]]

\* The process exists: the rest of _launch_process.
Launch(p) ==
    /\ launch[p] # "none"
    /\ launch' = [launch EXCEPT ![p] = "none"]
    /\ proc' = [proc EXCEPT ![p] = "alive"]
    /\ process' = p /\ status' = "running" /\ monitorTask' = p
    /\ mon' = [LauncherDone(p) EXCEPT ![p] = "waiting"]
    /\ UNCHANGED <<continuous, stopReq, stopper, killFile, closing, tangled>>

\* Screening, database or fork failed.  A monitor's exception is never read.
LaunchFails(p) ==
    /\ launch[p] # "none"
    /\ launch' = [launch EXCEPT ![p] = "none"]
    /\ status' = "idle"
    /\ mon' = LauncherDone(p)
    /\ UNCHANGED <<process, monitorTask, continuous, stopReq, stopper, proc,
                   killFile, closing, tangled>>

\* The process exists, but the file of its pid cannot be written: the same
\* exception handler reports "idle", and no monitor watches the process.
LaunchUnrecorded(p) ==
    /\ launch[p] # "none"
    /\ launch' = [launch EXCEPT ![p] = "none"]
    /\ proc' = [proc EXCEPT ![p] = "alive"]
    /\ process' = p /\ status' = "idle"
    /\ mon' = LauncherDone(p)
    /\ tangled' = TRUE
    /\ UNCHANGED <<monitorTask, continuous, stopReq, stopper, killFile, closing>>

-----------------------------------------------------------------------------
(* The monitor                                                             *)

\* The trading process (external here) ends: at 15:35, or by a failure.
ProcessExits(p) ==
    /\ Alive(p)
    /\ \E result \in {"ok", "bad"} : proc' = [proc EXCEPT ![p] = result]
    /\ UNCHANGED <<fields, tasks, killFile, closing, tangled>>

\* What a finished process leaves: the monitor's own next state, the status,
\* and whether the continuous mode goes on.
AfterExit(result) ==
    IF stopReq             THEN <<"none", "idle", continuous>>
    ELSE IF result = "bad" THEN <<"none", "crashed", FALSE>>
    ELSE IF continuous     THEN <<"sleeping", "waiting_next", continuous>>
                           ELSE <<"none", status, continuous>>

\* A stop() that waits for the same process is woken by the same exit and
\* runs first: the monitor still collects the process's output.
MonitorSeesExit(p) ==
    /\ mon[p] = "waiting" /\ Exited(p) /\ stopper[p] = "none"
    /\ process' = NoPid
    /\ LET after == AfterExit(proc[p]) IN
       /\ mon' = [mon EXCEPT ![p] = after[1]]
       /\ status' = after[2] /\ continuous' = after[3]
    /\ UNCHANGED <<monitorTask, stopReq, launch, stopper, proc, killFile,
                   closing, tangled>>

\* _wait_and_restart looks at the request once a minute and at the end.
MonitorGivesUp(p) ==
    /\ mon[p] = "sleeping" /\ stopReq
    /\ mon' = [mon EXCEPT ![p] = "none"]
    /\ status' = "idle"
    /\ UNCHANGED <<process, monitorTask, continuous, stopReq, launch, stopper,
                   proc, killFile, closing, tangled>>

MayRestartIfIdle(p) == mon[p] = "sleeping" /\ ~stopReq /\ status = "idle"
MayRestart(p)       == mon[p] = "sleeping" /\ ~stopReq

MonitorRestarts(p, q) ==
    /\ MayRestart(p) /\ Free(q)
    /\ Starting
    /\ mon' = [mon EXCEPT ![p] = "launching"]
    /\ launch' = [launch EXCEPT ![q] = p]
    /\ UNCHANGED <<process, monitorTask, continuous, stopReq, stopper, proc,
                   killFile, closing, tangled>>

-----------------------------------------------------------------------------
(* Stopping                                                                *)

\* _monitor_task.cancel(): a monitor that is launching takes its launch
\* with it.
CancelMonitor ==
    /\ mon' = [p \in Pids |-> IF p = monitorTask THEN "none" ELSE mon[p]]
    /\ launch' = [p \in Pids |-> IF launch[p] = monitorTask THEN "none"
                                                            ELSE launch[p]]

StopsAtOnce == process = NoPid \/ status \in {"idle", "waiting_next",
                                              "stopping"}

\* stop() that returns without waiting.  The branch for "waiting_next" asks
\* for a process, and none is left in that status: its monitor sleeps on.
StopAtOnce ==
    /\ StopsAtOnce
    /\ stopReq' = TRUE /\ continuous' = FALSE
    /\ CASE process = NoPid \/ status = "idle" ->
                status' = "idle" /\ UNCHANGED tasks
         [] process # NoPid /\ status = "waiting_next" ->
                status' = "idle" /\ CancelMonitor /\ UNCHANGED stopper
         [] OTHER -> UNCHANGED <<status, tasks>>
    /\ UNCHANGED <<process, monitorTask, proc, killFile>>

\* stop() up to its first await.
StopBegins ==
    /\ ~StopsAtOnce
    /\ stopReq' = TRUE /\ continuous' = FALSE
    /\ status' = "stopping" /\ killFile' = TRUE
    /\ stopper' = [stopper EXCEPT ![process] = "grace"]
    /\ UNCHANGED <<process, monitorTask, mon, launch, proc>>

InBetween == status \in {"starting", "waiting_next"}

Stop ==
    /\ ~closing /\ status # "idle"
    /\ StopAtOnce \/ StopBegins
    /\ tangled' = (tangled \/ InBetween)
    /\ UNCHANGED closing

\* The finally block.
RemoveKillFile == killFile' = FALSE
StopEnds(p) ==
    /\ RemoveKillFile
    /\ status' = "idle" /\ process' = NoPid
    /\ stopper' = [stopper EXCEPT ![p] = "none"]
    /\ CancelMonitor
    /\ UNCHANGED <<monitorTask, continuous, stopReq, closing, tangled>>

\* The kill file cannot be written: a stop by a user or by cleanup() comes to
\* its finally block at once and leaves the process as it is.
StopFails ==
    /\ ~closing /\ ~StopsAtOnce
    /\ stopReq' = TRUE /\ continuous' = FALSE
    /\ RemoveKillFile
    /\ status' = "idle" /\ process' = NoPid
    /\ CancelMonitor
    /\ tangled' = TRUE /\ closing' \in BOOLEAN
    /\ UNCHANGED <<monitorTask, stopper, proc>>

StopSeesExit(p) ==
    /\ stopper[p] # "none" /\ Exited(p)
    /\ StopEnds(p)
    /\ UNCHANGED proc

\* _process may by now be another process than the one that was waited for,
\* or None.  Without a living one stop() ends (with an AttributeError or
\* without), else it signals that process and waits for its end.
WaitForProcess(p) ==
    /\ stopper' = [[stopper EXCEPT ![p] = "none"] EXCEPT ![process] = "term"]
    /\ UNCHANGED <<fields, mon, launch, killFile, closing, tangled>>

\* Ten seconds are over: SIGTERM.
GraceOver(p) ==
    /\ stopper[p] = "grace" /\ Alive(p)
    /\ IF process \in Traders THEN WaitForProcess(p) ELSE StopEnds(p)
    /\ UNCHANGED proc

\* Another twenty: SIGKILL, and wait for the end.
TermAgain == UNCHANGED proc
Kill      == proc' = [proc EXCEPT ![process] = "bad"]

TermOver(p) ==
    /\ stopper[p] = "term" /\ Alive(p)
    /\ IF process \in Traders THEN WaitForProcess(p) /\ Kill
                             ELSE StopEnds(p) /\ UNCHANGED proc

-----------------------------------------------------------------------------
(* Shutting the server down                                                *)

\* cleanup() calls stop() unless the status is idle.
CleanupBegins ==
    /\ ~closing /\ status # "idle"
    /\ StopBegins
    /\ closing' = TRUE
    /\ UNCHANGED tangled

\* The server is gone and starts anew; processes and files stay.
ServerGone ==
    /\ \/ closing /\ stopper = NoTasks
       \/ ~closing /\ StopsAtOnce
    /\ tangled' = (tangled \/ (status = "stopping" /\ ~closing))
    /\ status' = "idle" /\ process' = NoPid /\ monitorTask' = NoPid
    /\ continuous' = FALSE /\ stopReq' = FALSE
    /\ mon' = NoTasks /\ launch' = NoTasks /\ stopper' = NoTasks
    /\ closing' = FALSE
    /\ UNCHANGED <<proc, killFile>>

-----------------------------------------------------------------------------

StopStep(p) == StopSeesExit(p) \/ GraceOver(p) \/ TermOver(p)
MonitorStep(p) == \/ MonitorSeesExit(p) \/ MonitorGivesUp(p)
                  \/ \E q \in Pids : MonitorRestarts(p, q)
LaunchStep(p) == Launch(p) \/ LaunchFails(p) \/ LaunchUnrecorded(p)

Next ==
    \/ \E p \in Pids : \/ Start(p) \/ LaunchStep(p) \/ ProcessExits(p)
                       \/ MonitorStep(p) \/ StopStep(p)
    \/ Stop \/ StopFails \/ CleanupBegins \/ ServerGone

Spec == Init /\ [][Next]_vars

\* The event loop runs every task whose timer or exit has come.  Nothing is
\* assumed of users, of the shutdown, or of the trading process.
FairSpec == /\ Spec
            /\ \A p \in Pids : /\ WF_vars(StopStep(p))
                               /\ WF_vars(MonitorStep(p))
                               /\ WF_vars(LaunchStep(p))

-----------------------------------------------------------------------------
(* Properties                                                              *)

\* As long as stops and shutdowns come at a settled moment, and the files of
\* the manager can be written, one process at most
\* trades, those that are still being launched counted in: two would trade the
\* same account with two books.
AtMostOneTrader == tangled \/ Cardinality(Traders \cup Launched) <= 1

\* A stop ends with no trading process, whatever the process does, unless
\* the user starts it again.
StopsForGood == stopReq /\ ~tangled ~> Traders = {} \/ ~stopReq \/ tangled

\* Whatever has become of the shared fields, no stop() hangs: the dashboard
\* gets its start button back.
EveryStopEnds == status = "stopping" ~> status # "stopping"

\* Continuous mode: a day that ended well leads to the next launch, unless
\* someone stops it.
NextDayFollows ==
    status = "waiting_next" /\ ~tangled
        ~> Launched # {} \/ stopReq \/ status = "idle" \/ tangled
=============================================================================
