------------------------ MODULE ProcessManagerProofs ------------------------
(***************************************************************************)
(* Theorems about ProcessManager, for any set of process ids.              *)
(*                                                                         *)
(* The manager's status alone says little: whether a process runs, who is  *)
(* launching and which monitor sleeps is in the tasks.  As long as no stop *)
(* or shutdown came in between (~tangled) every status stands for one      *)
(* configuration of them, Settled, and this is what each step hands on.    *)
(***************************************************************************)
EXTENDS ProcessManager, FiniteSetTheorems, TLAPS

\* At most the tasks of p are there.
OnlyMonitor(p, steps) == mon[p] \in steps /\ \A q \in Pids \ {p} : mon[q] = "none"
NoMonitor   == \A q \in Pids : mon[q] = "none"
NoLaunch    == \A q \in Pids : launch[q] = "none"
NoStopper   == \A q \in Pids : stopper[q] = "none"
NoTrader    == \A q \in Pids : ~Alive(q)
OnlyTrader(p) == \A q \in Pids \ {p} : ~Alive(q)

WhenAtRest   == process = NoPid /\ NoTrader /\ NoLaunch /\ NoMonitor /\ NoStopper
WhenStarting ==
    /\ process = NoPid /\ NoTrader /\ NoStopper /\ ~stopReq /\ continuous
    /\ \E p \in Pids :
          /\ \A q \in Pids \ {p} : launch[q] = "none"
          /\ \/ launch[p] = "request" /\ NoMonitor
             \/ launch[p] \in Pids /\ OnlyMonitor(launch[p], {"launching"})
WhenRunning ==
    /\ process \in Pids /\ monitorTask = process /\ OnlyTrader(process)
    /\ OnlyMonitor(process, {"waiting"}) /\ NoLaunch /\ NoStopper
    /\ ~stopReq /\ continuous
WhenStopping ==
    /\ process \in Pids /\ monitorTask = process /\ OnlyTrader(process)
    /\ OnlyMonitor(process, {"waiting"}) /\ NoLaunch
    /\ stopper[process] \in {"grace", "term"}
    /\ \A q \in Pids \ {process} : stopper[q] = "none"
WhenWaiting ==
    /\ process = NoPid /\ NoTrader /\ NoLaunch /\ NoStopper
    /\ ~stopReq /\ continuous
    /\ \E p \in Pids : OnlyMonitor(p, {"sleeping"})

Settled ==
    /\ status \in {"idle", "crashed"} => WhenAtRest
    /\ status = "starting"     => WhenStarting
    /\ status = "running"      => WhenRunning
    /\ status = "stopping"     => WhenStopping
    /\ status = "waiting_next" => WhenWaiting
    /\ closing => status \in {"stopping", "idle"}

\* What the tasks have in common in every state, tangled or not.
TasksAgree ==
    /\ \A p \in Pids : launch[p] # "none" => mon[p] = "none"
    /\ \A p, q \in Pids : launch[p] \in Pids /\ launch[p] = launch[q] => p = q

ManagerInv == ProcessTypeOK /\ TasksAgree /\ (tangled \/ Settled)

-----------------------------------------------------------------------------
(* Types and tasks, in every state                                         *)

TypeInv == ProcessTypeOK /\ TasksAgree

LEMMA StartTyped == ASSUME TypeInv, NEW p \in Pids, Start(p) PROVE TypeInv'
<1> USE PidAssumption DEF PidAssumption, TypeInv
<1>1. /\ launch[p] = "none" /\ mon[p] = "none" /\ status' = "starting"
      /\ launch' = [launch EXCEPT ![p] = "request"]
      /\ continuous' = TRUE /\ stopReq' = FALSE
      /\ UNCHANGED <<process, monitorTask, mon, stopper, proc, killFile, closing, tangled>>
  BY DEF Start, Starting, Free
<1>2. \A q \in Pids : mon'[q] = "launching" <=> \E r \in Pids : launch'[r] = q
  <2>1. \A r \in Pids : launch'[r] = IF r = p THEN "request" ELSE launch[r]
    BY <1>1 DEF ProcessTypeOK
  <2>2. \A q \in Pids : (\E r \in Pids : launch'[r] = q) <=> \E r \in Pids : launch[r] = q
    BY <1>1, <2>1
  <2> QED
    BY <1>1, <2>2 DEF ProcessTypeOK
<1>3. ProcessTypeOK'
  BY <1>1, <1>2 DEF ProcessTypeOK, ProcessStatus
<1>4. TasksAgree'
  BY <1>1 DEF TasksAgree, ProcessTypeOK
<1> QED
  BY <1>3, <1>4

LEMMA LaunchTyped ==
    ASSUME TypeInv, NEW p \in Pids, LaunchStep(p) PROVE TypeInv'
<1> USE PidAssumption DEF PidAssumption, TypeInv, LaunchStep
<1>1. /\ launch[p] # "none" /\ launch' = [launch EXCEPT ![p] = "none"]
      /\ launch[p] \in {"request"} \cup Pids
  BY DEF Launch, LaunchFails, LaunchUnrecorded, ProcessTypeOK
<1>2. \A q \in Pids : LauncherDone(p)[q] = IF q = launch[p] THEN "none" ELSE mon[q]
  BY DEF LauncherDone
<1>3. \A q \in Pids \ {p} : mon'[q] = IF q = launch[p] THEN "none" ELSE mon[q]
  BY <1>2 DEF Launch, LaunchFails, LaunchUnrecorded, LauncherDone
<1>4. mon[p] = "none" /\ mon'[p] \in {"none", "waiting"}
  <2>1. mon[p] = "none" /\ LauncherDone(p)[p] = "none" /\ DOMAIN LauncherDone(p) = Pids
    BY <1>1, <1>2 DEF TasksAgree, LauncherDone
  <2>2. CASE Launch(p)
    <3>1. mon' = [LauncherDone(p) EXCEPT ![p] = "waiting"]
      BY <2>2 DEF Launch
    <3> QED
      BY <2>1, <3>1
  <2>3. CASE LaunchFails(p) \/ LaunchUnrecorded(p)
    BY <2>1, <2>3 DEF LaunchFails, LaunchUnrecorded
  <2> QED
    BY <2>1, <2>2, <2>3
<1>5. mon' \in [Pids -> {"none", "waiting", "sleeping", "launching"}]
  <2>1. LauncherDone(p) \in [Pids -> {"none", "waiting", "sleeping", "launching"}]
    BY DEF LauncherDone, ProcessTypeOK
  <2>2. (mon' = LauncherDone(p)) \/ (mon' = [LauncherDone(p) EXCEPT ![p] = "waiting"])
    BY DEF Launch, LaunchFails, LaunchUnrecorded
  <2> QED
    BY <2>1, <2>2
<1>6. \A q \in Pids : mon'[q] = "launching" <=> \E r \in Pids : launch'[r] = q
  <2> SUFFICES ASSUME NEW q \in Pids
               PROVE  mon'[q] = "launching" <=> \E r \in Pids : launch'[r] = q
    OBVIOUS
  <2>1. CASE q = launch[p]
    <3>1. mon'[q] # "launching"
      BY <1>3, <1>4, <2>1
    <3>2. \A r \in Pids : launch'[r] # q
      BY <1>1, <2>1 DEF ProcessTypeOK, TasksAgree
    <3> QED
      BY <3>1, <3>2
  <2>2. CASE q # launch[p]
    <3>1. mon'[q] = "launching" <=> mon[q] = "launching"
      BY <1>3, <1>4, <2>2
    <3>2. (\E r \in Pids : launch'[r] = q) <=> (\E r \in Pids : launch[r] = q)
      BY <1>1, <2>2 DEF ProcessTypeOK
    <3> QED
      BY <3>1, <3>2 DEF ProcessTypeOK
  <2> QED
    BY <2>1, <2>2
<1>7. launch' \in [Pids -> {"none", "request"} \cup Pids]
  BY <1>1 DEF ProcessTypeOK
<1>8. ASSUME Launch(p) \/ LaunchUnrecorded(p) PROVE ProcessTypeOK'
  <2>1. /\ status' \in {"running", "idle"} /\ process' = p
        /\ monitorTask' \in {p, monitorTask} /\ proc' = [proc EXCEPT ![p] = "alive"]
        /\ tangled' \in {tangled, TRUE}
        /\ UNCHANGED <<continuous, stopReq, stopper, killFile, closing>>
    BY <1>8 DEF Launch, LaunchUnrecorded
  <2>2. proc' \in [Pids -> {"none", "alive", "ok", "bad"}]
    BY <2>1 DEF ProcessTypeOK
  <2>3. /\ status' \in ProcessStatus /\ process' \in Pids \cup {NoPid}
        /\ monitorTask' \in Pids \cup {NoPid}
        /\ continuous' \in BOOLEAN /\ stopReq' \in BOOLEAN
        /\ stopper' \in [Pids -> {"none", "grace", "term"}]
        /\ killFile' \in BOOLEAN /\ closing' \in BOOLEAN /\ tangled' \in BOOLEAN
    BY <2>1 DEF ProcessTypeOK, ProcessStatus
  <2> QED
    BY <1>5, <1>6, <1>7, <2>2, <2>3 DEF ProcessTypeOK
<1>9. ASSUME LaunchFails(p) PROVE ProcessTypeOK'
  BY <1>5, <1>6, <1>7, <1>9 DEF LaunchFails, ProcessTypeOK, ProcessStatus
<1>10. TasksAgree'
  BY <1>1, <1>3, <1>4 DEF ProcessTypeOK, TasksAgree
<1> QED
  BY <1>8, <1>9, <1>10

\* A monitor that steps without launching anything.
LEMMA MonitorTyped ==
    ASSUME TypeInv, NEW p \in Pids, MonitorSeesExit(p) \/ MonitorGivesUp(p)
    PROVE  TypeInv'
<1> USE DEF TypeInv
<1>1. /\ mon[p] \in {"waiting", "sleeping"} /\ launch' = launch
      /\ \E new \in {"none", "sleeping"} : mon' = [mon EXCEPT ![p] = new]
  BY DEF MonitorSeesExit, MonitorGivesUp, AfterExit
<1>2. /\ status' \in ProcessStatus /\ process' \in Pids \cup {NoPid}
      /\ monitorTask' = monitorTask
      /\ continuous' \in BOOLEAN /\ stopReq' = stopReq
      /\ proc' = proc /\ stopper' = stopper /\ killFile' = killFile
      /\ closing' = closing /\ tangled' = tangled
  BY DEF MonitorSeesExit, MonitorGivesUp, AfterExit, ProcessTypeOK, ProcessStatus
<1>3. ProcessTypeOK'
  BY <1>1, <1>2 DEF ProcessTypeOK
<1>4. TasksAgree'
  BY <1>1 DEF TasksAgree, ProcessTypeOK
<1> QED
  BY <1>3, <1>4

LEMMA RestartTyped ==
    ASSUME TypeInv, NEW p \in Pids, NEW q \in Pids, MonitorRestarts(p, q)
    PROVE  TypeInv'
<1> USE PidAssumption DEF TypeInv, PidAssumption
<1>1. /\ mon[p] = "sleeping" /\ mon[q] = "none" /\ launch[q] = "none" /\ p # q
      /\ mon' = [mon EXCEPT ![p] = "launching"]
      /\ launch' = [launch EXCEPT ![q] = p] /\ status' = "starting"
      /\ UNCHANGED <<process, monitorTask, continuous, stopReq, stopper, proc,
                     killFile, closing, tangled>>
  BY DEF MonitorRestarts, MayRestart, Free, Starting
<1>2. \A r \in Pids : launch[r] # p
  BY <1>1 DEF ProcessTypeOK
<1>3. ProcessTypeOK'
  BY <1>1, <1>2 DEF ProcessTypeOK, ProcessStatus
<1>4. TasksAgree'
  BY <1>1, <1>2 DEF TasksAgree, ProcessTypeOK
<1> QED
  BY <1>3, <1>4

\* Cancelling the monitor, or leaving the tasks as they are.
LEMMA CancelTyped ==
    ASSUME TypeInv, CancelMonitor \/ UNCHANGED <<mon, launch>>
    PROVE  /\ mon' \in [Pids -> {"none", "waiting", "sleeping", "launching"}]
           /\ launch' \in [Pids -> {"none", "request"} \cup Pids]
           /\ \A p \in Pids : mon'[p] = "launching" <=> \E q \in Pids : launch'[q] = p
           /\ TasksAgree'
<1> USE PidAssumption DEF TypeInv, PidAssumption
<1>1. CASE UNCHANGED <<mon, launch>>
  BY <1>1 DEF ProcessTypeOK, TasksAgree
<1>2. CASE CancelMonitor
  <2>1. \A p \in Pids : mon'[p] = IF p = monitorTask THEN "none" ELSE mon[p]
    BY <1>2 DEF CancelMonitor
  <2>2. \A p \in Pids : launch'[p] = IF launch[p] = monitorTask THEN "none" ELSE launch[p]
    BY <1>2 DEF CancelMonitor
  <2>3. mon' \in [Pids -> {"none", "waiting", "sleeping", "launching"}]
    BY <1>2 DEF CancelMonitor, ProcessTypeOK
  <2>4. launch' \in [Pids -> {"none", "request"} \cup Pids]
    BY <1>2 DEF CancelMonitor, ProcessTypeOK
  <2>5. \A p \in Pids : mon'[p] = "launching" <=> \E q \in Pids : launch'[q] = p
    BY <2>1, <2>2 DEF ProcessTypeOK
  <2>6. TasksAgree'
    BY <2>1, <2>2 DEF TasksAgree, ProcessTypeOK
  <2> QED
    BY <2>3, <2>4, <2>5, <2>6
<1> QED
  BY <1>1, <1>2

LEMMA StopTyped ==
    ASSUME TypeInv, Stop \/ StopFails \/ CleanupBegins PROVE TypeInv'
<1> USE DEF TypeInv
<1>1. /\ CancelMonitor \/ UNCHANGED <<mon, launch>>
      /\ status' \in ProcessStatus /\ stopper' \in [Pids -> {"none", "grace", "term"}]
      /\ continuous' \in BOOLEAN /\ stopReq' \in BOOLEAN /\ killFile' \in BOOLEAN
      /\ process' \in {process, NoPid} /\ monitorTask' = monitorTask /\ proc' = proc
  BY DEF Stop, StopFails, RemoveKillFile, CleanupBegins, StopAtOnce, StopBegins, tasks,
     ProcessTypeOK, ProcessStatus
<1>2. closing' \in BOOLEAN /\ tangled' \in BOOLEAN
  BY DEF Stop, StopFails, CleanupBegins, InBetween, ProcessTypeOK
<1>3. /\ mon' \in [Pids -> {"none", "waiting", "sleeping", "launching"}]
      /\ launch' \in [Pids -> {"none", "request"} \cup Pids]
      /\ \A p \in Pids : mon'[p] = "launching" <=> \E q \in Pids : launch'[q] = p
      /\ TasksAgree'
  BY <1>1, CancelTyped
<1> QED
  BY <1>1, <1>2, <1>3 DEF ProcessTypeOK

\* The end of a stop, or the signal that it sends.
LEMMA StopStepTyped == ASSUME TypeInv, NEW p \in Pids, StopStep(p) PROVE TypeInv'
<1> USE DEF TypeInv
<1>1. ASSUME StopEnds(p), proc' = proc PROVE TypeInv'
  <2>1. /\ CancelMonitor /\ status' = "idle" /\ process' = NoPid /\ killFile' = FALSE
        /\ stopper' = [stopper EXCEPT ![p] = "none"]
        /\ UNCHANGED <<monitorTask, continuous, stopReq, closing, tangled>>
    BY <1>1 DEF StopEnds, RemoveKillFile
  <2>2. /\ mon' \in [Pids -> {"none", "waiting", "sleeping", "launching"}]
        /\ launch' \in [Pids -> {"none", "request"} \cup Pids]
        /\ \A q \in Pids : mon'[q] = "launching" <=> \E r \in Pids : launch'[r] = q
        /\ TasksAgree'
    BY <2>1, CancelTyped
  <2> QED
    BY <1>1, <2>1, <2>2 DEF ProcessTypeOK, ProcessStatus
<1>2. ASSUME WaitForProcess(p), process \in Traders, (proc' = proc) \/ Kill
      PROVE  TypeInv'
  <2>1. /\ UNCHANGED <<status, process, monitorTask, continuous, stopReq, mon, launch,
                       killFile, closing, tangled>>
        /\ stopper' = [[stopper EXCEPT ![p] = "none"] EXCEPT ![process] = "term"]
    BY <1>2 DEF WaitForProcess, fields
  <2>2. proc' \in [Pids -> {"none", "alive", "ok", "bad"}]
    BY <1>2 DEF Kill, ProcessTypeOK
  <2> QED
    BY <2>1, <2>2 DEF ProcessTypeOK, TasksAgree
<1>3. CASE StopSeesExit(p)
  BY <1>1, <1>3 DEF StopSeesExit
<1>4. CASE GraceOver(p)
  BY <1>1, <1>2, <1>4 DEF GraceOver
<1>5. CASE TermOver(p)
  BY <1>1, <1>2, <1>5 DEF TermOver
<1> QED
  BY <1>3, <1>4, <1>5 DEF StopStep

LEMMA OthersTyped ==
    ASSUME TypeInv,
           (\E p \in Pids : ProcessExits(p)) \/ ServerGone \/ UNCHANGED vars
    PROVE  TypeInv'
<1> USE DEF TypeInv
<1>1. ASSUME NEW p \in Pids, ProcessExits(p) PROVE TypeInv'
  BY <1>1 DEF ProcessExits, fields, tasks, ProcessTypeOK, TasksAgree
<1>2. CASE ServerGone
  <2>1. /\ status' = "idle" /\ process' = NoPid /\ monitorTask' = NoPid
        /\ continuous' = FALSE /\ stopReq' = FALSE
        /\ mon' = NoTasks /\ launch' = NoTasks /\ stopper' = NoTasks
        /\ closing' = FALSE /\ proc' = proc /\ killFile' = killFile
        /\ tangled' \in BOOLEAN
    BY <1>2 DEF ServerGone, ProcessTypeOK
  <2>2. ProcessTypeOK'
    BY <2>1, PidAssumption DEF ProcessTypeOK, ProcessStatus, NoTasks, PidAssumption
  <2>3. TasksAgree'
    BY <2>1, PidAssumption DEF TasksAgree, NoTasks, PidAssumption
  <2> QED
    BY <2>2, <2>3
<1>3. CASE UNCHANGED vars
  BY <1>3 DEF vars, fields, tasks, ProcessTypeOK, TasksAgree
<1> QED
  BY <1>1, <1>2, <1>3

LEMMA TypeInvInductive == ASSUME TypeInv, [Next]_vars PROVE TypeInv'
<1>1. ASSUME NEW p \in Pids,
             Start(p) \/ LaunchStep(p) \/ ProcessExits(p) \/ MonitorStep(p) \/ StopStep(p)
      PROVE  TypeInv'
  BY <1>1, StartTyped, LaunchTyped, MonitorTyped, RestartTyped, StopStepTyped, OthersTyped
     DEF MonitorStep
<1>2. CASE Stop \/ StopFails \/ CleanupBegins
  BY <1>2, StopTyped
<1>3. CASE ServerGone \/ UNCHANGED vars
  BY <1>3, OthersTyped
<1> QED
  BY <1>1, <1>2, <1>3 DEF Next

-----------------------------------------------------------------------------
(* What each status stands for                                             *)

LEMMA StartSettles ==
    ASSUME TypeInv, Settled, NEW p \in Pids, Start(p)
    PROVE  Settled'
<1>1. /\ ~closing /\ status \in {"idle", "crashed"}
      /\ status' = "starting" /\ continuous' = TRUE /\ stopReq' = FALSE
      /\ launch' = [launch EXCEPT ![p] = "request"]
      /\ UNCHANGED <<process, monitorTask, mon, stopper, proc, closing>>
  BY DEF Start, Starting, MayStart, TypeInv, ProcessTypeOK, ProcessStatus
<1>2. WhenAtRest
  BY <1>1 DEF Settled
<1>3. launch'[p] = "request" /\ \A q \in Pids \ {p} : launch'[q] = "none"
  BY <1>1, <1>2 DEF WhenAtRest, NoLaunch, TypeInv, ProcessTypeOK
<1>4. WhenStarting'
  BY <1>1, <1>2, <1>3 DEF WhenAtRest, WhenStarting, NoTrader, NoStopper, NoMonitor, Alive
<1> QED
  BY <1>1, <1>4 DEF Settled

LEMMA LaunchSettles ==
    ASSUME TypeInv, Settled, NEW p \in Pids, Launch(p) \/ LaunchFails(p)
    PROVE  Settled'
<1> USE PidAssumption DEF PidAssumption
<1>1. launch[p] # "none" /\ launch' = [launch EXCEPT ![p] = "none"]
  BY DEF Launch, LaunchFails
<1>2. status = "starting" /\ WhenStarting
  BY <1>1 DEF Settled, TypeInv, ProcessTypeOK, ProcessStatus, WhenAtRest, WhenRunning,
     WhenStopping, WhenWaiting, NoLaunch
<1>3. /\ \A q \in Pids \ {p} : launch[q] = "none"
      /\ \/ launch[p] = "request" /\ NoMonitor
         \/ launch[p] \in Pids /\ OnlyMonitor(launch[p], {"launching"})
  BY <1>1, <1>2 DEF WhenStarting
<1>4. /\ \A q \in Pids : launch'[q] = "none"
      /\ \A q \in Pids : LauncherDone(p)[q] = "none"
  BY <1>1, <1>3 DEF LauncherDone, NoMonitor, OnlyMonitor, TypeInv, ProcessTypeOK
<1>5. /\ NoTrader /\ NoStopper /\ ~stopReq /\ continuous /\ process = NoPid
      /\ UNCHANGED <<continuous, stopReq, stopper, closing>>
  BY <1>2 DEF WhenStarting, Launch, LaunchFails
<1>6. CASE Launch(p)
  <2>1. /\ proc' = [proc EXCEPT ![p] = "alive"] /\ process' = p /\ monitorTask' = p
        /\ status' = "running" /\ mon' = [LauncherDone(p) EXCEPT ![p] = "waiting"]
    BY <1>6 DEF Launch
  <2>2. mon'[p] = "waiting" /\ \A q \in Pids \ {p} : mon'[q] = "none"
    BY <1>4, <2>1 DEF LauncherDone
  <2>3. \A q \in Pids \ {p} : proc'[q] = proc[q]
    BY <2>1 DEF TypeInv, ProcessTypeOK
  <2>4. WhenRunning'
    BY <1>4, <1>5, <2>1, <2>2, <2>3
       DEF WhenRunning, OnlyMonitor, OnlyTrader, NoLaunch, NoStopper, NoTrader, Alive
  <2>5. ~closing
    BY <1>2 DEF Settled
  <2> QED
    BY <1>5, <2>1, <2>4, <2>5 DEF Settled
<1>7. CASE LaunchFails(p)
  <2>1. status' = "idle" /\ mon' = LauncherDone(p) /\ UNCHANGED <<process, proc>>
    BY <1>7 DEF LaunchFails
  <2>2. WhenAtRest'
    BY <1>4, <1>5, <2>1 DEF WhenAtRest, NoLaunch, NoMonitor, NoStopper, NoTrader, Alive
  <2> QED
    BY <2>1, <2>2 DEF Settled
<1> QED
  BY <1>6, <1>7

LEMMA ExitSettles ==
    ASSUME TypeInv, Settled, NEW p \in Pids, ProcessExits(p)
    PROVE  Settled'
<1>1. UNCHANGED <<status, process, monitorTask, continuous, stopReq, mon, launch,
                  stopper, closing>>
  BY DEF ProcessExits, fields, tasks
<1>2. \A q \in Pids : Alive(q)' => Alive(q)
  BY DEF ProcessExits, Alive, TypeInv, ProcessTypeOK
<1> USE DEF NoTrader, NoLaunch, NoMonitor, NoStopper, OnlyTrader, OnlyMonitor
<1>3. WhenAtRest => WhenAtRest'
  BY <1>1, <1>2 DEF WhenAtRest
<1>4. WhenStarting => WhenStarting'
  BY <1>1, <1>2 DEF WhenStarting
<1>5. WhenRunning => WhenRunning'
  BY <1>1, <1>2 DEF WhenRunning
<1>6. WhenStopping => WhenStopping'
  BY <1>1, <1>2 DEF WhenStopping
<1>7. WhenWaiting => WhenWaiting'
  BY <1>1, <1>2 DEF WhenWaiting
<1> QED
  BY <1>1, <1>3, <1>4, <1>5, <1>6, <1>7 DEF Settled

LEMMA MonitorSettles ==
    ASSUME TypeInv, Settled, NEW p \in Pids, MonitorStep(p)
    PROVE  Settled'
<1> USE PidAssumption DEF PidAssumption
<1>1. CASE MonitorSeesExit(p)
  <2>1. /\ mon[p] = "waiting" /\ Exited(p) /\ stopper[p] = "none" /\ process' = NoPid
        /\ UNCHANGED <<monitorTask, stopReq, launch, stopper, proc, closing>>
        /\ mon' = [mon EXCEPT ![p] = AfterExit(proc[p])[1]]
        /\ status' = AfterExit(proc[p])[2] /\ continuous' = AfterExit(proc[p])[3]
    BY <1>1 DEF MonitorSeesExit
  <2>2. status = "running" /\ WhenRunning
    BY <2>1 DEF Settled, TypeInv, ProcessTypeOK, ProcessStatus, WhenAtRest, WhenStarting,
       WhenStopping, WhenWaiting, NoMonitor, OnlyMonitor
  <2>3. process = p /\ ~stopReq /\ continuous /\ ~closing
    BY <2>1, <2>2 DEF WhenRunning, OnlyMonitor, Settled
  <2>4. NoTrader' /\ NoLaunch' /\ NoStopper'
    BY <2>1, <2>2, <2>3 DEF WhenRunning, NoTrader, NoLaunch, NoStopper, OnlyTrader, Alive,
       Exited
  <2>5. \A q \in Pids \ {p} : mon'[q] = "none"
    BY <2>1, <2>2, <2>3 DEF WhenRunning, OnlyMonitor, TypeInv, ProcessTypeOK
  <2>6. CASE proc[p] = "bad"
    <3>1. AfterExit(proc[p]) = <<"none", "crashed", FALSE>>
      BY <2>3, <2>6 DEF AfterExit
    <3>2. status' = "crashed" /\ mon'[p] = "none"
      BY <2>1, <3>1 DEF TypeInv, ProcessTypeOK
    <3>3. WhenAtRest'
      BY <2>1, <2>4, <2>5, <3>2 DEF WhenAtRest, NoMonitor
    <3> QED
      BY <2>1, <2>3, <3>2, <3>3 DEF Settled
  <2>7. CASE proc[p] # "bad"
    <3>1. AfterExit(proc[p]) = <<"sleeping", "waiting_next", continuous>>
      BY <2>3, <2>7 DEF AfterExit
    <3>2. status' = "waiting_next" /\ mon'[p] = "sleeping" /\ continuous' = continuous
      BY <2>1, <3>1 DEF TypeInv, ProcessTypeOK
    <3>3. WhenWaiting'
      BY <2>1, <2>3, <2>4, <2>5, <3>2 DEF WhenWaiting, OnlyMonitor
    <3> QED
      BY <2>1, <2>3, <3>2, <3>3 DEF Settled
  <2> QED
    BY <2>6, <2>7
<1>2. CASE MonitorGivesUp(p)
  <2>1. mon[p] = "sleeping" /\ stopReq
    BY <1>2 DEF MonitorGivesUp
  <2> QED
    BY <2>1 DEF Settled, TypeInv, ProcessTypeOK, ProcessStatus, WhenAtRest, WhenStarting,
       WhenRunning, WhenStopping, WhenWaiting, NoMonitor, OnlyMonitor
<1>3. ASSUME NEW q \in Pids, MonitorRestarts(p, q) PROVE Settled'
  <2>1. /\ mon[p] = "sleeping" /\ mon[q] = "none" /\ p # q
        /\ status' = "starting" /\ mon' = [mon EXCEPT ![p] = "launching"]
        /\ launch' = [launch EXCEPT ![q] = p]
        /\ UNCHANGED <<process, monitorTask, continuous, stopReq, stopper, proc, closing>>
    BY <1>3 DEF MonitorRestarts, MayRestart, Free, Starting
  <2>2. status = "waiting_next" /\ WhenWaiting
    BY <2>1 DEF Settled, TypeInv, ProcessTypeOK, ProcessStatus, WhenAtRest, WhenStarting,
       WhenRunning, WhenStopping, NoMonitor, OnlyMonitor
  <2>3. OnlyMonitor(p, {"sleeping"})
    BY <2>1, <2>2 DEF WhenWaiting, OnlyMonitor
  <2>4. mon'[p] = "launching" /\ \A r \in Pids \ {p} : mon'[r] = "none"
    BY <2>1, <2>3 DEF OnlyMonitor, TypeInv, ProcessTypeOK
  <2>5. launch'[q] = p /\ \A r \in Pids \ {q} : launch'[r] = "none"
    BY <2>1, <2>2 DEF WhenWaiting, NoLaunch, TypeInv, ProcessTypeOK
  <2>6. WhenStarting'
    BY <2>1, <2>2, <2>4, <2>5 DEF WhenWaiting, WhenStarting, OnlyMonitor, NoTrader,
       NoStopper, Alive
  <2>7. ~closing
    BY <2>2 DEF Settled
  <2> QED
    BY <2>1, <2>6, <2>7 DEF Settled
<1> QED
  BY <1>1, <1>2, <1>3 DEF MonitorStep

LEMMA StopSettles ==
    ASSUME TypeInv, Settled, Stop \/ CleanupBegins, ~tangled'
    PROVE  Settled'
<1>1. CASE StopBegins
  <2>1. /\ process # NoPid /\ status \notin {"idle", "waiting_next", "stopping"}
        /\ status' = "stopping" /\ stopper' = [stopper EXCEPT ![process] = "grace"]
        /\ UNCHANGED <<process, monitorTask, mon, launch, proc>>
    BY <1>1 DEF StopBegins, StopsAtOnce
  <2>2. WhenRunning
    BY <2>1 DEF Settled, TypeInv, ProcessTypeOK, ProcessStatus, WhenAtRest, WhenStarting
  <2>3. /\ stopper'[process] = "grace"
        /\ \A q \in Pids \ {process} : stopper'[q] = "none"
    BY <2>1, <2>2 DEF WhenRunning, NoStopper, TypeInv, ProcessTypeOK
  <2>4. WhenStopping'
    BY <2>1, <2>2, <2>3 DEF WhenRunning, WhenStopping, OnlyMonitor, OnlyTrader, NoLaunch,
       Alive
  <2> QED
    BY <2>1, <2>4 DEF Settled
<1>2. CASE Stop /\ StopAtOnce
  <2>1. ~closing /\ closing' = closing /\ ~InBetween /\ status # "idle"
    BY <1>2 DEF Stop
  <2>2. UNCHANGED <<process, monitorTask, proc>>
    BY <1>2 DEF StopAtOnce
  <2>3. status \in {"crashed", "stopping"}
    <3>1. CASE status = "running"
      <4>1. process # NoPid
        BY <3>1, PidAssumption DEF Settled, WhenRunning, PidAssumption
      <4> QED
        BY <1>2, <3>1, <4>1 DEF StopAtOnce, StopsAtOnce
    <3> QED
      BY <2>1, <3>1 DEF InBetween, TypeInv, ProcessTypeOK, ProcessStatus
  <2>4. CASE status = "crashed"
    <3>1. WhenAtRest
      BY <2>4 DEF Settled
    <3>2. status' = "idle" /\ UNCHANGED <<mon, launch, stopper>>
      BY <1>2, <3>1 DEF StopAtOnce, WhenAtRest, tasks
    <3>3. WhenAtRest'
      BY <2>2, <3>1, <3>2 DEF WhenAtRest, NoTrader, NoLaunch, NoMonitor, NoStopper, Alive
    <3> QED
      BY <3>2, <3>3 DEF Settled
  <2>5. CASE status = "stopping"
    <3>1. WhenStopping /\ process # NoPid
      BY <2>5, PidAssumption DEF Settled, WhenStopping, PidAssumption
    <3>2. status' = "stopping" /\ UNCHANGED <<mon, launch, stopper>>
      BY <1>2, <2>5, <3>1 DEF StopAtOnce, tasks
    <3>3. WhenStopping'
      BY <2>2, <3>1, <3>2 DEF WhenStopping, OnlyMonitor, OnlyTrader, NoLaunch, Alive
    <3> QED
      BY <3>2, <3>3 DEF Settled
  <2> QED
    BY <2>3, <2>4, <2>5
<1> QED
  BY <1>1, <1>2 DEF Stop, CleanupBegins

LEMMA StopStepSettles ==
    ASSUME TypeInv, Settled, NEW p \in Pids, StopStep(p)
    PROVE  Settled'
<1> USE PidAssumption DEF PidAssumption
<1>1. stopper[p] # "none"
  BY DEF StopStep, StopSeesExit, GraceOver, TermOver
<1>2. status = "stopping" /\ WhenStopping /\ process = p
  BY <1>1 DEF Settled, TypeInv, ProcessTypeOK, ProcessStatus, WhenAtRest, WhenStarting,
     WhenRunning, WhenStopping, WhenWaiting, NoStopper
<1>3. CASE StopSeesExit(p)
  <2>1. /\ Exited(p) /\ status' = "idle" /\ process' = NoPid /\ proc' = proc
        /\ stopper' = [stopper EXCEPT ![p] = "none"] /\ CancelMonitor
    BY <1>3 DEF StopSeesExit, StopEnds
  <2>2. NoTrader'
    BY <1>2, <2>1 DEF WhenStopping, OnlyTrader, NoTrader, Exited, Alive
  <2>3. NoLaunch' /\ NoMonitor'
    BY <1>2, <2>1 DEF WhenStopping, CancelMonitor, NoLaunch, NoMonitor, OnlyMonitor
  <2>4. NoStopper'
    BY <1>2, <2>1 DEF WhenStopping, NoStopper, TypeInv, ProcessTypeOK
  <2> QED
    BY <2>1, <2>2, <2>3, <2>4 DEF Settled, WhenAtRest
<1>4. CASE GraceOver(p) \/ TermOver(p)
  <2>1. process \in Traders
    BY <1>2, <1>4 DEF GraceOver, TermOver, Traders
  <2>2. WaitForProcess(p) /\ (proc' = proc \/ Kill)
    BY <1>4, <2>1 DEF GraceOver, TermOver
  <2>3. /\ stopper' = [[stopper EXCEPT ![p] = "none"] EXCEPT ![p] = "term"]
        /\ UNCHANGED <<status, process, monitorTask, continuous, stopReq, mon, launch,
                       closing>>
    BY <1>2, <2>2 DEF WaitForProcess, fields
  <2>4. stopper'[p] = "term" /\ \A q \in Pids \ {p} : stopper'[q] = "none"
    BY <1>2, <2>3 DEF WhenStopping, TypeInv, ProcessTypeOK
  <2>5. \A q \in Pids \ {p} : proc'[q] = proc[q]
    BY <1>2, <2>2 DEF Kill, TypeInv, ProcessTypeOK
  <2>6. WhenStopping'
    BY <1>2, <2>3, <2>4, <2>5, ZenonT(30) DEF WhenStopping, OnlyMonitor, OnlyTrader, NoLaunch, Alive
  <2> QED
    BY <1>2, <2>3, <2>6 DEF Settled
<1> QED
  BY <1>3, <1>4 DEF StopStep

LEMMA ServerGoneSettles ==
    ASSUME TypeInv, Settled, ServerGone, ~tangled'
    PROVE  Settled'
<1> USE PidAssumption DEF PidAssumption
<1>1. /\ status' = "idle" /\ process' = NoPid /\ proc' = proc
      /\ mon' = NoTasks /\ launch' = NoTasks /\ stopper' = NoTasks
      /\ (closing /\ stopper = NoTasks) \/ (~closing /\ StopsAtOnce)
      /\ ~(status = "stopping" /\ ~closing)
  BY DEF ServerGone
<1>2. NoTrader
  <2>1. CASE status = "stopping"
    <3>1. stopper = NoTasks /\ WhenStopping
      BY <1>1, <2>1 DEF Settled
    <3> QED
      BY <3>1 DEF WhenStopping, NoTasks
  <2>2. CASE status = "running"
    <3>1. WhenRunning /\ ~closing
      BY <2>2 DEF Settled
    <3> QED
      BY <1>1, <2>2, <3>1 DEF WhenRunning, StopsAtOnce
  <2>3. CASE status \in {"idle", "crashed", "starting", "waiting_next"}
    BY <2>3 DEF Settled, WhenAtRest, WhenStarting, WhenWaiting
  <2> QED
    BY <2>1, <2>2, <2>3 DEF TypeInv, ProcessTypeOK, ProcessStatus
<1>3. WhenAtRest'
  BY <1>1, <1>2 DEF WhenAtRest, NoTrader, NoLaunch, NoMonitor, NoStopper, NoTasks, Alive
<1> QED
  BY <1>1, <1>3 DEF Settled

-----------------------------------------------------------------------------
(* The theorems                                                            *)

LEMMA ManagerInvInductive == ASSUME ManagerInv, [Next]_vars PROVE ManagerInv'
<1>1. TypeInv /\ TypeInv'
  BY TypeInvInductive DEF ManagerInv, TypeInv
<1>2. tangled => tangled'
  BY DEF Next, vars, Start, LaunchStep, Launch, LaunchFails, LaunchUnrecorded,
     ProcessExits, MonitorStep, MonitorSeesExit, MonitorGivesUp, MonitorRestarts,
     StopStep, StopSeesExit, GraceOver, TermOver, StopEnds, WaitForProcess, Stop,
     StopFails, CleanupBegins, ServerGone
<1> SUFFICES ASSUME ~tangled' PROVE Settled'
  BY <1>1 DEF ManagerInv, TypeInv
<1>3. ~StopFails /\ \A p \in Pids : ~LaunchUnrecorded(p)
  BY DEF StopFails, LaunchUnrecorded
<1>4. Settled
  BY <1>2 DEF ManagerInv
<1>5. ASSUME NEW p \in Pids,
             Start(p) \/ LaunchStep(p) \/ ProcessExits(p) \/ MonitorStep(p) \/ StopStep(p)
      PROVE  Settled'
  BY <1>1, <1>3, <1>4, <1>5, StartSettles, LaunchSettles, ExitSettles, MonitorSettles,
     StopStepSettles DEF LaunchStep
<1>6. CASE Stop \/ CleanupBegins
  BY <1>1, <1>4, <1>6, StopSettles
<1>7. CASE ServerGone
  BY <1>1, <1>4, <1>7, ServerGoneSettles
<1>8. CASE UNCHANGED vars
  BY <1>4, <1>8 DEF vars, fields, tasks, Settled, WhenAtRest, WhenStarting, WhenRunning,
     WhenStopping, WhenWaiting, NoTrader, NoLaunch, NoMonitor, NoStopper, OnlyTrader,
     OnlyMonitor, Alive
<1> QED
  BY <1>3, <1>5, <1>6, <1>7, <1>8 DEF Next

LEMMA ManagerInvHolds == Spec => []ManagerInv
<1>1. Init => ManagerInv
  <2> SUFFICES ASSUME Init PROVE ManagerInv
    OBVIOUS
  <2>1. ProcessTypeOK /\ TasksAgree
    BY PidAssumption DEF Init, ProcessTypeOK, ProcessStatus, TasksAgree, NoTasks,
       PidAssumption
  <2>2. Settled
    BY DEF Init, Settled, WhenAtRest, NoTrader, NoLaunch, NoMonitor, NoStopper, NoTasks,
       Alive
  <2> QED
    BY <2>1, <2>2 DEF ManagerInv
<1>2. ManagerInv /\ [Next]_vars => ManagerInv'
  BY ManagerInvInductive
<1> QED
  BY <1>1, <1>2, PTL DEF Spec

\* The fields and tasks keep their types, and a monitor is launching exactly
\* when a launch is its own, even in tangled states.
THEOREM ManagerTyped == Spec => []ProcessTypeOK
<1>1. ManagerInv => ProcessTypeOK
  BY DEF ManagerInv
<1> QED
  BY <1>1, ManagerInvHolds, PTL

\* As long as no stop or shutdown comes while the manager is in between, one
\* trading process at most lives or is being launched.
THEOREM OneTrader == Spec => []AtMostOneTrader
<1>1. ManagerInv => AtMostOneTrader
  <2> SUFFICES ASSUME ManagerInv, ~tangled
               PROVE  Cardinality(Traders \cup Launched) <= 1
    BY DEF AtMostOneTrader
  <2>1. Settled /\ status \in ProcessStatus
    BY DEF ManagerInv, ProcessTypeOK
  <2>2. (Traders \cup Launched = {}) \/ \E p \in Pids : Traders \cup Launched \subseteq {p}
    <3> USE DEF Traders, Launched
    <3>1. CASE WhenAtRest \/ WhenWaiting
      BY <3>1 DEF WhenAtRest, WhenWaiting, NoTrader, NoLaunch
    <3>2. CASE WhenStarting
      BY <3>2 DEF WhenStarting, NoTrader
    <3>3. CASE WhenRunning \/ WhenStopping
      BY <3>3 DEF WhenRunning, WhenStopping, OnlyTrader, NoLaunch
    <3> QED
      BY <2>1, <3>1, <3>2, <3>3 DEF Settled, ProcessStatus
  <2>3. (Traders \cup Launched = {}) \/ \E p \in Pids : Traders \cup Launched = {p}
    BY <2>2
  <2>4. CASE Traders \cup Launched = {}
    <3>1. Cardinality(Traders \cup Launched) = 0
      BY <2>4, FS_EmptySet
    <3> QED
      BY <3>1
  <2>5. ASSUME NEW p \in Pids, Traders \cup Launched = {p}
        PROVE  Cardinality(Traders \cup Launched) <= 1
    <3>1. Cardinality({p}) = 1
      BY FS_Singleton
    <3> QED
      BY <2>5, <3>1
  <2> QED
    BY <2>3, <2>4, <2>5
<1> QED
  BY <1>1, ManagerInvHolds, PTL

\* What the status says as long as nothing is tangled: nobody trades or is about to
\* in "idle", "crashed" and "waiting_next"; a launch is under way in "starting";
\* the next day's launch has a monitor to begin it; and whoever trades is the
\* process the manager would stop.
StatusTells ==
    tangled \/
      /\ status \in {"idle", "crashed", "waiting_next"} => Traders \cup Launched = {}
      /\ status = "starting" => Traders = {} /\ Launched # {}
      /\ status = "waiting_next" => \E p \in Pids : mon[p] = "sleeping"
      /\ status \in {"running", "stopping"} => Traders \subseteq {process}

\* The dashboard's status, and start() and stop() which decide by it, do not
\* mistake an account that is traded for one at rest.  It is the safety part
\* of StopsForGood (a stop that is through has left no trader) and of
\* NextDayFollows (somebody is there to begin the next day).
THEOREM StatusTellsTheTruth == Spec => []StatusTells
<1>1. ManagerInv => StatusTells
  <2> SUFFICES ASSUME ManagerInv, ~tangled PROVE StatusTells
    BY DEF StatusTells
  <2> USE DEF Traders, Launched
  <2>1. Settled
    BY DEF ManagerInv
  <2>2. CASE status \in {"idle", "crashed"}
    BY <2>1, <2>2 DEF Settled, WhenAtRest, NoTrader, NoLaunch, StatusTells
  <2>3. CASE status = "waiting_next"
    <3>1. NoTrader /\ NoLaunch /\ \E p \in Pids : mon[p] = "sleeping"
      BY <2>1, <2>3 DEF Settled, WhenWaiting, OnlyMonitor
    <3> QED
      BY <2>3, <3>1 DEF NoTrader, NoLaunch, StatusTells
  <2>4. CASE status = "starting"
    <3>1. NoTrader /\ \E p \in Pids : launch[p] \in {"request"} \cup Pids
      BY <2>1, <2>4 DEF Settled, WhenStarting
    <3>2. \E p \in Pids : launch[p] # "none"
      BY <3>1, PidAssumption DEF PidAssumption
    <3> QED
      BY <2>4, <3>1, <3>2 DEF NoTrader, StatusTells
  <2>5. CASE status \in {"running", "stopping"}
    <3>1. OnlyTrader(process)
      BY <2>1, <2>5 DEF Settled, WhenRunning, WhenStopping
    <3> QED
      BY <2>5, <3>1 DEF OnlyTrader, StatusTells
  <2> QED
    BY <2>2, <2>3, <2>4, <2>5 DEF ManagerInv, ProcessTypeOK, ProcessStatus
<1> QED
  BY <1>1, ManagerInvHolds, PTL

-----------------------------------------------------------------------------
(* Stops, tangled or not                                                   *)

StopInv ==
    /\ \A p \in Pids : p = process \/ stopper[p] # "none" => proc[p] # "none"
    /\ status = "stopping" => \E p \in Pids : stopper[p] # "none"

LEMMA StopInvStep == ASSUME TypeInv, TypeInv', StopInv, [Next]_vars PROVE StopInv'
<1> USE PidAssumption DEF PidAssumption, StopInv
<1>1. ASSUME NEW p \in Pids, Start(p) PROVE StopInv'
  BY <1>1 DEF Start, Starting
<1>2. ASSUME NEW p \in Pids, LaunchStep(p) PROVE StopInv'
  BY <1>2 DEF LaunchStep, Launch, LaunchFails, LaunchUnrecorded, TypeInv, ProcessTypeOK
<1>3. ASSUME NEW p \in Pids, ProcessExits(p) PROVE StopInv'
  BY <1>3 DEF ProcessExits, fields, tasks, Alive, TypeInv, ProcessTypeOK
<1>4. ASSUME NEW p \in Pids, MonitorStep(p) PROVE StopInv'
  <2>1. CASE MonitorSeesExit(p)
    <3>1. /\ UNCHANGED <<stopper, proc>> /\ process' = NoPid
          /\ status' = "stopping" => status = "stopping"
      BY <2>1 DEF MonitorSeesExit, AfterExit
    <3> QED
      BY <3>1
  <2>2. CASE MonitorGivesUp(p) \/ \E q \in Pids : MonitorRestarts(p, q)
    BY <2>2 DEF MonitorGivesUp, MonitorRestarts, Starting
  <2> QED
    BY <1>4, <2>1, <2>2 DEF MonitorStep
<1>5. ASSUME NEW p \in Pids, StopStep(p) PROVE StopInv'
  <2>1. CASE StopEnds(p) /\ proc' = proc
    BY <2>1 DEF StopEnds, TypeInv, ProcessTypeOK
  <2>2. CASE WaitForProcess(p) /\ process \in Traders /\ (proc' = proc \/ Kill)
    <3>1. /\ process \in Pids /\ proc[process] = "alive" /\ process' = process
          /\ \A q \in Pids : proc'[q] # "none" <=> proc[q] # "none"
      BY <2>2 DEF WaitForProcess, fields, Traders, Alive, Kill, TypeInv, ProcessTypeOK
    <3>2. /\ stopper'[process] = "term"
          /\ \A q \in Pids \ {process} : stopper'[q] # "none" => stopper[q] # "none"
      BY <2>2, <3>1 DEF WaitForProcess, TypeInv, ProcessTypeOK
    <3> QED
      BY <3>1, <3>2
  <2> QED
    BY <1>5, <2>1, <2>2 DEF StopStep, StopSeesExit, GraceOver, TermOver
<1>6. CASE StopBegins
  <2>1. /\ process \in Pids /\ stopper'[process] = "grace"
        /\ \A q \in Pids \ {process} : stopper'[q] = stopper[q]
        /\ UNCHANGED <<process, proc>>
    BY <1>6 DEF StopBegins, StopsAtOnce, TypeInv, ProcessTypeOK
  <2> QED
    BY <2>1
<1>7. CASE StopAtOnce
  BY <1>7 DEF StopAtOnce, tasks
<1>8. CASE ServerGone
  BY <1>8 DEF ServerGone, NoTasks
<1>9. CASE StopFails
  BY <1>9 DEF StopFails, RemoveKillFile
<1>10. CASE UNCHANGED vars
  BY <1>10 DEF vars, fields, tasks
<1> QED
  BY <1>1, <1>2, <1>3, <1>4, <1>5, <1>6, <1>7, <1>8, <1>9, <1>10
   DEF Next, Stop, CleanupBegins

\* A stop under way waits for a process, alive (its timer runs) or gone (its
\* exit has come): stop() has a next step.
StopGoesOn ==
    status = "stopping" =>
        \E p \in Pids : stopper[p] # "none" /\ (Alive(p) \/ Exited(p))

\* The safety part of EveryStopEnds: however launches, monitors and stops were
\* tangled, "stopping" is never shown when no stop() is left to change it.
THEOREM StopsGoOn == Spec => []StopGoesOn
<1> USE PidAssumption DEF PidAssumption
<1>1. Init => StopInv
  BY DEF Init, StopInv, NoTasks
<1>2. TypeInv /\ TypeInv' /\ StopInv /\ [Next]_vars => StopInv'
  BY StopInvStep
<1>3. TypeInv /\ StopInv => StopGoesOn
  BY DEF TypeInv, ProcessTypeOK, StopInv, StopGoesOn, Alive, Exited
<1>4. ManagerInv => TypeInv
  BY DEF ManagerInv, TypeInv
<1> QED
  BY <1>1, <1>2, <1>3, <1>4, ManagerInvHolds, PTL DEF Spec

\* The kill file is there only while a stop waits for the trading process.
KillFileIsAStop == killFile => tangled \/ status = "stopping"

\* As long as nothing is tangled, a stop or a shutdown takes its kill file along: the next
\* day's trading process does not find one that was meant for another.
THEOREM NoStaleKillFile == Spec => []KillFileIsAStop
<1>1. Init => KillFileIsAStop
  BY DEF Init, KillFileIsAStop
<1>2. ASSUME ManagerInv, ManagerInv', KillFileIsAStop, [Next]_vars PROVE KillFileIsAStop'
  <2> SUFFICES ASSUME ~tangled', killFile' PROVE status' = "stopping"
    BY DEF KillFileIsAStop
  <2>1. ~tangled
    BY <1>2
    DEF Next, vars, Start, LaunchStep, Launch, LaunchFails, LaunchUnrecorded, ProcessExits,
        MonitorStep,
        MonitorSeesExit, MonitorGivesUp, MonitorRestarts, StopStep, StopSeesExit, GraceOver,
        TermOver, StopEnds, WaitForProcess, Stop, StopFails,
        CleanupBegins, ServerGone
  <2>2. Settled
    BY <1>2, <2>1 DEF ManagerInv
  <2>3. CASE StopBegins
    BY <2>3 DEF StopBegins
  <2>4. CASE ~StopBegins
    <3>1. killFile
      BY <1>2, <2>4
      DEF Next, vars, Start, LaunchStep, Launch, LaunchFails, LaunchUnrecorded, ProcessExits,
        MonitorStep,
          MonitorSeesExit, MonitorGivesUp, MonitorRestarts, StopStep, StopSeesExit,
          GraceOver, TermOver, StopEnds, RemoveKillFile, WaitForProcess, Stop, StopAtOnce,
          StopFails, CleanupBegins, ServerGone
    <3>2. status = "stopping" /\ WhenStopping
      BY <1>2, <2>1, <2>2, <3>1 DEF KillFileIsAStop, Settled
    <3>3. process # NoPid
      BY <3>2, PidAssumption DEF WhenStopping, PidAssumption
    <3>4. CASE \E p \in Pids : Start(p) \/ LaunchStep(p) \/ ProcessExits(p)
      BY <3>2, <3>4
      DEF Start, MayStart, LaunchStep, Launch, LaunchFails, LaunchUnrecorded,
          WhenStopping, NoLaunch, ProcessExits, fields
    <3>5. ASSUME NEW p \in Pids, MonitorStep(p) PROVE status' = "stopping"
      BY <3>2, <3>5
      DEF MonitorStep, MonitorSeesExit, MonitorGivesUp, MonitorRestarts, MayRestart,
          WhenStopping, OnlyMonitor
    <3>6. ASSUME NEW p \in Pids, StopStep(p) PROVE status' = "stopping"
      BY <3>2, <3>6
      DEF StopStep, StopSeesExit, GraceOver, TermOver, StopEnds, RemoveKillFile,
          WaitForProcess, fields
    <3>7. CASE Stop \/ CleanupBegins
      BY <2>4, <3>2, <3>3, <3>7 DEF Stop, StopAtOnce, CleanupBegins
    <3>8. ~ServerGone
      BY <2>2, <3>2 DEF ServerGone, WhenStopping, NoTasks
    <3>9. ~StopFails
      BY <1>2 DEF StopFails, RemoveKillFile
    <3>10. CASE UNCHANGED vars
      BY <3>2, <3>10 DEF vars, fields
    <3> QED
      BY <1>2, <3>4, <3>5, <3>6, <3>7, <3>8, <3>9, <3>10 DEF Next
  <2> QED
    BY <2>3, <2>4
<1>3. ManagerInv /\ ManagerInv' /\ KillFileIsAStop /\ [Next]_vars => KillFileIsAStop'
  BY <1>2
<1> QED
  BY <1>1, <1>3, ManagerInvHolds, PTL DEF Spec
=============================================================================
