-------------------------- MODULE KiwoomWebSocket --------------------------
(***************************************************************************)
(* broker/realtime.py: the WebSocket client of the trading process and of  *)
(* the execution bridge.  One task connects, logs in, replays the          *)
(* subscriptions it knows of and reads messages, and starts over when the  *)
(* connection is lost; other tasks subscribe and unsubscribe through the   *)
(* same socket at every await of that task.                                *)
(*                                                                         *)
(* An entry of the subscription log is a key (symbols, type and group).    *)
(* Its list may hold a key twice, which sends it twice; it is a set here.  *)
(* Ticks, the field _login_ok, which nothing reads, and the lengths of the *)
(* waits are left out.                                                     *)
(***************************************************************************)
EXTENDS Naturals, Sequences

CONSTANTS
    Keys,        \* what may be subscribed to
    MaxRetries,  \* WS_RECONNECT_MAX_RETRIES
    MaxUnread    \* bound on answers the client has not read

LoopSteps == {"none", "connecting", "token", "login", "replaying", "open",
              "waiting", "done"}

ASSUME RetriesAssumption == MaxRetries \in Nat /\ MaxUnread \in Nat

VARIABLES
    loop,      \* where _run_task is; "none" before connect and after close
    ws,        \* _ws: None, an open or a dead connection
    attempt,   \* _reconnect_attempt
    log,       \* _subscriptions_log
    snapshot,  \* what _replay_subscriptions has left to send
    inbox,     \* answers the client has not read before its login is through
    loggedIn,  \* the server accepted the login of this connection
    server,    \* the keys the server has registered on this connection
    denied,    \* keys whose last call on this connection it refused, logged in
    wanted,    \* history: subscribed and not unsubscribed since
    torn       \* history: keys whose last call or replay met a replay

serverVars == <<inbox, loggedIn, server, denied>>
history    == <<wanted, torn>>
vars == <<loop, ws, attempt, log, snapshot, serverVars, history>>

Answers == {"login_ok", "login_refused", "call_ok", "call_refused"}

SocketTypeOK ==
    /\ loop \in LoopSteps /\ ws \in {"none", "open", "dead"}
    /\ attempt \in 0..(MaxRetries + 1)
    /\ log \subseteq Keys /\ snapshot \subseteq Keys
    /\ inbox \in Seq(Answers) /\ loggedIn \in BOOLEAN
    /\ server \subseteq Keys /\ denied \subseteq Keys
    /\ wanted \subseteq Keys /\ torn \subseteq Keys

Init ==
    /\ loop = "none" /\ ws = "none" /\ attempt = 0
    /\ log = {} /\ snapshot = {}
    /\ inbox = <<>> /\ loggedIn = FALSE /\ server = {} /\ denied = {}
    /\ wanted = {} /\ torn = {}

Cut      == loggedIn' = FALSE /\ server' = {} /\ denied' = {}
NoServer == inbox' = <<>> /\ Cut

-----------------------------------------------------------------------------
(* Connecting                                                              *)

Connect ==
    /\ loop \in {"none", "done"}
    /\ loop' = "connecting" /\ attempt' = 0
    /\ UNCHANGED <<ws, log, snapshot, serverVars, history>>

\* From here on is_connected is true and other tasks can send.
Established ==
    /\ loop = "connecting"
    /\ loop' = "token" /\ ws' = "open" /\ attempt' = 0
    /\ NoServer
    /\ UNCHANGED <<log, snapshot, history>>

GivesUpOneLate == attempt > MaxRetries
GivesUp        == attempt + 1 > MaxRetries

\* The end of an iteration that did not break: wait, or end the loop.
RetryUncounted(handle) ==
    /\ loop' = "waiting" /\ ws' = handle /\ snapshot' = {}
    /\ NoServer
    /\ UNCHANGED <<attempt, log, history>>
Retry(handle) ==
    /\ attempt' = attempt + 1
    /\ loop' = IF GivesUp THEN "done" ELSE "waiting"
    /\ ws' = IF GivesUp THEN "none" ELSE handle
    /\ snapshot' = {}
    /\ NoServer
    /\ UNCHANGED <<log, history>>

ConnectFails == loop = "connecting" /\ Retry("none")
WaitOver == /\ loop = "waiting" /\ loop' = "connecting"
            /\ UNCHANGED <<ws, attempt, log, snapshot, serverVars, history>>

-----------------------------------------------------------------------------
(* Logging in                                                              *)

\* get_token may raise, and the connection may be gone when it returns.
TokenFails == loop = "token" /\ Retry("none")

\* The server (external) accepts, refuses or does not answer.
SendLogin ==
    /\ loop = "token" /\ ws = "open"
    /\ loop' = "login"
    /\ \/ inbox' = Append(inbox, "login_ok") /\ loggedIn' = TRUE
       \/ inbox' = Append(inbox, "login_refused") /\ UNCHANGED loggedIn
       \/ UNCHANGED <<inbox, loggedIn>>
    /\ UNCHANGED <<ws, attempt, log, snapshot, server, denied, history>>

\* A break: the connection is closed and the loop is over.
LoginFailed ==
    /\ loop' = "done" /\ ws' = "none"
    /\ NoServer
    /\ UNCHANGED <<attempt, log, snapshot, history>>

StraightToMessages == "open"
AfterLogin == IF log = {} THEN "open" ELSE "replaying"

\* The first message is taken for the answer to the login.  recv hands out
\* what has arrived also when the connection has been lost since.
ReadAnswer ==
    /\ loop = "login" /\ inbox # <<>>
    /\ IF Head(inbox) = "login_ok"
       THEN /\ loop' = AfterLogin
            /\ snapshot' = log
            /\ log' = IF AfterLogin = "replaying" THEN {} ELSE log
            /\ inbox' = <<>>
            /\ UNCHANGED <<ws, attempt, loggedIn, server, denied, history>>
       ELSE LoginFailed

LoginTimesOut == loop = "login" /\ ws = "open" /\ inbox = <<>> /\ LoginFailed

-----------------------------------------------------------------------------
(* Subscriptions                                                           *)

\* The server (external) refuses a call before the login, and may refuse one
\* after it (return_code other than 0).  While the login waits, the answer is
\* queued with the login's; the message loop only logs it.
ServerTakes(k, registered) ==
    /\ \/ loggedIn /\ server' = registered /\ denied' = denied \ {k}
       \/ loggedIn /\ UNCHANGED server /\ denied' = denied \cup {k}
       \/ ~loggedIn /\ UNCHANGED <<server, denied>>
    /\ inbox' = IF loop \in {"token", "login"}
                THEN Append(inbox, IF loggedIn /\ k \notin denied'
                                   THEN "call_ok" ELSE "call_refused")
                ELSE inbox
    /\ UNCHANGED loggedIn

Callable == ws = "open" /\ Len(inbox) < MaxUnread

\* subscribe; on a dead connection it raises and leaves all as it was.
Subscribe(k) ==
    /\ Callable
    /\ ServerTakes(k, server \cup {k})
    /\ log' = log \cup {k}
    /\ wanted' = wanted \cup {k} /\ torn' = torn \ {k}
    /\ UNCHANGED <<loop, ws, attempt, snapshot>>

LogKept(k)    == log
LogWithout(k) == log \ {k}

Unsubscribe(k) ==
    /\ Callable
    /\ ServerTakes(k, server \ {k})
    /\ log' = LogWithout(k)
    /\ wanted' = wanted \ {k}
    /\ torn' = IF k \in snapshot THEN torn \cup {k} ELSE torn \ {k}
    /\ UNCHANGED <<loop, ws, attempt, snapshot>>

\* One round of _replay_subscriptions; its failure is logged and forgotten.
ReplayOne(k) ==
    /\ loop = "replaying" /\ k \in snapshot
    /\ snapshot' = snapshot \ {k}
    /\ IF ws = "open"
       THEN /\ ServerTakes(k, server \cup {k})
            /\ log' = log \cup {k}
            /\ UNCHANGED torn
       ELSE /\ torn' = torn \cup ({k} \ log)
            /\ UNCHANGED <<serverVars, log>>
    /\ UNCHANGED <<loop, ws, attempt, wanted>>

ReplayDone ==
    /\ loop = "replaying" /\ snapshot = {}
    /\ loop' = "open"
    /\ UNCHANGED <<ws, attempt, log, snapshot, serverVars, history>>

-----------------------------------------------------------------------------
(* Losing and closing                                                      *)

ConnectionLost ==
    /\ ws = "open" /\ ws' = "dead"
    /\ Cut
    /\ UNCHANGED <<loop, attempt, log, snapshot, inbox, history>>

\* recv raises; the message loop may also end without an exception, and then
\* _ws keeps the dead connection.
LoopSeesLoss ==
    /\ ws = "dead"
    /\ \/ loop \in {"token", "open"} /\ Retry("none")
       \/ loop = "login" /\ inbox = <<>> /\ Retry("none")
       \/ loop = "open" /\ Retry("dead")

Close ==
    /\ loop # "none"
    /\ loop' = "none" /\ ws' = "none" /\ log' = {} /\ snapshot' = {}
    /\ NoServer
    /\ wanted' = {} /\ torn' = {}
    /\ UNCHANGED attempt

-----------------------------------------------------------------------------

LoopStep ==
    \/ Established \/ ConnectFails \/ WaitOver \/ TokenFails \/ SendLogin
    \/ ReadAnswer \/ LoginTimesOut \/ ReplayDone \/ LoopSeesLoss
    \/ \E k \in Keys : ReplayOne(k)

Next == \/ LoopStep \/ Connect \/ ConnectionLost \/ Close
        \/ \E k \in Keys : Subscribe(k) \/ Unsubscribe(k)

Spec == Init /\ [][Next]_vars

\* The event loop runs the client's task on.
FairSpec == Spec /\ WF_vars(LoopStep)

-----------------------------------------------------------------------------
(* Properties                                                              *)

Receiving == loop = "open" /\ ws = "open"

\* What the client believes to be subscribed to is registered at the server,
\* whether it was sent before the login was through, after it or replayed, but
\* for keys this server has refused (_handle_message only logs that).
LogIsServed == Receiving => log \ denied \subseteq server

\* Over any number of reconnections the server sends exactly what the program
\* still wants (_replay_subscriptions: "restores the subscriptions"), except
\* for keys whose replay failed or that were unsubscribed while their replay
\* was pending, and for keys whose last call this server has refused.  A
\* refusal is not for ever: the next connection replays the key.
ServerKnowsWanted ==
    Receiving => \A k \in Keys \ (torn \cup denied) : k \in server <=> k \in wanted

\* _run_loop never tries for ever: each series of attempts gets a connection
\* or ends the loop.
ComesThroughOrEnds == loop = "connecting" ~> loop \in {"token", "done", "none"}
=============================================================================
