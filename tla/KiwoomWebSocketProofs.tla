----------------------- MODULE KiwoomWebSocketProofs -----------------------
(***************************************************************************)
(* Theorems about KiwoomWebSocket, for any keys, retries and bounds.       *)
(*                                                                         *)
(* While messages arrive the subscription log, the server's registrations  *)
(* and what the program wants are the same set, torn keys apart.  On the   *)
(* way there they are not: before the login the log is ahead of the        *)
(* server, during a replay the log starts from nothing and what it lost is *)
(* in the snapshot; and the server may refuse a key, whose registration    *)
(* then stays as it was.  SocketInv says what holds all the way.           *)
(***************************************************************************)
EXTENDS KiwoomWebSocket, TLAPS

Connected == {"token", "login", "replaying", "open"}

Shape ==
    /\ ws = "open" => loop \in Connected
    /\ loop \notin {"none", "done"} => attempt <= MaxRetries
    /\ loop # "replaying" => snapshot = {}

\* Only the server's own acceptance is read as one.  When the connection is
\* lost, an acceptance may still be unread.
Acceptance == ws = "open" => \A i \in 1..Len(inbox) : inbox[i] = "login_ok" => loggedIn

\* The server registers and refuses nothing before the login, and it registers
\* nothing the client has not in its log or still to replay, unless it refused
\* to drop it; after the login it registers all of the log it has not refused.
Registered ==
    /\ ws # "open" \/ ~loggedIn => server = {} /\ denied = {}
    /\ server \subseteq log \cup snapshot \cup denied
    /\ ws = "open" /\ loop \in {"replaying", "open"} =>
          loggedIn /\ log \subseteq server \cup denied

\* Between the log and the snapshot no wanted key is lost.
NothingLost == \A k \in Keys \ torn : k \in wanted <=> k \in log \cup snapshot

SocketInv == SocketTypeOK /\ Shape /\ Acceptance /\ Registered /\ NothingLost

-----------------------------------------------------------------------------
(* The steps                                                               *)

LEMMA NoAnswers == <<>> \in Seq(Answers)
OBVIOUS

\* The end of an iteration outside of a replay.
LEMMA RetryKeeps ==
    ASSUME SocketInv, loop \in LoopSteps \ {"none", "done", "replaying"},
           NEW handle \in {"none", "dead"}, Retry(handle)
    PROVE  SocketInv'
<1> USE RetriesAssumption DEF SocketInv, RetriesAssumption
<1>1. /\ attempt' = attempt + 1 /\ snapshot' = {} /\ log' = log
      /\ wanted' = wanted /\ torn' = torn
      /\ inbox' = <<>> /\ loggedIn' = FALSE /\ server' = {} /\ denied' = {}
      /\ loop' \in {"done", "waiting"} /\ ws' \in {"none", "dead"}
      /\ loop' = "waiting" => attempt + 1 <= MaxRetries
  BY DEF Retry, NoServer, Cut, history, GivesUp, SocketTypeOK
<1>2. attempt \in Nat /\ attempt <= MaxRetries /\ snapshot = {}
  BY DEF Shape, SocketTypeOK
<1>3. SocketTypeOK'
  <2>1. attempt' \in 0..(MaxRetries + 1)
    BY <1>1, <1>2 DEF SocketTypeOK
  <2>2. inbox' \in Seq(Answers)
    BY <1>1, NoAnswers
  <2> QED
    BY <1>1, <2>1, <2>2 DEF SocketTypeOK, LoopSteps
<1>4. Shape'
  BY <1>1, <1>2 DEF Shape
<1>5. Acceptance' /\ Registered'
  BY <1>1 DEF Acceptance, Registered
<1>6. NothingLost'
  BY <1>1, <1>2 DEF NothingLost
<1> QED
  BY <1>3, <1>4, <1>5, <1>6

LEMMA LoginFailedKeeps ==
    ASSUME SocketInv, loop = "login", LoginFailed
    PROVE  SocketInv'
<1> USE RetriesAssumption DEF SocketInv, RetriesAssumption
<1>1. /\ loop' = "done" /\ ws' = "none" /\ snapshot' = snapshot /\ log' = log
      /\ inbox' = <<>> /\ loggedIn' = FALSE /\ server' = {} /\ denied' = {}
      /\ attempt' = attempt
      /\ wanted' = wanted /\ torn' = torn
  BY DEF LoginFailed, NoServer, Cut, history
<1>2. SocketTypeOK'
  BY <1>1, NoAnswers DEF SocketTypeOK, LoopSteps
<1>3. Shape' /\ Acceptance' /\ Registered' /\ NothingLost'
  BY <1>1 DEF Shape, Acceptance, Registered, NothingLost
<1> QED
  BY <1>2, <1>3

\* What a call or a round of the replay does to the server and the inbox.
LEMMA ServerTakesFact ==
    ASSUME SocketInv, NEW k \in Keys, NEW keys \in SUBSET Keys, ws = "open",
           ServerTakes(k, keys)
    PROVE  /\ loggedIn' = loggedIn
           /\ \/ loggedIn /\ server' = keys /\ denied' = denied \ {k}
              \/ loggedIn /\ server' = server /\ denied' = denied \cup {k}
              \/ ~loggedIn /\ server' = {} /\ denied' = {}
           /\ inbox' \in Seq(Answers)
           /\ \A i \in 1..Len(inbox') : inbox'[i] = "login_ok" => loggedIn
<1> USE DEF SocketInv, SocketTypeOK, Acceptance
<1>1. /\ loggedIn' = loggedIn
      /\ \/ loggedIn /\ server' = keys /\ denied' = denied \ {k}
         \/ loggedIn /\ server' = server /\ denied' = denied \cup {k}
         \/ ~loggedIn /\ server' = {} /\ denied' = {}
  BY DEF ServerTakes, Registered
<1>2. inbox' = inbox \/ \E a \in Answers \ {"login_ok"} : inbox' = Append(inbox, a)
  BY DEF ServerTakes, Answers
<1>3. inbox' \in Seq(Answers)
  BY <1>2
<1>4. \A i \in 1..Len(inbox') : inbox'[i] = "login_ok" => loggedIn
  BY <1>2
<1> QED
  BY <1>1, <1>3, <1>4

LEMMA SubscribeKeeps ==
    ASSUME SocketInv, NEW k \in Keys, Subscribe(k)
    PROVE  SocketInv'
<1> USE DEF SocketInv
<1>1. /\ ServerTakes(k, server \cup {k})
      /\ ws = "open" /\ log' = log \cup {k} /\ wanted' = wanted \cup {k}
      /\ torn' = torn \ {k}
      /\ loop' = loop /\ ws' = ws /\ attempt' = attempt /\ snapshot' = snapshot
  BY DEF Subscribe, Callable
<1>2. /\ loggedIn' = loggedIn
      /\ \/ loggedIn /\ server' = server \cup {k} /\ denied' = denied \ {k}
         \/ loggedIn /\ server' = server /\ denied' = denied \cup {k}
         \/ ~loggedIn /\ server' = {} /\ denied' = {}
      /\ inbox' \in Seq(Answers)
      /\ \A i \in 1..Len(inbox') : inbox'[i] = "login_ok" => loggedIn
  BY <1>1, ServerTakesFact DEF SocketTypeOK
<1>3. SocketTypeOK'
  BY <1>1, <1>2 DEF SocketTypeOK
<1>4. Shape' /\ Acceptance'
  BY <1>1, <1>2 DEF Shape, Acceptance
<1>5. Registered'
  BY <1>1, <1>2 DEF Registered
<1>6. NothingLost'
  BY <1>1 DEF NothingLost
<1> QED
  BY <1>3, <1>4, <1>5, <1>6

LEMMA UnsubscribeKeeps ==
    ASSUME SocketInv, NEW k \in Keys, Unsubscribe(k)
    PROVE  SocketInv'
<1> USE DEF SocketInv
<1>1. /\ ServerTakes(k, server \ {k})
      /\ ws = "open" /\ log' = log \ {k} /\ wanted' = wanted \ {k}
      /\ torn' = IF k \in snapshot THEN torn \cup {k} ELSE torn \ {k}
      /\ loop' = loop /\ ws' = ws /\ attempt' = attempt /\ snapshot' = snapshot
  BY DEF Unsubscribe, Callable, LogWithout
<1>2. /\ loggedIn' = loggedIn
      /\ \/ loggedIn /\ server' = server \ {k} /\ denied' = denied \ {k}
         \/ loggedIn /\ server' = server /\ denied' = denied \cup {k}
         \/ ~loggedIn /\ server' = {} /\ denied' = {}
      /\ inbox' \in Seq(Answers)
      /\ \A i \in 1..Len(inbox') : inbox'[i] = "login_ok" => loggedIn
  BY <1>1, ServerTakesFact DEF SocketTypeOK
<1>3. SocketTypeOK'
  BY <1>1, <1>2 DEF SocketTypeOK
<1>4. Shape' /\ Acceptance'
  BY <1>1, <1>2 DEF Shape, Acceptance
<1>5. Registered'
  BY <1>1, <1>2 DEF Registered
<1>6. NothingLost'
  BY <1>1 DEF NothingLost
<1> QED
  BY <1>3, <1>4, <1>5, <1>6

LEMMA ReplayOneKeeps ==
    ASSUME SocketInv, NEW k \in Keys, ReplayOne(k)
    PROVE  SocketInv'
<1> USE DEF SocketInv
<1>1. /\ loop = "replaying" /\ k \in snapshot /\ snapshot' = snapshot \ {k}
      /\ loop' = loop /\ ws' = ws /\ attempt' = attempt /\ wanted' = wanted
  BY DEF ReplayOne
<1>2. CASE ws = "open"
  <2>1. ServerTakes(k, server \cup {k}) /\ log' = log \cup {k} /\ torn' = torn
    BY <1>2 DEF ReplayOne
  <2>2. /\ loggedIn' = loggedIn
        /\ \/ loggedIn /\ server' = server \cup {k} /\ denied' = denied \ {k}
           \/ loggedIn /\ server' = server /\ denied' = denied \cup {k}
           \/ ~loggedIn /\ server' = {} /\ denied' = {}
        /\ inbox' \in Seq(Answers)
        /\ \A i \in 1..Len(inbox') : inbox'[i] = "login_ok" => loggedIn
    BY <1>2, <2>1, ServerTakesFact DEF SocketTypeOK
  <2>3. SocketTypeOK'
    BY <1>1, <2>1, <2>2 DEF SocketTypeOK
  <2>4. Shape' /\ Acceptance'
    BY <1>1, <2>2 DEF Shape, Acceptance
  <2>5. Registered'
    BY <1>1, <1>2, <2>1, <2>2 DEF Registered
  <2>6. NothingLost'
    BY <1>1, <2>1 DEF NothingLost
  <2> QED
    BY <2>3, <2>4, <2>5, <2>6
<1>3. CASE ws # "open"
  <2>1. /\ torn' = torn \cup ({k} \ log)
        /\ inbox' = inbox /\ loggedIn' = loggedIn /\ server' = server
        /\ denied' = denied /\ log' = log
    BY <1>3 DEF ReplayOne, serverVars
  <2>2. SocketTypeOK'
    BY <1>1, <2>1 DEF SocketTypeOK
  <2>3. Shape' /\ Acceptance'
    BY <1>1, <2>1 DEF Shape, Acceptance
  <2>4. NothingLost'
    BY <1>1, <2>1 DEF NothingLost
  <2> QED
    BY <1>1, <1>3, <2>1, <2>2, <2>3, <2>4 DEF Registered
<1> QED
  BY <1>2, <1>3

LEMMA ReadAnswerKeeps ==
    ASSUME SocketInv, ReadAnswer
    PROVE  SocketInv'
<1> USE DEF SocketInv
<1>1. loop = "login" /\ inbox # <<>> /\ inbox \in Seq(Answers)
  BY DEF ReadAnswer, SocketTypeOK
<1>2. CASE Head(inbox) = "login_ok"
  <2>1. ws = "open" => loggedIn
    BY <1>1, <1>2 DEF Acceptance
  <2>2. /\ loop' = AfterLogin /\ snapshot' = log /\ inbox' = <<>>
        /\ log' = IF AfterLogin = "replaying" THEN {} ELSE log
        /\ ws' = ws /\ attempt' = attempt /\ loggedIn' = loggedIn
        /\ server' = server /\ denied' = denied /\ wanted' = wanted /\ torn' = torn
    BY <1>2 DEF ReadAnswer, history
  <2>3. snapshot = {} /\ log' = {} /\ (log # {} <=> loop' = "replaying")
        /\ loop' \in {"open", "replaying"}
    BY <1>1, <2>2 DEF Shape, AfterLogin
  <2>4. SocketTypeOK'
    BY <2>2, <2>3 DEF SocketTypeOK, LoopSteps
  <2>5. Shape' /\ Acceptance'
    BY <1>1, <2>1, <2>2, <2>3 DEF Shape, Acceptance, Connected
  <2>6. Registered'
    BY <2>1, <2>2, <2>3 DEF Registered
  <2>7. NothingLost'
    BY <2>2, <2>3 DEF NothingLost
  <2> QED
    BY <2>4, <2>5, <2>6, <2>7
<1>3. CASE Head(inbox) # "login_ok"
  BY <1>1, <1>3, LoginFailedKeeps DEF ReadAnswer
<1> QED
  BY <1>2, <1>3

LEMMA SendLoginKeeps ==
    ASSUME SocketInv, SendLogin
    PROVE  SocketInv'
<1> USE DEF SocketInv
<1>1. /\ loop = "token" /\ ws = "open" /\ loop' = "login"
      /\ ws' = ws /\ attempt' = attempt /\ log' = log /\ snapshot' = snapshot
      /\ server' = server /\ denied' = denied /\ wanted' = wanted /\ torn' = torn
  BY DEF SendLogin, history
<1>2. /\ inbox' \in Seq(Answers) /\ loggedIn' \in BOOLEAN
      /\ loggedIn => loggedIn'
      /\ \A i \in 1..Len(inbox') : inbox'[i] = "login_ok" => loggedIn'
  <2> USE DEF SocketTypeOK, Acceptance, Answers
  <2>1. CASE inbox' = Append(inbox, "login_ok") /\ loggedIn' = TRUE
    BY <2>1
  <2>2. CASE inbox' = Append(inbox, "login_refused") /\ UNCHANGED loggedIn
    BY <1>1, <2>2
  <2>3. CASE UNCHANGED <<inbox, loggedIn>>
    BY <1>1, <2>3
  <2> QED
    BY <2>1, <2>2, <2>3 DEF SendLogin
<1>3. SocketTypeOK'
  BY <1>1, <1>2 DEF SocketTypeOK, LoopSteps
<1>4. Shape' /\ Acceptance'
  BY <1>1, <1>2 DEF Shape, Acceptance, Connected
<1>5. Registered' /\ NothingLost'
  BY <1>1, <1>2 DEF Registered, NothingLost
<1> QED
  BY <1>3, <1>4, <1>5

\* The remaining steps of the client's own task.
LEMMA LoopKeeps ==
    ASSUME SocketInv, LoopStep
    PROVE  SocketInv'
<1> USE DEF SocketInv
<1>1. CASE Established
  <2>1. /\ loop = "connecting" /\ loop' = "token" /\ ws' = "open" /\ attempt' = 0
        /\ inbox' = <<>> /\ loggedIn' = FALSE /\ server' = {} /\ denied' = {}
        /\ log' = log /\ snapshot' = snapshot /\ wanted' = wanted /\ torn' = torn
    BY <1>1 DEF Established, NoServer, Cut, history
  <2>2. SocketTypeOK'
    <3>1. attempt' \in 0..(MaxRetries + 1)
      BY <2>1, RetriesAssumption DEF RetriesAssumption
    <3>2. inbox' \in Seq(Answers)
      BY <2>1, NoAnswers
    <3> QED
      BY <2>1, <3>1, <3>2 DEF SocketTypeOK, LoopSteps
  <2>3. Shape' /\ Acceptance'
    BY <2>1, RetriesAssumption DEF Shape, Acceptance, Connected, RetriesAssumption
  <2> QED
    BY <2>1, <2>2, <2>3 DEF Registered, NothingLost
<1>2. CASE ConnectFails
  BY <1>2, RetryKeeps DEF ConnectFails, LoopSteps
<1>3. CASE WaitOver
  <2>1. /\ loop = "waiting" /\ loop' = "connecting"
        /\ UNCHANGED <<ws, attempt, log, snapshot, inbox, loggedIn, server, denied,
                    wanted, torn>>
    BY <1>3 DEF WaitOver, serverVars, history
  <2>2. SocketTypeOK'
    BY <2>1, NoAnswers DEF SocketTypeOK, LoopSteps
  <2> QED
    BY <2>1, <2>2 DEF Shape, Acceptance, Registered, NothingLost, Connected
<1>4. CASE TokenFails
  BY <1>4, RetryKeeps DEF TokenFails, LoopSteps
<1>5. CASE SendLogin
  BY <1>5, SendLoginKeeps
<1>6. CASE ReadAnswer
  BY <1>6, ReadAnswerKeeps
<1>7. CASE LoginTimesOut
  BY <1>7, LoginFailedKeeps DEF LoginTimesOut
<1>8. CASE ReplayDone
  <2>1. /\ loop = "replaying" /\ snapshot = {} /\ loop' = "open"
        /\ UNCHANGED <<ws, attempt, log, snapshot, inbox, loggedIn, server, denied,
                    wanted, torn>>
    BY <1>8 DEF ReplayDone, serverVars, history
  <2>2. SocketTypeOK'
    BY <2>1, NoAnswers DEF SocketTypeOK, LoopSteps
  <2> QED
    BY <2>1, <2>2 DEF Shape, Acceptance, Registered, NothingLost, Connected
<1>9. CASE LoopSeesLoss
  BY <1>9, RetryKeeps DEF LoopSeesLoss, LoopSteps
<1>10. CASE \E k \in Keys : ReplayOne(k)
  BY <1>10, ReplayOneKeeps
<1> QED
  BY <1>1, <1>2, <1>3, <1>4, <1>5, <1>6, <1>7, <1>8, <1>9, <1>10 DEF LoopStep

LEMMA SocketInvInductive ==
    ASSUME SocketInv, [Next]_vars
    PROVE  SocketInv'
<1> USE DEF SocketInv
<1>1. CASE LoopStep
  BY <1>1, LoopKeeps
<1>2. CASE Connect
  <2>1. /\ loop \in {"none", "done"} /\ loop' = "connecting" /\ attempt' = 0
        /\ UNCHANGED <<ws, log, snapshot, inbox, loggedIn, server, denied,
                    wanted, torn>>
    BY <1>2 DEF Connect, serverVars, history
  <2>2. SocketTypeOK'
    BY <2>1, NoAnswers, RetriesAssumption DEF SocketTypeOK, LoopSteps, RetriesAssumption
  <2>3. Shape'
    BY <2>1, RetriesAssumption DEF Shape, Connected, RetriesAssumption
  <2> QED
    BY <2>1, <2>2, <2>3 DEF Acceptance, Registered, NothingLost
<1>3. CASE ConnectionLost
  <2>1. /\ ws' = "dead" /\ loggedIn' = FALSE /\ server' = {} /\ denied' = {}
        /\ UNCHANGED <<loop, attempt, log, snapshot, inbox, wanted, torn>>
    BY <1>3 DEF ConnectionLost, Cut, history
  <2>2. SocketTypeOK'
    BY <2>1, NoAnswers DEF SocketTypeOK
  <2> QED
    BY <2>1, <2>2 DEF Shape, Acceptance, Registered, NothingLost
<1>4. CASE Close
  <2>1. /\ loop' = "none" /\ ws' = "none" /\ log' = {} /\ snapshot' = {}
        /\ inbox' = <<>> /\ loggedIn' = FALSE /\ server' = {} /\ denied' = {}
        /\ wanted' = {} /\ torn' = {} /\ attempt' = attempt
    BY <1>4 DEF Close, NoServer, Cut
  <2>2. SocketTypeOK'
    BY <2>1, NoAnswers DEF SocketTypeOK, LoopSteps
  <2> QED
    BY <2>1, <2>2 DEF Shape, Acceptance, Registered, NothingLost
<1>5. CASE \E k \in Keys : Subscribe(k) \/ Unsubscribe(k)
  BY <1>5, SubscribeKeeps, UnsubscribeKeeps
<1>6. CASE UNCHANGED vars
  <2>1. UNCHANGED <<loop, ws, attempt, log, snapshot, inbox, loggedIn, server, denied,
                    wanted, torn>>
    BY <1>6 DEF vars, serverVars, history
  <2>2. SocketTypeOK'
    BY <2>1, NoAnswers DEF SocketTypeOK
  <2> QED
    BY <2>1, <2>2 DEF Shape, Acceptance, Registered, NothingLost
<1> QED
  BY <1>1, <1>2, <1>3, <1>4, <1>5, <1>6 DEF Next

-----------------------------------------------------------------------------
(* The theorems                                                            *)

LEMMA SocketInvHolds == Spec => []SocketInv
<1>1. Init => SocketInv
  <2> SUFFICES ASSUME Init PROVE SocketInv
    OBVIOUS
  <2>1. SocketTypeOK
    <3>1. attempt \in 0..(MaxRetries + 1)
      BY RetriesAssumption DEF Init, RetriesAssumption
    <3>2. inbox \in Seq(Answers)
      BY NoAnswers DEF Init
    <3> QED
      BY <3>1, <3>2 DEF Init, SocketTypeOK, LoopSteps
  <2>2. Shape /\ Acceptance /\ Registered /\ NothingLost
    BY DEF Init, Shape, Acceptance, Registered, NothingLost
  <2> QED
    BY <2>1, <2>2 DEF SocketInv
<1>2. SocketInv /\ [Next]_vars => SocketInv'
  BY SocketInvInductive
<1> QED
  BY <1>1, <1>2, PTL DEF Spec

\* The client's fields keep their types: no series of losses and calls drives
\* the attempt counter past its end.
THEOREM SocketTyped == Spec => []SocketTypeOK
BY SocketInvHolds, PTL DEF SocketInv

\* While messages arrive, what the client has logged as subscribed the server
\* has registered, after any number of reconnections, but for the keys it has
\* refused on this connection.
THEOREM LogServed == Spec => []LogIsServed
<1>1. SocketInv => LogIsServed
  BY DEF SocketInv, Registered, LogIsServed, Receiving
<1> QED
  BY <1>1, SocketInvHolds, PTL

\* While messages arrive, the server sends exactly what the program wants,
\* except for keys torn by a failed replay or by an unsubscription during one,
\* and for those whose last call it has refused.
THEOREM WantedServed == Spec => []ServerKnowsWanted
<1>1. SocketInv => ServerKnowsWanted
  BY DEF SocketInv, Shape, Registered, NothingLost, ServerKnowsWanted, Receiving
<1> QED
  BY <1>1, SocketInvHolds, PTL
=============================================================================
