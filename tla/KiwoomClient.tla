---------------------------- MODULE KiwoomClient ----------------------------
(***************************************************************************)
(* Calls of the Kiwoom REST API: broker/kiwoom.py with the token cache of  *)
(* broker/token_store.py and the request's database session around them.   *)
(*                                                                         *)
(* A request of the API server (a Session) keeps its token in the row of   *)
(* its broker credential.  It read that row when the request began, and    *)
(* the session's identity map answers every later load from that copy:     *)
(* what other sessions commit is never seen.  Its own writes change the    *)
(* copy and hold the lock of the row until the request commits or rolls    *)
(* back.  One asyncio lock per credential guards load, issue and save.     *)
(* The scripts (Standalone) have no session: they keep a token in memory   *)
(* from one call to the next and take no lock.                             *)
(*                                                                         *)
(* The broker is external.  It may stop accepting a token at any moment    *)
(* and may answer a token request without a token.                         *)
(*                                                                         *)
(* The two locks are taken in both orders, so requests may wait for each   *)
(* other for ever: such a state has no next step.                          *)
(***************************************************************************)
EXTENDS Naturals, FiniteSets, FiniteSetsExt

CONSTANTS
    Sessions,         \* requests of the API server, all on one credential
    Standalone,       \* clients without a database session
    MaxCallers,       \* bound on the callers of one behaviour
    MaxTokens,        \* bound: tokens in use at one time
    MaxRetries,       \* _request's _max_retries
    BalanceRequests   \* the requests of one get_balance

ASSUME ClientAssumption ==
    /\ Sessions \cap Standalone = {}
    /\ MaxCallers \in Nat /\ MaxTokens \in Nat /\ MaxRetries \in Nat \ {0}
    /\ BalanceRequests \in Nat \ {0}

VARIABLES
    \* the credential's row and its two locks
    row,        \* the cached token that is committed
    rowLock,    \* the session whose transaction has written the row
    mutex,      \* who is inside `async with lock`
    \* the broker
    accepted,   \* tokens the broker accepts
    \* one call per caller
    pc,         \* where the call is, see Steps
    op,         \* "order" or "balance"
    left,       \* requests still to make
    attempt,    \* attempt of the request under way
    view,       \* a session's copy of the row, or a standalone's _token
    hand,       \* the token issued or used by the request under way
    denied,     \* the token the broker refused last in this call
    result,     \* how the call ends, see Results
    executed    \* history: times the broker carried the order out

dbVars     == <<row, rowLock, mutex>>
callVars   == <<pc, op, left, attempt, view, hand, denied, result, executed>>
vars       == <<dbVars, accepted, callVars>>

Callers == Sessions \cup Standalone
Tokens  == 1..MaxTokens
None    == 0     \* no token, or one that is invalid or about to expire
Gone    == MaxTokens + 1           \* a refused token nobody can send any more
Nobody  == "nobody"
ASSUME NobodyAssumption == Nobody \notin Sessions

Steps   == {"absent", "idle", "ensuring", "waiting", "issuing", "saving", "sending",
            "invalidating", "ending"}
Results == {"none", "ok", "unknown", "rate_limit", "token_error", "refused",
            "no_token"}
Operations  == {"order", "balance"}
RequestsOf(what) == IF what = "order" THEN 1 ELSE BalanceRequests

GatewayTypeOK ==
    /\ row \in Tokens \cup {None}
    /\ rowLock \in Sessions \cup {Nobody} /\ mutex \in Sessions \cup {Nobody}
    /\ accepted \subseteq Tokens
    /\ pc \in [Callers -> Steps] /\ op \in [Callers -> Operations]
    /\ left \in [Callers -> 0..BalanceRequests]
    /\ attempt \in [Callers -> 1..MaxRetries]
    /\ view \in [Callers -> Tokens \cup {None}]
    /\ hand \in [Callers -> Tokens \cup {None}]
    /\ denied \in [Callers -> Tokens \cup {None, Gone}]
    /\ result \in [Callers -> Results]
    /\ executed \in [Callers -> 0..MaxRetries]

Init ==
    /\ row = None /\ rowLock = Nobody /\ mutex = Nobody
    /\ accepted = {}
    /\ \E present \in kSubset(MaxCallers, Callers) :
         pc = [c \in Callers |-> IF c \in present THEN "idle" ELSE "absent"]
    /\ op = [c \in Callers |-> "order"]
    /\ left = [c \in Callers |-> 0] /\ attempt = [c \in Callers |-> 1]
    /\ view = [c \in Callers |-> None] /\ hand = [c \in Callers |-> None]
    /\ denied = [c \in Callers |-> None]
    /\ result = [c \in Callers |-> "none"]
    /\ executed = [c \in Callers |-> 0]

Set(f, c, value) == [f EXCEPT ![c] = value]
Go(c, step)      == pc' = Set(pc, c, step)
EndWith(c, how)  == Go(c, "ending") /\ result' = Set(result, c, how)

\* load(): a token that is there and not about to expire.
Usable(t) == t # None

\* Tokens that may still be sent.  Of the others nothing is kept, and their
\* numbers may be issued anew.
InUse == {row} \cup UNION {{view[c], hand[c]} : c \in Callers}
ForgetOthers(refused) ==
    /\ accepted' = accepted \cap InUse'
    /\ denied' = [c \in Callers |->
          IF refused[c] \in InUse' \cup {None} THEN refused[c] ELSE Gone]

-----------------------------------------------------------------------------
(* One call                                                                *)

\* get_broker_credential reads the row into the session.
Begin(c) ==
    /\ pc[c] = "idle"
    /\ \E what \in Operations : /\ op' = Set(op, c, what)
                                /\ left' = Set(left, c, RequestsOf(what))
    /\ Go(c, "ensuring")
    /\ view' = IF c \in Sessions THEN Set(view, c, row) ELSE view
    /\ UNCHANGED <<dbVars, accepted, attempt, hand, denied, result, executed>>

\* ensure_token, up to its first await: get_or_refresh_token for a session,
\* the token in memory for a script.
EnsureToken(c) ==
    /\ pc[c] = "ensuring"
    /\ IF Usable(view[c])
       THEN hand' = Set(hand, c, view[c]) /\ Go(c, "sending")
       ELSE /\ Go(c, IF c \in Sessions THEN "waiting" ELSE "issuing")
            /\ UNCHANGED hand
    /\ UNCHANGED <<dbVars, accepted, op, left, attempt, view, denied, result,
                   executed>>

\* `async with lock`, then the second look at the row.
AcquireLock(c) ==
    /\ pc[c] = "waiting" /\ mutex = Nobody
    /\ IF Usable(view[c])
       THEN hand' = Set(hand, c, view[c]) /\ Go(c, "sending")
            /\ UNCHANGED mutex
       ELSE mutex' = c /\ Go(c, "issuing") /\ UNCHANGED hand
    /\ UNCHANGED <<row, rowLock, accepted, op, left, attempt, view, denied,
                   result, executed>>

\* An exception leaves the `async with` too.
LockKept(c)    == mutex
LockLeft(c)    == IF mutex = c THEN Nobody ELSE mutex

AuthenticateFails(c) ==
    /\ pc[c] = "issuing"
    /\ mutex' = LockLeft(c)
    /\ EndWith(c, "no_token")
    /\ UNCHANGED <<row, rowLock, accepted, op, left, attempt, view, hand,
                   denied, executed>>

\* The broker issues a token, or answers 200 without one: that answer is
\* cached like a token, and the broker accepts no request with it.
Authenticate(c) ==
    /\ pc[c] = "issuing"
    /\ Tokens \ InUse # {}
    /\ LET t == Min(Tokens \ InUse) IN
        /\ accepted' \in {accepted, accepted \cup {t}}
        /\ hand' = Set(hand, c, t)
        /\ view' = IF c \in Standalone THEN Set(view, c, t) ELSE view
    /\ Go(c, IF c \in Sessions THEN "saving" ELSE "sending")
    /\ UNCHANGED <<dbVars, op, left, attempt, denied, result, executed>>

RowIsFree(c) == rowLock \in {Nobody, c}

\* save(): the UPDATE waits for the row, then the lock is left, uncommitted.
SaveToken(c) ==
    /\ pc[c] = "saving" /\ RowIsFree(c)
    /\ rowLock' = c /\ mutex' = LockLeft(c)
    /\ view' = Set(view, c, hand[c])
    /\ Go(c, "sending")
    /\ UNCHANGED <<row, op, left, attempt, hand, result, executed>>
    /\ ForgetOthers(denied)

-----------------------------------------------------------------------------
(* One request and its answers                                             *)

\* The request is over and its token no longer in hand.
Spent(c, refused) == hand' = Set(hand, c, None) /\ ForgetOthers(refused)

Executes(c) ==
    executed' = IF op[c] = "order" THEN Set(executed, c, executed[c] + 1)
                                   ELSE executed

Answered(c) ==
    /\ pc[c] = "sending" /\ hand[c] \in accepted
    /\ Executes(c)
    /\ left' = Set(left, c, left[c] - 1)
    /\ IF left[c] = 1
       THEN EndWith(c, "ok") /\ UNCHANGED attempt
       ELSE Go(c, "ensuring") /\ attempt' = Set(attempt, c, 1)
            /\ UNCHANGED result
    /\ UNCHANGED <<dbVars, op, view>>
    /\ Spent(c, denied)

\* The next attempt, or the end when there is none left.
TryAgain(c) == Go(c, "ensuring") /\ attempt' = Set(attempt, c, attempt[c] + 1)
OnceTooOften(c, how) ==
    \/ attempt[c] <= MaxRetries /\ TryAgain(c) /\ UNCHANGED result
    \/ attempt[c] > MaxRetries /\ EndWith(c, how) /\ UNCHANGED attempt
RetryOr(c, how) ==
    \/ attempt[c] < MaxRetries /\ TryAgain(c) /\ UNCHANGED result
    \/ attempt[c] = MaxRetries /\ EndWith(c, how) /\ UNCHANGED attempt

\* A request without an answer raises out of the loop: it is not repeated,
\* as the broker may have carried it out.
LostIsRetried(c) == RetryOr(c, "unknown")
LostEnds(c)      == EndWith(c, "unknown") /\ UNCHANGED attempt

Lost(c) ==
    /\ pc[c] = "sending"
    /\ \/ hand[c] \in accepted /\ Executes(c)
       \/ UNCHANGED executed
    /\ LostEnds(c)
    /\ UNCHANGED <<dbVars, op, left, view>>
    /\ Spent(c, denied)

\* HTTP 429 or the broker's own code, then a pause.
RateLimited(c) ==
    /\ pc[c] = "sending"
    /\ RetryOr(c, "rate_limit")
    /\ UNCHANGED <<dbVars, op, left, view, executed>>
    /\ Spent(c, denied)

Refused(c) ==
    /\ pc[c] = "sending" /\ hand[c] \in accepted
    /\ EndWith(c, "refused")
    /\ UNCHANGED <<dbVars, op, left, attempt, view, executed>>
    /\ Spent(c, denied)

\* 8005.  A script forgets its token, unless this was the last attempt.
TokenInvalid(c) ==
    /\ pc[c] = "sending" /\ hand[c] \notin accepted
    /\ IF c \in Sessions
       THEN Go(c, "invalidating") /\ UNCHANGED <<attempt, view, result>>
       ELSE /\ RetryOr(c, "token_error")
            /\ view' = IF attempt[c] < MaxRetries THEN Set(view, c, None)
                                                  ELSE view
    /\ UNCHANGED <<dbVars, op, left, executed>>
    /\ Spent(c, Set(denied, c, hand[c]))

\* _invalidate_cached_token: an expired token overwrites the row.
StaleStays(c)  == view
Invalidated(c) == Set(view, c, None)

Invalidate(c) ==
    /\ pc[c] = "invalidating" /\ RowIsFree(c)
    /\ rowLock' = c /\ view' = Invalidated(c)
    /\ RetryOr(c, "token_error")
    /\ UNCHANGED <<row, mutex, op, left, hand, executed>>
    /\ ForgetOthers(denied)

-----------------------------------------------------------------------------
(* The end of the request                                                  *)

\* The order endpoint logs any error and returns, the others raise it.
Commits(c) == op[c] = "order" \/ result[c] = "ok"

\* get_db: commit, or roll back on an exception; both leave the row.
End(c) ==
    /\ pc[c] = "ending"
    /\ row' = IF rowLock = c /\ Commits(c) THEN view[c] ELSE row
    /\ rowLock' = IF rowLock = c THEN Nobody ELSE rowLock
    /\ view' = IF c \in Sessions THEN Set(view, c, None) ELSE view
    /\ left' = Set(left, c, 0) /\ attempt' = Set(attempt, c, 1)
    /\ op' = Set(op, c, "order") /\ result' = Set(result, c, "none")
    /\ executed' = Set(executed, c, 0)
    /\ Go(c, "idle")
    /\ UNCHANGED mutex
    /\ Spent(c, Set(denied, c, None))

\* A token lives for a day and a call for seconds.
IssuedUnderWay(t) ==
    \E c \in Sessions : \/ rowLock = c /\ view[c] = t
                        \/ pc[c] = "saving" /\ hand[c] = t

\* Five minutes before its expiry a token counts as none for whoever looks
\* it up: in the row, in the sessions and in memory.
Lapse(t) ==
    /\ t \in InUse \ {None} /\ ~IssuedUnderWay(t)
    /\ row' = IF row = t THEN None ELSE row
    /\ view' = [c \in Callers |-> IF view[c] = t THEN None ELSE view[c]]
    /\ UNCHANGED <<rowLock, mutex, pc, op, left, attempt, hand, result,
                   executed>>
    /\ ForgetOthers(denied)

\* The broker stops accepting a token, an expired one or any other.
Forget(t) == /\ t \in accepted /\ accepted' = accepted \ {t}
             /\ UNCHANGED <<dbVars, callVars>>

CallStep(c) ==
    \/ EnsureToken(c) \/ AcquireLock(c) \/ AuthenticateFails(c)
    \/ Authenticate(c) \/ SaveToken(c) \/ Answered(c) \/ Lost(c)
    \/ RateLimited(c) \/ Refused(c) \/ TokenInvalid(c) \/ Invalidate(c)
    \/ End(c)

Next == \/ \E c \in Callers : Begin(c) \/ CallStep(c)
        \/ \E t \in Tokens : Lapse(t) \/ Forget(t)

Spec == Init /\ [][Next]_vars

\* Every await returns: the HTTP client has timeouts, and asyncio.Lock and
\* the database serve waiters in their order.
FairSpec == Spec /\ \A c \in Callers : SF_vars(CallStep(c))

-----------------------------------------------------------------------------
(* Properties                                                              *)

\* _request never repeats an order that may have reached the broker: it is
\* carried out once when the call succeeds, at most once when its answer is
\* lost, and never when the caller is told that it failed.
OrderOnce ==
    \A c \in Callers : op[c] = "order" =>
        /\ executed[c] <= 1
        /\ result[c] = "ok" => executed[c] = 1
        /\ result[c] \in {"rate_limit", "token_error", "refused", "no_token"}
             => executed[c] = 0

\* A token the broker has refused is not sent again by the same call, on
\* any of its attempts and requests: the cache is invalidated first, and the
\* copy in the session shows it.
RefusedTokenNotResent ==
    \A c \in Callers :
        pc[c] = "sending" /\ denied[c] # None => hand[c] # denied[c]

\* The two locks never bring the requests to a standstill: some call under
\* way can always go on, unless a request has been refused its token (see
\* RefusedCallEnds).
SomeoneProceeds ==
    /\ \E c \in Callers : pc[c] \notin {"absent", "idle"}
    /\ \A c \in Sessions : denied[c] = None
    => \E c \in Callers : ENABLED CallStep(c)

\* "Token error: invalidate the cache, then retry": the call ends.
RefusedCallEnds ==
    \A c \in Sessions : denied[c] # None ~> pc[c] = "idle"
=============================================================================
