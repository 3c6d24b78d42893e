------------------------- MODULE KiwoomClientProofs -------------------------
(***************************************************************************)
(* Proofs about KiwoomClient for any number of requests and scripts, any   *)
(* number of retries and any answers of the broker.                        *)
(***************************************************************************)
EXTENDS KiwoomClient, WellFoundedInduction, TLAPS

(***************************************************************************)
(* A new token is one that nobody has.                                     *)
(***************************************************************************)

LEMMA SmallestIsIn ==
    ASSUME NEW S \in SUBSET Nat, S # {}
    PROVE  Min(S) \in S
  <1> DEFINE Less == OpToRel(<, Nat)
  <1>0. IsWellFoundedOn(Less, Nat)
    BY NatLessThanWellFounded
  <1>a. \A x, y \in Nat : x < y => <<x, y>> \in Less
    BY DEF OpToRel
  <1> HIDE DEF Less
  <1>1. PICK x \in S : \A y \in S : ~(<<y, x>> \in Less)
    BY <1>0, WFMin
  <1>2. ASSUME NEW y \in S PROVE x <= y
    <2>1. x \in Nat /\ y \in Nat
      OBVIOUS
    <2>2. ~(y < x)
      BY <1>1, <1>a, <2>1
    <2> QED
      BY <2>1, <2>2
  <1> QED
    BY <1>2 DEF Min

LEMMA InUseIs ==
    ASSUME NEW t
    PROVE  t \in InUse <=> \/ t = row
                           \/ \E c \in Callers : t = view[c] \/ t = hand[c]
  BY DEF InUse

LEMMA InUseIsNext ==
    ASSUME NEW t
    PROVE  t \in InUse' <=> \/ t = row'
                            \/ \E c \in Callers : t = view'[c] \/ t = hand'[c]
  BY DEF InUse

LEMMA NewToken ==
    ASSUME Tokens \ InUse # {}
    PROVE  Min(Tokens \ InUse) \in Tokens /\ Min(Tokens \ InUse) \notin InUse
  <1>1. Tokens \ InUse \in SUBSET Nat
    BY DEF Tokens
  <1> QED
    BY <1>1, SmallestIsIn

(***************************************************************************)
(* Types and counters.  A call under way has a request left; that of an    *)
(* order is its only one, and it has not been carried out yet: an answer,  *)
(* a refusal and a lost reply all leave _request, so a request that is     *)
(* tried again is one the broker did not carry out.                        *)
(***************************************************************************)

Calling == {"ensuring", "waiting", "issuing", "saving", "sending",
            "invalidating"}

OneCall(c) ==
    /\ pc[c] \in {"absent", "idle"} => executed[c] = 0
    /\ pc[c] \in {"waiting", "saving", "invalidating"} => c \in Sessions
    /\ pc[c] # "ending" => result[c] = "none"
    /\ pc[c] \in Calling => left[c] >= 1 /\ executed[c] = 0
    /\ pc[c] \in Calling /\ op[c] = "order" => left[c] = 1
    /\ op[c] = "balance" => executed[c] = 0
    /\ pc[c] = "ending" =>
            /\ executed[c] <= 1
            /\ op[c] = "order" =>
                /\ result[c] = "ok" => executed[c] = 1
                /\ result[c] \in {"rate_limit", "token_error", "refused",
                                  "no_token"} => executed[c] = 0

OnceInv == GatewayTypeOK /\ \A c \in Callers : OneCall(c)

LEMMA OnceInit == Init => OnceInv
  <1> SUFFICES ASSUME Init PROVE OnceInv
    OBVIOUS
  <1>1. pc \in [Callers -> {"idle", "absent"}]
    BY DEF Init
  <1>2. GatewayTypeOK
    BY <1>1, ClientAssumption
    DEF Init, GatewayTypeOK, Steps, Operations, Results, ClientAssumption
  <1>3. ASSUME NEW c \in Callers PROVE OneCall(c)
    BY <1>1, <1>3 DEF Init, OneCall, Calling
  <1> QED
    BY <1>2, <1>3 DEF OnceInv

\* What RetryOr does of it: another attempt or the end.
LEMMA RetryTyped ==
    ASSUME GatewayTypeOK, NEW c \in Callers, NEW how \in Results,
           RetryOr(c, how)
    PROVE  /\ attempt' \in [Callers -> 1..MaxRetries]
           /\ \/ /\ pc' = [pc EXCEPT ![c] = "ensuring"]
                 /\ result' = result
              \/ /\ pc' = [pc EXCEPT ![c] = "ending"]
                 /\ result' = [result EXCEPT ![c] = how]
  <1>1. attempt[c] \in 1..MaxRetries /\ MaxRetries \in Nat
    BY ClientAssumption DEF GatewayTypeOK, ClientAssumption
  <1>2. CASE attempt[c] < MaxRetries /\ TryAgain(c) /\ UNCHANGED result
    <2>1. attempt[c] + 1 \in 1..MaxRetries
      BY <1>1, <1>2
    <2> QED
      BY <1>2, <2>1 DEF TryAgain, Go, Set, GatewayTypeOK
  <1>3. CASE EndWith(c, how) /\ UNCHANGED attempt
    BY <1>3 DEF EndWith, Go, Set, GatewayTypeOK
  <1> QED
    BY <1>2, <1>3 DEF RetryOr

\* ForgetOthers leaves tokens, or Gone.
LEMMA ForgetTyped ==
    ASSUME accepted \subseteq Tokens, NEW refused, ForgetOthers(refused),
           refused \in [Callers -> Tokens \cup {None, Gone}]
    PROVE  /\ accepted' \subseteq Tokens
           /\ denied' \in [Callers -> Tokens \cup {None, Gone}]
  <1>1. accepted' \subseteq accepted
    BY DEF ForgetOthers
  <1>2. denied' = [c \in Callers |->
            IF refused[c] \in InUse' \cup {None} THEN refused[c] ELSE Gone]
    BY DEF ForgetOthers
  <1> QED
    BY <1>1, <1>2

LEMMA SpentTyped ==
    ASSUME GatewayTypeOK, NEW c \in Callers, NEW refused, Spent(c, refused),
           refused \in [Callers -> Tokens \cup {None, Gone}]
    PROVE  /\ accepted' \subseteq Tokens
           /\ hand' = [hand EXCEPT ![c] = None]
           /\ hand' \in [Callers -> Tokens \cup {None}]
           /\ denied' \in [Callers -> Tokens \cup {None, Gone}]
  BY ForgetTyped DEF Spent, Set, GatewayTypeOK

\* The way to a token.
LEMMA OnceToken ==
    ASSUME OnceInv, NEW c \in Callers,
           \/ Begin(c) \/ EnsureToken(c) \/ AcquireLock(c)
           \/ AuthenticateFails(c) \/ Authenticate(c) \/ SaveToken(c)
    PROVE  OnceInv'
  <1> USE DEF Set, Go, dbVars, callVars
  <1>0. GatewayTypeOK /\ Sessions \subseteq Callers
    BY DEF OnceInv, Callers
  <1>1. CASE Begin(c)
    <2>1. PICK what \in Operations :
              /\ op' = [op EXCEPT ![c] = what]
              /\ left' = [left EXCEPT ![c] = RequestsOf(what)]
      BY <1>1 DEF Begin
    <2>2. /\ RequestsOf(what) \in 1..BalanceRequests
          /\ what = "order" => RequestsOf(what) = 1
      BY ClientAssumption DEF RequestsOf, Operations, ClientAssumption
    <2>3. GatewayTypeOK'
      BY <1>0, <1>1, <2>1, <2>2
      DEF Begin, GatewayTypeOK, Steps
    <2>4. ASSUME NEW d \in Callers PROVE OneCall(d)'
      BY <1>0, <1>1, <2>1, <2>2
      DEF Begin, OnceInv, OneCall, Calling, GatewayTypeOK
    <2> QED
      BY <2>3, <2>4 DEF OnceInv
  <1>2. CASE EnsureToken(c)
    <2>1. PICK next \in {"sending", "waiting", "issuing"} :
              pc' = [pc EXCEPT ![c] = next]
      BY <1>2 DEF EnsureToken
    <2>2. hand' \in [Callers -> Tokens \cup {None}]
      BY <1>0, <1>2 DEF EnsureToken, GatewayTypeOK
    <2>3. GatewayTypeOK'
      BY <1>0, <1>2, <2>1, <2>2 DEF EnsureToken, GatewayTypeOK, Steps
    <2>4. ASSUME NEW d \in Callers PROVE OneCall(d)'
      BY <1>0, <1>2, <2>1
      DEF EnsureToken, OnceInv, OneCall, Calling, GatewayTypeOK
    <2> QED
      BY <2>3, <2>4 DEF OnceInv
  <1>3. CASE AcquireLock(c)
    <2>1. PICK next \in {"sending", "issuing"} : pc' = [pc EXCEPT ![c] = next]
      BY <1>3 DEF AcquireLock
    <2>2. hand' \in [Callers -> Tokens \cup {None}]
      BY <1>0, <1>3 DEF AcquireLock, GatewayTypeOK
    <2>3. GatewayTypeOK'
      <3>1. mutex' \in Sessions \cup {Nobody}
        BY <1>0, <1>3 DEF AcquireLock, GatewayTypeOK, OnceInv, OneCall
      <3> QED
        BY <1>0, <1>3, <2>1, <2>2, <3>1
        DEF AcquireLock, GatewayTypeOK, Steps
    <2>4. ASSUME NEW d \in Callers PROVE OneCall(d)'
      BY <1>0, <1>3, <2>1
      DEF AcquireLock, OnceInv, OneCall, Calling, GatewayTypeOK
    <2> QED
      BY <2>3, <2>4 DEF OnceInv
  <1>4. CASE AuthenticateFails(c)
    <2>1. GatewayTypeOK'
      BY <1>0, <1>4
      DEF AuthenticateFails, EndWith, LockLeft, GatewayTypeOK, Steps, Results
    <2>2. ASSUME NEW d \in Callers PROVE OneCall(d)'
      BY <1>0, <1>4
      DEF AuthenticateFails, EndWith, OnceInv, OneCall, Calling,
          GatewayTypeOK
    <2> QED
      BY <2>1, <2>2 DEF OnceInv
  <1>5. CASE Authenticate(c)
    <2>1. PICK t \in Tokens :
              /\ accepted' \in {accepted, accepted \cup {t}}
              /\ hand' = [hand EXCEPT ![c] = t]
              /\ view' = IF c \in Standalone THEN [view EXCEPT ![c] = t]
                                             ELSE view
      BY <1>5, NewToken DEF Authenticate
    <2>2. PICK next \in {"saving", "sending"} : pc' = [pc EXCEPT ![c] = next]
      BY <1>5 DEF Authenticate
    <2>3. accepted' \subseteq Tokens
      BY <1>0, <2>1 DEF GatewayTypeOK
    <2>4. GatewayTypeOK'
      BY <1>0, <1>5, <2>1, <2>2, <2>3 DEF Authenticate, GatewayTypeOK, Steps
    <2>5. ASSUME NEW d \in Callers PROVE OneCall(d)'
      BY <1>0, <1>5
      DEF Authenticate, OnceInv, OneCall, Calling, GatewayTypeOK
    <2> QED
      BY <2>4, <2>5 DEF OnceInv
  <1>6. CASE SaveToken(c)
    <2>1. /\ accepted' \subseteq Tokens
          /\ denied' \in [Callers -> Tokens \cup {None, Gone}]
      BY <1>0, <1>6, ForgetTyped DEF SaveToken, GatewayTypeOK
    <2>2. c \in Sessions
      BY <1>6 DEF SaveToken, OnceInv, OneCall
    <2>3. GatewayTypeOK'
      BY <1>0, <1>6, <2>1, <2>2 DEF SaveToken, LockLeft, GatewayTypeOK, Steps
    <2>4. ASSUME NEW d \in Callers PROVE OneCall(d)'
      BY <1>0, <1>6 DEF SaveToken, OnceInv, OneCall, Calling, GatewayTypeOK
    <2> QED
      BY <2>3, <2>4 DEF OnceInv
  <1> QED
    BY <1>1, <1>2, <1>3, <1>4, <1>5, <1>6

\* The broker's answers.
LEMMA OnceAnswer ==
    ASSUME OnceInv, NEW c \in Callers,
           Answered(c) \/ Lost(c) \/ RateLimited(c) \/ Refused(c)
    PROVE  OnceInv'
  <1> USE DEF Set, Go, dbVars, callVars
  <1>0. GatewayTypeOK
    BY DEF OnceInv
  <1>1. /\ accepted' \subseteq Tokens
        /\ hand' \in [Callers -> Tokens \cup {None}]
        /\ denied' \in [Callers -> Tokens \cup {None, Gone}]
    BY <1>0, SpentTyped
    DEF Answered, Lost, RateLimited, Refused, GatewayTypeOK
  <1>2. /\ left[c] \in 1..BalanceRequests /\ executed[c] = 0
        /\ op[c] \in Operations
        /\ op[c] = "order" => left[c] = 1
        /\ 1 \in 0..MaxRetries /\ 1 \in 1..MaxRetries
        /\ 0 \in 0..MaxRetries
    BY <1>0, ClientAssumption
    DEF Answered, Lost, RateLimited, Refused, OnceInv, OneCall, Calling,
        GatewayTypeOK, ClientAssumption
  <1>3. Executes(c) =>
            executed' = [executed EXCEPT ![c] = IF op[c] = "order" THEN 1
                                                                  ELSE 0]
    <2> SUFFICES ASSUME Executes(c)
                 PROVE  executed' = [executed EXCEPT
                                ![c] = IF op[c] = "order" THEN 1 ELSE 0]
      OBVIOUS
    <2>1. executed[c] + 1 = 1
      BY <1>2
    <2>2. executed \in [Callers -> 0..MaxRetries]
      BY <1>0 DEF GatewayTypeOK
    <2>3. CASE op[c] = "order"
      BY <2>1, <2>2, <2>3 DEF Executes
    <2>4. CASE op[c] # "order"
      BY <1>2, <2>2, <2>4 DEF Executes
    <2> QED
      BY <2>3, <2>4
  <1>4. CASE Answered(c)
    <2>1. /\ left[c] - 1 \in 0..BalanceRequests
          /\ left' = [left EXCEPT ![c] = left[c] - 1]
          /\ left' \in [Callers -> 0..BalanceRequests]
      <3>1. left[c] - 1 \in 0..BalanceRequests
        BY <1>2, ClientAssumption DEF ClientAssumption
      <3> QED
        BY <1>0, <1>4, <3>1 DEF Answered, GatewayTypeOK
    <2>2. CASE left[c] = 1
      <3>1. GatewayTypeOK'
        BY <1>0, <1>1, <1>2, <1>3, <1>4, <2>1, <2>2
        DEF Answered, EndWith, GatewayTypeOK, Steps, Results
      <3>2. ASSUME NEW d \in Callers PROVE OneCall(d)'
        BY <1>0, <1>2, <1>3, <1>4, <2>2
        DEF Answered, EndWith, OnceInv, OneCall, Calling, GatewayTypeOK
      <3> QED
        BY <3>1, <3>2 DEF OnceInv
    <2>3. CASE left[c] # 1
      <3>1. op[c] = "balance" /\ left[c] - 1 >= 1
        BY <1>2, <2>3 DEF Operations
      <3>2. GatewayTypeOK'
        BY <1>0, <1>1, <1>2, <1>3, <1>4, <2>1, <2>3
        DEF Answered, GatewayTypeOK, Steps
      <3>3. ASSUME NEW d \in Callers PROVE OneCall(d)'
        BY <1>0, <1>2, <1>3, <1>4, <2>3, <3>1
        DEF Answered, OnceInv, OneCall, Calling, GatewayTypeOK
      <3> QED
        BY <3>2, <3>3 DEF OnceInv
    <2> QED
      BY <2>2, <2>3
  <1>5. CASE Lost(c)
    <2>1. PICK n \in {0, 1} :
              /\ executed' = [executed EXCEPT ![c] = n]
              /\ n = 1 => op[c] = "order"
      BY <1>0, <1>2, <1>3, <1>5 DEF Lost, GatewayTypeOK
    <2>2. GatewayTypeOK'
      BY <1>0, <1>1, <1>2, <1>5, <2>1
      DEF Lost, LostEnds, EndWith, GatewayTypeOK, Steps, Results
    <2>3. ASSUME NEW d \in Callers PROVE OneCall(d)'
      BY <1>0, <1>2, <1>5, <2>1
      DEF Lost, LostEnds, EndWith, OnceInv, OneCall, Calling, GatewayTypeOK,
          Operations
    <2> QED
      BY <2>2, <2>3 DEF OnceInv
  <1>6. CASE RateLimited(c)
    <2>1. /\ attempt' \in [Callers -> 1..MaxRetries]
          /\ \/ /\ pc' = [pc EXCEPT ![c] = "ensuring"]
                /\ result' = result
             \/ /\ pc' = [pc EXCEPT ![c] = "ending"]
                /\ result' = [result EXCEPT ![c] = "rate_limit"]
      BY <1>0, <1>6, RetryTyped DEF RateLimited, Results
    <2>2. GatewayTypeOK'
      BY <1>0, <1>1, <1>6, <2>1 DEF RateLimited, GatewayTypeOK, Steps, Results
    <2>3. ASSUME NEW d \in Callers PROVE OneCall(d)'
      BY <1>0, <1>2, <1>6, <2>1
      DEF RateLimited, OnceInv, OneCall, Calling, GatewayTypeOK
    <2> QED
      BY <2>2, <2>3 DEF OnceInv
  <1>7. CASE Refused(c)
    <2>1. GatewayTypeOK'
      BY <1>0, <1>1, <1>7
      DEF Refused, EndWith, GatewayTypeOK, Steps, Results
    <2>2. ASSUME NEW d \in Callers PROVE OneCall(d)'
      BY <1>0, <1>2, <1>7
      DEF Refused, EndWith, OnceInv, OneCall, Calling, GatewayTypeOK
    <2> QED
      BY <2>1, <2>2 DEF OnceInv
  <1> QED
    BY <1>4, <1>5, <1>6, <1>7

\* A refused token, and the end of the request.
LEMMA OnceEnd ==
    ASSUME OnceInv, NEW c \in Callers,
           TokenInvalid(c) \/ Invalidate(c) \/ End(c)
    PROVE  OnceInv'
  <1> USE DEF Set, Go, dbVars, callVars
  <1>0. GatewayTypeOK
    BY DEF OnceInv
  <1>1. CASE TokenInvalid(c)
    <2>1. [denied EXCEPT ![c] = hand[c]]
              \in [Callers -> Tokens \cup {None, Gone}]
      BY <1>0 DEF GatewayTypeOK
    <2>2. /\ accepted' \subseteq Tokens
          /\ hand' \in [Callers -> Tokens \cup {None}]
          /\ denied' \in [Callers -> Tokens \cup {None, Gone}]
      BY <1>0, <1>1, <2>1, SpentTyped DEF TokenInvalid
    <2>3. CASE c \in Sessions
      <3>1. GatewayTypeOK'
        BY <1>0, <1>1, <2>2, <2>3 DEF TokenInvalid, GatewayTypeOK, Steps
      <3>2. ASSUME NEW d \in Callers PROVE OneCall(d)'
        BY <1>0, <1>1, <2>3
        DEF TokenInvalid, OnceInv, OneCall, Calling, GatewayTypeOK
      <3> QED
        BY <3>1, <3>2 DEF OnceInv
    <2>4. CASE c \notin Sessions
      <3>1. /\ attempt' \in [Callers -> 1..MaxRetries]
            /\ \/ /\ pc' = [pc EXCEPT ![c] = "ensuring"]
                  /\ result' = result
               \/ /\ pc' = [pc EXCEPT ![c] = "ending"]
                  /\ result' = [result EXCEPT ![c] = "token_error"]
        BY <1>0, <1>1, <2>4, RetryTyped DEF TokenInvalid, Results
      <3>2. view' \in [Callers -> Tokens \cup {None}]
        BY <1>0, <1>1, <2>4 DEF TokenInvalid, GatewayTypeOK
      <3>3. GatewayTypeOK'
        BY <1>0, <1>1, <2>2, <3>1, <3>2
        DEF TokenInvalid, GatewayTypeOK, Steps, Results
      <3>4. ASSUME NEW d \in Callers PROVE OneCall(d)'
        BY <1>0, <1>1, <3>1
        DEF TokenInvalid, OnceInv, OneCall, Calling, GatewayTypeOK
      <3> QED
        BY <3>3, <3>4 DEF OnceInv
    <2> QED
      BY <2>3, <2>4
  <1>2. CASE Invalidate(c)
    <2>1. /\ accepted' \subseteq Tokens
          /\ denied' \in [Callers -> Tokens \cup {None, Gone}]
      BY <1>0, <1>2, ForgetTyped DEF Invalidate, GatewayTypeOK
    <2>2. /\ attempt' \in [Callers -> 1..MaxRetries]
          /\ \/ /\ pc' = [pc EXCEPT ![c] = "ensuring"]
                /\ result' = result
             \/ /\ pc' = [pc EXCEPT ![c] = "ending"]
                /\ result' = [result EXCEPT ![c] = "token_error"]
      BY <1>0, <1>2, RetryTyped DEF Invalidate, Results
    <2>3. c \in Sessions
      BY <1>2 DEF Invalidate, OnceInv, OneCall
    <2>4. GatewayTypeOK'
      BY <1>0, <1>2, <2>1, <2>2, <2>3
      DEF Invalidate, Invalidated, GatewayTypeOK, Steps, Results
    <2>5. ASSUME NEW d \in Callers PROVE OneCall(d)'
      BY <1>0, <1>2, <2>2
      DEF Invalidate, OnceInv, OneCall, Calling, GatewayTypeOK
    <2> QED
      BY <2>4, <2>5 DEF OnceInv
  <1>3. CASE End(c)
    <2>1. [denied EXCEPT ![c] = None]
              \in [Callers -> Tokens \cup {None, Gone}]
      BY <1>0 DEF GatewayTypeOK
    <2>2. /\ accepted' \subseteq Tokens
          /\ hand' \in [Callers -> Tokens \cup {None}]
          /\ denied' \in [Callers -> Tokens \cup {None, Gone}]
      BY <1>0, <1>3, <2>1, SpentTyped DEF End
    <2>3. /\ row' \in Tokens \cup {None}
          /\ rowLock' \in Sessions \cup {Nobody}
          /\ view' \in [Callers -> Tokens \cup {None}]
      BY <1>0, <1>3 DEF End, GatewayTypeOK
    <2>4. 0 \in 0..BalanceRequests /\ 1 \in 1..MaxRetries /\ 0 \in 0..MaxRetries
      BY ClientAssumption DEF ClientAssumption
    <2>5. GatewayTypeOK'
      BY <1>0, <1>3, <2>2, <2>3, <2>4
      DEF End, GatewayTypeOK, Steps, Results, Operations
    <2>6. ASSUME NEW d \in Callers PROVE OneCall(d)'
      BY <1>0, <1>3
      DEF End, OnceInv, OneCall, Calling, GatewayTypeOK
    <2> QED
      BY <2>5, <2>6 DEF OnceInv
  <1> QED
    BY <1>1, <1>2, <1>3

\* What happens to tokens by themselves.
LEMMA OnceOthers ==
    ASSUME OnceInv,
           (\E t \in Tokens : Lapse(t) \/ Forget(t)) \/ UNCHANGED vars
    PROVE  OnceInv'
  <1> USE DEF dbVars, callVars
  <1>0. GatewayTypeOK
    BY DEF OnceInv
  <1>1. ASSUME NEW t \in Tokens, Lapse(t) PROVE OnceInv'
    <2>1. /\ accepted' \subseteq Tokens
          /\ denied' \in [Callers -> Tokens \cup {None, Gone}]
      BY <1>0, <1>1, ForgetTyped DEF Lapse, GatewayTypeOK
    <2>2. GatewayTypeOK'
      BY <1>0, <1>1, <2>1 DEF Lapse, GatewayTypeOK
    <2>3. ASSUME NEW d \in Callers PROVE OneCall(d)'
      BY <1>1 DEF Lapse, OnceInv, OneCall, Calling
    <2> QED
      BY <2>2, <2>3 DEF OnceInv
  <1>2. ASSUME NEW t \in Tokens, Forget(t) PROVE OnceInv'
    BY <1>2 DEF Forget, OnceInv, OneCall, Calling, GatewayTypeOK
  <1>3. CASE UNCHANGED vars
    BY <1>3 DEF vars, OnceInv, OneCall, Calling, GatewayTypeOK
  <1> QED
    BY <1>1, <1>2, <1>3

LEMMA OnceInvariant == Spec => []OnceInv
  <1>1. OnceInv /\ [Next]_vars => OnceInv'
    BY OnceToken, OnceAnswer, OnceEnd, OnceOthers DEF Next, CallStep
  <1> QED
    BY <1>1, OnceInit, PTL DEF Spec

\* Every variable keeps its type; in particular a call never counts more
\* attempts than _max_retries.
THEOREM GatewayTyped == Spec => []GatewayTypeOK
  <1>1. OnceInv => GatewayTypeOK
    BY DEF OnceInv
  <1> QED
    BY <1>1, OnceInvariant, PTL

\* _request carries an order out once when the call succeeds, at most once
\* when its answer is lost, and not at all when the caller is told that it
\* failed, whatever tokens expire and however often it is tried again.
THEOREM OrdersOnce == Spec => []OrderOnce
  <1>1. OnceInv => OrderOnce
    <2> SUFFICES ASSUME OnceInv, NEW c \in Callers, op[c] = "order"
                 PROVE  /\ executed[c] <= 1
                        /\ result[c] = "ok" => executed[c] = 1
                        /\ result[c] \in {"rate_limit", "token_error",
                                          "refused", "no_token"}
                             => executed[c] = 0
      BY DEF OrderOnce
    <2>1. pc[c] \in Steps
      BY DEF OnceInv, GatewayTypeOK
    <2> QED
      BY <2>1 DEF OnceInv, OneCall, Calling, Steps
  <1> QED
    BY <1>1, OnceInvariant, PTL

(***************************************************************************)
(* Refused tokens.  A call that goes on after a refusal looks at a view    *)
(* that no longer shows the refused token, and a token issued to it is one *)
(* nobody has, so it is not that token either.                             *)
(***************************************************************************)

Asking == {"ensuring", "waiting", "issuing", "saving", "sending"}

Fresh(c) ==
    /\ pc[c] \notin {"saving", "sending"} => hand[c] = None
    /\ pc[c] \in {"waiting", "issuing"} => view[c] = None
    /\ pc[c] \in {"absent", "idle"} =>
            /\ denied[c] = None
            /\ c \in Sessions => view[c] = None
    /\ denied[c] \in {None, Gone} \/ denied[c] \in InUse
    /\ denied[c] # None /\ pc[c] \in Asking => view[c] # denied[c]
    /\ denied[c] # None /\ pc[c] \in {"saving", "sending"} =>
            hand[c] # denied[c]

FreshInv == \A c \in Callers : Fresh(c)

LEMMA GoneIsNoToken == Gone \notin Tokens /\ Gone # None /\ None \notin Tokens
  BY ClientAssumption DEF Gone, Tokens, None, ClientAssumption

LEMMA InUseTyped == GatewayTypeOK => InUse \subseteq Tokens \cup {None}
  BY DEF GatewayTypeOK, InUse

\* ForgetOthers: every refused token is in use, or is Gone, which nobody has.
LEMMA ForgetLeaves ==
    ASSUME GatewayTypeOK, GatewayTypeOK', NEW refused, ForgetOthers(refused),
           NEW c \in Callers
    PROVE  /\ denied'[c] \in {None, Gone} \/ denied'[c] \in InUse'
           /\ denied'[c] \in {refused[c], Gone}
           /\ view'[c] # Gone /\ hand'[c] # Gone
  <1>1. denied'[c] = IF refused[c] \in InUse' \cup {None} THEN refused[c]
                                                         ELSE Gone
    BY DEF ForgetOthers
  <1>2. view'[c] # Gone /\ hand'[c] # Gone
    BY GoneIsNoToken DEF GatewayTypeOK
  <1> QED
    BY <1>1, <1>2

\* Steps that give no token up: what was in use still is, except None.
LEMMA StillInUse ==
    ASSUME FreshInv, UNCHANGED denied, NEW c \in Callers,
           \A t \in InUse : t # None => t \in InUse'
    PROVE  denied'[c] \in {None, Gone} \/ denied'[c] \in InUse'
  BY DEF FreshInv, Fresh

LEMMA FreshToken ==
    ASSUME OnceInv, OnceInv', FreshInv, NEW c \in Callers,
           \/ Begin(c) \/ EnsureToken(c) \/ AcquireLock(c)
           \/ AuthenticateFails(c) \/ Authenticate(c) \/ SaveToken(c)
    PROVE  FreshInv'
  <1> USE DEF Set, Go, dbVars, callVars
  <1>0. GatewayTypeOK /\ GatewayTypeOK'
    BY DEF OnceInv
  <1>1. CASE Begin(c)
    <2>1. \A t \in InUse : t # None => t \in InUse'
      BY <1>0, <1>1, InUseIs, InUseIsNext
      DEF Begin, FreshInv, Fresh, GatewayTypeOK
    <2>2. ASSUME NEW d \in Callers PROVE Fresh(d)'
      <3>1. denied'[d] \in {None, Gone} \/ denied'[d] \in InUse'
        BY <1>1, <2>1, StillInUse DEF Begin
      <3> QED
        BY <1>0, <1>1, <3>1 DEF Begin, FreshInv, Fresh, GatewayTypeOK
    <2> QED
      BY <2>2 DEF FreshInv
  <1>2. CASE EnsureToken(c) \/ AcquireLock(c)
    <2>1. PICK next \in {"sending", "waiting", "issuing"} :
              /\ pc' = [pc EXCEPT ![c] = next]
              /\ next = "sending" => hand' = [hand EXCEPT ![c] = view[c]]
              /\ next # "sending" => hand' = hand /\ view[c] = None
      BY <1>2 DEF EnsureToken, AcquireLock, Usable
    <2>2. UNCHANGED <<row, view, denied>> /\ pc[c] \in {"ensuring", "waiting"}
      BY <1>2 DEF EnsureToken, AcquireLock
    <2>3. \A t \in InUse : t # None => t \in InUse'
      BY <1>0, <2>1, <2>2, InUseIs, InUseIsNext
      DEF FreshInv, Fresh, GatewayTypeOK
    <2>4. ASSUME NEW d \in Callers PROVE Fresh(d)'
      <3>1. denied'[d] \in {None, Gone} \/ denied'[d] \in InUse'
        BY <2>2, <2>3, StillInUse
      <3>2. CASE d = c
        BY <1>0, <2>1, <2>2, <3>1, <3>2
        DEF FreshInv, Fresh, Asking, GatewayTypeOK
      <3>3. CASE d # c
        BY <1>0, <2>1, <2>2, <3>1, <3>3
        DEF FreshInv, Fresh, Asking, GatewayTypeOK
      <3> QED
        BY <3>2, <3>3
    <2> QED
      BY <2>4 DEF FreshInv
  <1>3. CASE AuthenticateFails(c)
    <2>1. InUse' = InUse
      BY <1>3 DEF AuthenticateFails, InUse
    <2>2. ASSUME NEW d \in Callers PROVE Fresh(d)'
      BY <1>0, <1>3, <2>1
      DEF AuthenticateFails, EndWith, FreshInv, Fresh, Asking, GatewayTypeOK
    <2> QED
      BY <2>2 DEF FreshInv
  <1>4. CASE Authenticate(c)
    <2> DEFINE t == Min(Tokens \ InUse)
    <2>1. t \in Tokens /\ t \notin InUse
      BY <1>4, NewToken DEF Authenticate
    <2>2. PICK next \in {"saving", "sending"} : pc' = [pc EXCEPT ![c] = next]
      BY <1>4 DEF Authenticate
    <2>3. /\ hand' = [hand EXCEPT ![c] = t]
          /\ view' \in {view, [view EXCEPT ![c] = t]}
          /\ UNCHANGED <<row, denied>> /\ pc[c] = "issuing"
      BY <1>4 DEF Authenticate
    <2>4. view[c] = None /\ hand[c] = None
      BY <2>3 DEF FreshInv, Fresh
    <2> HIDE DEF t
    <2>5. \A u \in InUse : u # None => u \in InUse'
      BY <1>0, <2>3, <2>4, InUseIs, InUseIsNext DEF GatewayTypeOK
    <2>6. \A d \in Callers : denied[d] # t
      <3>1. t # None /\ t # Gone
        BY <2>1, GoneIsNoToken
      <3> QED
        BY <2>1, <3>1 DEF FreshInv, Fresh
    <2>7. ASSUME NEW d \in Callers PROVE Fresh(d)'
      <3>1. denied'[d] \in {None, Gone} \/ denied'[d] \in InUse'
        BY <2>3, <2>5, StillInUse
      <3>2. CASE d = c
        <4>1. /\ hand'[c] = t /\ view'[c] \in {None, t}
              /\ pc'[c] \in {"saving", "sending"}
              /\ denied'[c] = denied[c] /\ denied[c] # t
          BY <1>0, <2>2, <2>3, <2>4, <2>6 DEF GatewayTypeOK
        <4> QED
          BY <3>1, <3>2, <4>1 DEF Fresh
      <3>3. CASE d # c
        <4>1. /\ hand'[d] = hand[d] /\ view'[d] = view[d]
              /\ pc'[d] = pc[d] /\ denied'[d] = denied[d]
          BY <1>0, <2>2, <2>3, <3>3 DEF GatewayTypeOK
        <4> QED
          BY <3>1, <4>1 DEF FreshInv, Fresh
      <3> QED
        BY <3>2, <3>3
    <2> QED
      BY <2>7 DEF FreshInv
  <1>5. CASE SaveToken(c)
    <2>1. ASSUME NEW d \in Callers PROVE Fresh(d)'
      <3>1. /\ denied'[d] \in {None, Gone} \/ denied'[d] \in InUse'
            /\ denied'[d] \in {denied[d], Gone}
            /\ view'[d] # Gone /\ hand'[d] # Gone
        BY <1>0, <1>5, ForgetLeaves DEF SaveToken
      <3>2. denied[d] = None => denied'[d] = None
        BY <1>5 DEF SaveToken, ForgetOthers
      <3>3. CASE d = c
        <4>1. /\ view'[c] = hand[c] /\ hand'[c] = hand[c]
              /\ pc[c] = "saving" /\ pc'[c] = "sending"
          BY <1>0, <1>5 DEF SaveToken, GatewayTypeOK
        <4> QED
          BY <3>1, <3>2, <3>3, <4>1 DEF FreshInv, Fresh
      <3>4. CASE d # c
        <4>1. /\ view'[d] = view[d] /\ hand'[d] = hand[d] /\ pc'[d] = pc[d]
          BY <1>0, <1>5, <3>4 DEF SaveToken, GatewayTypeOK
        <4> QED
          BY <3>1, <3>2, <4>1 DEF FreshInv, Fresh
      <3> QED
        BY <3>3, <3>4
    <2> QED
      BY <2>1 DEF FreshInv
  <1> QED
    BY <1>1, <1>2, <1>3, <1>4, <1>5

\* The end of one HTTP request, for the callers that did not send it.
LEMMA FreshElsewhere ==
    ASSUME GatewayTypeOK, GatewayTypeOK', FreshInv, NEW c \in Callers,
           NEW d \in Callers, d # c, NEW refused, ForgetOthers(refused),
           refused[d] = denied[d],
           pc'[d] = pc[d], view'[d] = view[d], hand'[d] = hand[d]
    PROVE  Fresh(d)'
  <1>1. /\ denied'[d] \in {None, Gone} \/ denied'[d] \in InUse'
        /\ denied'[d] \in {denied[d], Gone}
        /\ view'[d] # Gone /\ hand'[d] # Gone
    BY ForgetLeaves
  <1>2. denied[d] = None => denied'[d] = None
    BY DEF ForgetOthers
  <1> QED
    BY <1>1, <1>2 DEF FreshInv, Fresh

LEMMA FreshAnswer ==
    ASSUME OnceInv, OnceInv', FreshInv, NEW c \in Callers,
           Answered(c) \/ Lost(c) \/ RateLimited(c) \/ Refused(c)
    PROVE  FreshInv'
  <1> USE DEF Set, Go, dbVars, callVars
  <1>0. GatewayTypeOK /\ GatewayTypeOK'
    BY DEF OnceInv
  <1>1. /\ UNCHANGED view /\ Spent(c, denied) /\ pc[c] = "sending"
        /\ \E next \in {"ending", "ensuring"} : pc' = [pc EXCEPT ![c] = next]
    BY <1>0, RetryTyped
    DEF Answered, Lost, LostEnds, RateLimited, Refused, EndWith, Results
  <1>2. ForgetOthers(denied) /\ hand' = [hand EXCEPT ![c] = None]
    BY <1>1 DEF Spent
  <1>3. ASSUME NEW d \in Callers PROVE Fresh(d)'
    <2>1. CASE d = c
      <3>1. /\ denied'[c] \in {None, Gone} \/ denied'[c] \in InUse'
            /\ denied'[c] \in {denied[c], Gone}
            /\ view'[c] # Gone /\ hand'[c] # Gone
        BY <1>0, <1>2, ForgetLeaves
      <3>2. denied[c] = None => denied'[c] = None
        BY <1>2 DEF ForgetOthers
      <3>3. /\ pc'[c] \in {"ending", "ensuring"} /\ hand'[c] = None
            /\ view'[c] = view[c]
        BY <1>0, <1>1, <1>2 DEF GatewayTypeOK
      <3> QED
        BY <1>1, <2>1, <3>1, <3>2, <3>3 DEF FreshInv, Fresh, Asking
    <2>2. CASE d # c
      <3>1. pc'[d] = pc[d] /\ view'[d] = view[d] /\ hand'[d] = hand[d]
        BY <1>0, <1>1, <1>2, <2>2 DEF GatewayTypeOK
      <3> QED
        BY <1>0, <1>2, <2>2, <3>1, FreshElsewhere
    <2> QED
      BY <2>1, <2>2
  <1> QED
    BY <1>3 DEF FreshInv

LEMMA FreshEnd ==
    ASSUME OnceInv, OnceInv', FreshInv, NEW c \in Callers,
           TokenInvalid(c) \/ Invalidate(c) \/ End(c)
    PROVE  FreshInv'
  <1> USE DEF Set, Go, dbVars, callVars
  <1>0. GatewayTypeOK /\ GatewayTypeOK' /\ Callers = Sessions \cup Standalone
    BY DEF OnceInv, Callers
  <1>1. CASE TokenInvalid(c)
    <2> DEFINE refused == [denied EXCEPT ![c] = hand[c]]
    <2>1. /\ ForgetOthers(refused) /\ hand' = [hand EXCEPT ![c] = None]
          /\ refused \in [Callers -> Tokens \cup {None, Gone}]
      BY <1>0, <1>1 DEF TokenInvalid, Spent, GatewayTypeOK
    <2>2. \/ pc' = [pc EXCEPT ![c] = "invalidating"] /\ view' = view
          \/ pc' = [pc EXCEPT ![c] = "ending"] /\ view' = view
          \/ /\ pc' = [pc EXCEPT ![c] = "ensuring"]
             /\ view' = [view EXCEPT ![c] = None]
      <3>1. CASE c \in Sessions
        BY <1>1, <3>1 DEF TokenInvalid
      <3>2. CASE c \notin Sessions
        <4>1. ~(MaxRetries < MaxRetries)
          BY ClientAssumption DEF ClientAssumption
        <4> QED
          BY <1>1, <3>2, <4>1 DEF TokenInvalid, RetryOr, TryAgain, EndWith
      <3> QED
        BY <3>1, <3>2
    <2>3. ASSUME NEW d \in Callers PROVE Fresh(d)'
      <3>1. CASE d = c
        <4>1. denied'[c] \in {None, Gone} \/ denied'[c] \in InUse'
          BY <1>0, <2>1, ForgetLeaves
        <4>2. /\ pc'[c] \in {"invalidating", "ending", "ensuring"}
              /\ hand'[c] = None
              /\ pc'[c] = "ensuring" => view'[c] = None
          BY <1>0, <2>1, <2>2 DEF GatewayTypeOK
        <4> QED
          BY <3>1, <4>1, <4>2 DEF Fresh, Asking
      <3>2. CASE d # c
        <4>1. /\ pc'[d] = pc[d] /\ view'[d] = view[d] /\ hand'[d] = hand[d]
              /\ refused[d] = denied[d]
          BY <1>0, <2>1, <2>2, <3>2 DEF GatewayTypeOK
        <4> QED
          BY <1>0, <2>1, <3>2, <4>1, FreshElsewhere
      <3> QED
        BY <3>1, <3>2
    <2> QED
      BY <2>3 DEF FreshInv
  <1>2. CASE Invalidate(c)
    <2>1. /\ ForgetOthers(denied) /\ UNCHANGED hand
          /\ view' = [view EXCEPT ![c] = None] /\ pc[c] = "invalidating"
          /\ \E next \in {"ending", "ensuring"} :
                pc' = [pc EXCEPT ![c] = next]
      BY <1>0, <1>2, RetryTyped DEF Invalidate, Invalidated, Results
    <2>2. ASSUME NEW d \in Callers PROVE Fresh(d)'
      <3>1. CASE d = c
        <4>1. denied'[c] \in {None, Gone} \/ denied'[c] \in InUse'
          BY <1>0, <2>1, ForgetLeaves
        <4>2. /\ pc'[c] \in {"ending", "ensuring"} /\ view'[c] = None
              /\ hand'[c] = None
          BY <1>0, <2>1 DEF GatewayTypeOK, FreshInv, Fresh
        <4> QED
          BY <3>1, <4>1, <4>2 DEF Fresh, Asking
      <3>2. CASE d # c
        <4>1. pc'[d] = pc[d] /\ view'[d] = view[d] /\ hand'[d] = hand[d]
          BY <1>0, <2>1, <3>2 DEF GatewayTypeOK
        <4> QED
          BY <1>0, <2>1, <3>2, <4>1, FreshElsewhere
      <3> QED
        BY <3>1, <3>2
    <2> QED
      BY <2>2 DEF FreshInv
  <1>3. CASE End(c)
    <2> DEFINE refused == [denied EXCEPT ![c] = None]
    <2>1. /\ ForgetOthers(refused) /\ hand' = [hand EXCEPT ![c] = None]
          /\ refused \in [Callers -> Tokens \cup {None, Gone}]
          /\ view' = IF c \in Sessions THEN [view EXCEPT ![c] = None] ELSE view
          /\ pc' = [pc EXCEPT ![c] = "idle"]
      BY <1>0, <1>3 DEF End, Spent, GatewayTypeOK
    <2>2. ASSUME NEW d \in Callers PROVE Fresh(d)'
      <3>1. CASE d = c
        <4>1. denied'[c] = None
          BY <1>0, <2>1 DEF ForgetOthers, GatewayTypeOK
        <4>2. /\ pc'[c] = "idle" /\ hand'[c] = None
              /\ c \in Sessions => view'[c] = None
          BY <1>0, <2>1 DEF GatewayTypeOK
        <4> QED
          BY <3>1, <4>1, <4>2 DEF Fresh, Asking
      <3>2. CASE d # c
        <4>1. /\ pc'[d] = pc[d] /\ view'[d] = view[d] /\ hand'[d] = hand[d]
          BY <1>0, <2>1, <3>2 DEF GatewayTypeOK
        <4>2. refused[d] = denied[d]
          BY <1>0, <3>2 DEF GatewayTypeOK
        <4> QED
          BY <1>0, <2>1, <3>2, <4>1, <4>2, FreshElsewhere
      <3> QED
        BY <3>1, <3>2
    <2> QED
      BY <2>2 DEF FreshInv
  <1> QED
    BY <1>1, <1>2, <1>3

LEMMA FreshOthers ==
    ASSUME OnceInv, OnceInv', FreshInv,
           (\E t \in Tokens : Lapse(t) \/ Forget(t)) \/ UNCHANGED vars
    PROVE  FreshInv'
  <1> USE DEF dbVars, callVars
  <1>0. GatewayTypeOK /\ GatewayTypeOK'
    BY DEF OnceInv
  <1>1. ASSUME NEW t \in Tokens, Lapse(t), NEW d \in Callers PROVE Fresh(d)'
    <2>1. /\ denied'[d] \in {None, Gone} \/ denied'[d] \in InUse'
          /\ denied'[d] \in {denied[d], Gone}
          /\ view'[d] # Gone /\ hand'[d] # Gone
      BY <1>0, <1>1, ForgetLeaves DEF Lapse
    <2>2. denied[d] = None => denied'[d] = None
      BY <1>1 DEF Lapse, ForgetOthers
    <2>3. /\ pc'[d] = pc[d] /\ hand'[d] = hand[d]
          /\ view'[d] \in {None, view[d]}
      BY <1>1 DEF Lapse
    <2>4. denied'[d] = denied[d] \/ denied'[d] \in {None, Gone}
      BY <2>1
    <2> QED
      BY <2>1, <2>2, <2>3, <2>4, GoneIsNoToken DEF FreshInv, Fresh, Asking
  <1>2. ASSUME NEW t \in Tokens, Forget(t) PROVE FreshInv'
    BY <1>2 DEF Forget, FreshInv, Fresh, InUse
  <1>3. CASE UNCHANGED vars
    BY <1>3 DEF vars, FreshInv, Fresh, InUse
  <1> QED
    BY <1>1, <1>2, <1>3 DEF FreshInv

\* A token the broker has refused is not sent again by the same call
\* (_invalidate_cached_token before the retry), on any attempt, by a request
\* with a session or a script, whatever other requests do with the row.
THEOREM RefusedNotResent == Spec => []RefusedTokenNotResent
  <1>1. Init => FreshInv
    <2> SUFFICES ASSUME Init, NEW c \in Callers PROVE Fresh(c)
      BY DEF FreshInv
    <2>1. pc[c] \in {"absent", "idle"}
      BY DEF Init
    <2> QED
      BY <2>1 DEF Init, Fresh, Asking
  <1>2. OnceInv /\ OnceInv' /\ FreshInv /\ [Next]_vars => FreshInv'
    BY FreshToken, FreshAnswer, FreshEnd, FreshOthers DEF Next, CallStep
  <1>3. FreshInv => RefusedTokenNotResent
    BY DEF FreshInv, Fresh, RefusedTokenNotResent
  <1> QED
    BY <1>1, <1>2, <1>3, OnceInvariant, PTL DEF Spec

(***************************************************************************)
(* The two locks.  A request that holds the row and has not been refused   *)
(* has saved a token it can use: it sends, looks its token up or ends, and *)
(* waits for nothing.  The holder of the mutex issues or saves, so at most *)
(* it waits for the row, and a chain of waits ends there.                  *)
(***************************************************************************)

Locked(c) ==
    /\ mutex = c => pc[c] \in {"issuing", "saving"}
    /\ rowLock = c => pc[c] \notin {"absent", "idle"}
    /\ rowLock = c /\ denied[c] = None =>
            view[c] # None /\ pc[c] \in {"ensuring", "sending", "ending"}
    /\ pc[c] = "invalidating" => denied[c] # None
    /\ pc[c] \in {"saving", "sending"} => hand[c] # None

LocksInv == \A c \in Sessions : Locked(c)

\* What a call may wait for: the mutex, or the row of another transaction.
Waits(c) == \/ pc[c] = "waiting" /\ mutex # Nobody
            \/ pc[c] \in {"saving", "invalidating"} /\ ~RowIsFree(c)

\* SomeoneProceeds without ENABLED: as long as no request has been refused
\* its token, not every call under way waits.
SomeoneDoesNotWait ==
    /\ \E c \in Callers : pc[c] \notin {"absent", "idle"}
    /\ \A c \in Sessions : denied[c] = None
    => \E c \in Callers : pc[c] \notin {"absent", "idle"} /\ ~Waits(c)

\* The requests that do not move.
LEMMA LockedElsewhere ==
    ASSUME LocksInv, NEW d \in Sessions,
           mutex' = d => mutex = d, rowLock' = d => rowLock = d,
           (denied'[d] = None) <=> (denied[d] = None),
           pc'[d] = pc[d], view'[d] = view[d], hand'[d] = hand[d]
    PROVE  Locked(d)'
  BY DEF LocksInv, Locked

LEMMA ForgetKeepsNone ==
    ASSUME NEW refused, ForgetOthers(refused), NEW c \in Callers
    PROVE  (denied'[c] = None) <=> (refused[c] = None)
  BY GoneIsNoToken DEF ForgetOthers

LEMMA ForgetOneKeepsNone ==
    ASSUME GatewayTypeOK, NEW c \in Callers, NEW t,
           ForgetOthers([denied EXCEPT ![c] = t])
    PROVE  /\ (denied'[c] = None) <=> (t = None)
           /\ \A d \in Callers \ {c} :
                 (denied'[d] = None) <=> (denied[d] = None)
  <1> DEFINE refused == [denied EXCEPT ![c] = t]
  <1>1. /\ refused[c] = t
        /\ \A d \in Callers \ {c} : refused[d] = denied[d]
    BY DEF GatewayTypeOK
  <1> HIDE DEF refused
  <1>2. \A d \in Callers : (denied'[d] = None) <=> (refused[d] = None)
    BY ForgetKeepsNone DEF refused
  <1> QED
    BY <1>1, <1>2

\* The way to a token.
LEMMA LocksToken ==
    ASSUME OnceInv, OnceInv', LocksInv, NEW c \in Callers,
           \/ Begin(c) \/ EnsureToken(c) \/ AcquireLock(c)
           \/ AuthenticateFails(c) \/ Authenticate(c)
    PROVE  LocksInv'
  <1> USE DEF Set, Go, dbVars, callVars
  <1>0. GatewayTypeOK /\ Sessions \subseteq Callers /\ UNCHANGED <<row, rowLock, denied>>
    BY DEF OnceInv, Callers, Begin, EnsureToken, AcquireLock,
           AuthenticateFails, Authenticate
  <1>1. /\ mutex' \in {mutex, c, Nobody}
        /\ \A d \in Callers \ {c} : /\ pc'[d] = pc[d] /\ view'[d] = view[d]
                                    /\ hand'[d] = hand[d]
    BY <1>0 DEF Begin, EnsureToken, AcquireLock, AuthenticateFails,
                Authenticate, EndWith, LockLeft, GatewayTypeOK
  <1>2. ASSUME NEW d \in Sessions, d # c PROVE Locked(d)'
    BY <1>0, <1>1, <1>2, NobodyAssumption, LockedElsewhere DEF NobodyAssumption
  <1>3. ASSUME c \in Sessions PROVE Locked(c)'
    <2>0. Locked(c) /\ c # Nobody /\ OneCall(c)
      BY <1>0, <1>3, NobodyAssumption
      DEF LocksInv, NobodyAssumption, OnceInv
    <2>1. CASE Begin(c)
      BY <1>0, <2>0, <2>1 DEF Begin, Locked, GatewayTypeOK
    <2>2. CASE EnsureToken(c)
      BY <1>0, <1>3, <2>0, <2>2
      DEF EnsureToken, Usable, Locked, GatewayTypeOK
    <2>3. CASE AcquireLock(c)
      BY <1>0, <1>3, <2>0, <2>3
      DEF AcquireLock, Usable, Locked, GatewayTypeOK
    <2>4. CASE AuthenticateFails(c)
      BY <1>0, <2>0, <2>4
      DEF AuthenticateFails, EndWith, LockLeft, Locked, GatewayTypeOK
    <2>5. CASE Authenticate(c)
      <3>1. PICK t \in Tokens : hand' = [hand EXCEPT ![c] = t]
        BY <2>5, NewToken DEF Authenticate
      <3>2. /\ pc' = [pc EXCEPT ![c] = "saving"] /\ pc[c] = "issuing"
            /\ UNCHANGED mutex
        BY <1>3, <2>5 DEF Authenticate
      <3>3. hand'[c] # None /\ pc'[c] = "saving"
        BY <1>0, <3>1, <3>2, GoneIsNoToken DEF GatewayTypeOK
      <3> QED
        BY <1>0, <2>0, <3>2, <3>3 DEF Locked
    <2> QED
      BY <2>1, <2>2, <2>3, <2>4, <2>5
  <1> QED
    BY <1>2, <1>3 DEF LocksInv

\* Saving and invalidating take the row, sending leaves the locks alone and
\* the end gives the row back.
LEMMA LocksRequest ==
    ASSUME OnceInv, OnceInv', LocksInv, NEW c \in Callers,
           \/ SaveToken(c) \/ Answered(c) \/ Lost(c) \/ RateLimited(c)
           \/ Refused(c) \/ TokenInvalid(c) \/ Invalidate(c) \/ End(c)
    PROVE  LocksInv'
  <1> USE DEF Set, Go, dbVars, callVars
  <1>0. GatewayTypeOK /\ GatewayTypeOK' /\ Sessions \subseteq Callers
    BY DEF OnceInv, Callers
  <1>1. ASSUME Answered(c) \/ Lost(c) \/ RateLimited(c) \/ Refused(c)
        PROVE  /\ UNCHANGED <<mutex, rowLock, view>> /\ Spent(c, denied)
               /\ pc[c] = "sending"
               /\ \E next \in {"ending", "ensuring"} :
                     pc' = [pc EXCEPT ![c] = next]
    BY <1>0, <1>1, RetryTyped
    DEF Answered, Lost, LostEnds, RateLimited, Refused, EndWith, Results
  <1>2. ASSUME TokenInvalid(c), c \in Sessions
        PROVE  /\ UNCHANGED <<mutex, rowLock, view>>
               /\ Spent(c, [denied EXCEPT ![c] = hand[c]])
               /\ pc[c] = "sending" /\ pc' = [pc EXCEPT ![c] = "invalidating"]
    BY <1>2 DEF TokenInvalid
  <1>3. ASSUME TokenInvalid(c), c \notin Sessions
        PROVE  /\ UNCHANGED <<mutex, rowLock>>
               /\ Spent(c, [denied EXCEPT ![c] = hand[c]])
               /\ \A d \in Callers \ {c} : pc'[d] = pc[d] /\ view'[d] = view[d]
    BY <1>0, <1>3, RetryTyped DEF TokenInvalid, Results, GatewayTypeOK
  <1>4. ASSUME Invalidate(c)
        PROVE  /\ rowLock' = c /\ UNCHANGED <<mutex, hand>>
               /\ ForgetOthers(denied) /\ view' = [view EXCEPT ![c] = None]
               /\ pc[c] = "invalidating"
               /\ \E next \in {"ending", "ensuring"} :
                     pc' = [pc EXCEPT ![c] = next]
    BY <1>0, <1>4, RetryTyped DEF Invalidate, Invalidated, Results
  <1>5. /\ mutex' \in {mutex, Nobody} /\ rowLock' \in {rowLock, c, Nobody}
        /\ \A d \in Callers \ {c} :
              /\ pc'[d] = pc[d] /\ view'[d] = view[d] /\ hand'[d] = hand[d]
              /\ (denied'[d] = None) <=> (denied[d] = None)
    <2>1. CASE Answered(c) \/ Lost(c) \/ RateLimited(c) \/ Refused(c)
      BY <1>0, <1>1, <2>1, ForgetKeepsNone DEF Spent, GatewayTypeOK
    <2>2. CASE TokenInvalid(c)
      <3>1. /\ UNCHANGED <<mutex, rowLock>>
            /\ Spent(c, [denied EXCEPT ![c] = hand[c]])
            /\ \A d \in Callers \ {c} : pc'[d] = pc[d] /\ view'[d] = view[d]
        BY <1>0, <1>2, <1>3, <2>2 DEF GatewayTypeOK
      <3>2. ForgetOthers([denied EXCEPT ![c] = hand[c]])
            /\ hand' = [hand EXCEPT ![c] = None]
        BY <3>1 DEF Spent
      <3> QED
        BY <1>0, <3>1, <3>2, ForgetOneKeepsNone DEF GatewayTypeOK
    <2>3. CASE Invalidate(c)
      BY <1>0, <1>4, <2>3, ForgetKeepsNone DEF GatewayTypeOK
    <2>4. CASE SaveToken(c)
      BY <1>0, <2>4, ForgetKeepsNone DEF SaveToken, LockLeft, GatewayTypeOK
    <2>5. CASE End(c)
      <3>1. /\ mutex' = mutex /\ rowLock' \in {rowLock, Nobody}
            /\ \A d \in Callers \ {c} : pc'[d] = pc[d] /\ view'[d] = view[d]
        BY <1>0, <2>5 DEF End, GatewayTypeOK
      <3>2. ForgetOthers([denied EXCEPT ![c] = None])
            /\ hand' = [hand EXCEPT ![c] = None]
        BY <2>5 DEF End, Spent
      <3> QED
        BY <1>0, <3>1, <3>2, ForgetOneKeepsNone DEF GatewayTypeOK
    <2> QED
      BY <2>1, <2>2, <2>3, <2>4, <2>5
  <1>6. ASSUME NEW d \in Sessions, d # c PROVE Locked(d)'
    BY <1>0, <1>5, <1>6, NobodyAssumption, LockedElsewhere DEF NobodyAssumption
  <1>7. ASSUME c \in Sessions PROVE Locked(c)'
    <2>0. Locked(c) /\ c # Nobody
      BY <1>0, <1>7, NobodyAssumption DEF LocksInv, NobodyAssumption
    <2>1. CASE Answered(c) \/ Lost(c) \/ RateLimited(c) \/ Refused(c)
      BY <1>0, <1>1, <2>0, <2>1, ForgetKeepsNone
      DEF Spent, Locked, GatewayTypeOK
    <2>2. CASE TokenInvalid(c)
      <3>1. /\ ForgetOthers([denied EXCEPT ![c] = hand[c]])
            /\ hand[c] # None
        BY <1>2, <1>7, <2>0, <2>2 DEF Spent, Locked
      <3>2. denied'[c] # None
        BY <1>0, <3>1, ForgetOneKeepsNone
      <3>3. pc[c] = "sending" /\ pc'[c] = "invalidating"
        BY <1>0, <1>2, <1>7, <2>2 DEF GatewayTypeOK
      <3> QED
        BY <1>2, <1>7, <2>0, <2>2, <3>2, <3>3 DEF Locked
    <2>3. CASE Invalidate(c)
      <3>1. denied'[c] # None
        BY <1>0, <1>4, <2>0, <2>3, ForgetKeepsNone DEF Locked
      <3> QED
        BY <1>0, <1>4, <2>0, <2>3, <3>1 DEF Locked, GatewayTypeOK
    <2>4. CASE SaveToken(c)
      <3>1. /\ pc[c] = "saving" /\ pc' = [pc EXCEPT ![c] = "sending"]
            /\ rowLock' = c /\ mutex' = LockLeft(c) /\ hand' = hand
            /\ view' = [view EXCEPT ![c] = hand[c]]
        BY <2>4 DEF SaveToken
      <3> QED
        BY <1>0, <2>0, <3>1 DEF Locked, LockLeft, GatewayTypeOK
    <2>5. CASE End(c)
      <3>1. /\ pc[c] = "ending" /\ pc' = [pc EXCEPT ![c] = "idle"]
            /\ rowLock' = (IF rowLock = c THEN Nobody ELSE rowLock)
            /\ mutex' = mutex
        BY <2>5 DEF End
      <3> QED
        BY <1>0, <2>0, <3>1 DEF Locked, GatewayTypeOK
    <2> QED
      BY <2>1, <2>2, <2>3, <2>4, <2>5
  <1> QED
    BY <1>6, <1>7 DEF LocksInv

LEMMA LocksOthers ==
    ASSUME OnceInv, LocksInv,
           (\E t \in Tokens : Lapse(t) \/ Forget(t)) \/ UNCHANGED vars
    PROVE  LocksInv'
  <1> USE DEF dbVars, callVars
  <1>1. ASSUME NEW t \in Tokens, Lapse(t), NEW d \in Sessions PROVE Locked(d)'
    <2>1. /\ UNCHANGED <<mutex, rowLock, pc, hand>> /\ ForgetOthers(denied)
          /\ view'[d] = IF view[d] = t THEN None ELSE view[d]
          /\ rowLock = d => view[d] # t
      BY <1>1 DEF Lapse, IssuedUnderWay, Callers
    <2>2. (denied'[d] = None) <=> (denied[d] = None)
      BY <2>1, ForgetKeepsNone DEF Callers
    <2> QED
      BY <2>1, <2>2 DEF LocksInv, Locked
  <1>2. ASSUME NEW t \in Tokens, Forget(t) PROVE LocksInv'
    BY <1>2 DEF Forget, LocksInv, Locked
  <1>3. CASE UNCHANGED vars
    BY <1>3 DEF vars, LocksInv, Locked
  <1> QED
    BY <1>1, <1>2, <1>3 DEF LocksInv

LEMMA LocksInvariant == Spec => []LocksInv
  <1>1. Init => LocksInv
    <2> SUFFICES ASSUME Init, NEW c \in Sessions PROVE Locked(c)
      BY DEF LocksInv
    <2>1. /\ mutex # c /\ rowLock # c /\ c \in Callers
      BY NobodyAssumption DEF Init, NobodyAssumption, Callers
    <2>2. pc[c] \in {"idle", "absent"}
      BY <2>1 DEF Init
    <2> QED
      BY <2>1, <2>2 DEF Locked
  <1>2. OnceInv /\ OnceInv' /\ LocksInv /\ [Next]_vars => LocksInv'
    BY LocksToken, LocksRequest, LocksOthers DEF Next, CallStep
  <1> QED
    BY <1>1, <1>2, OnceInvariant, PTL DEF Spec

\* The two locks never bring the calls to a standstill, for any number of
\* requests and scripts: while no request has been refused its token, a
\* caller waits for the mutex of one that may wait for the row of one that
\* waits for nothing.
THEOREM LocksLetSomeoneGo == Spec => []SomeoneDoesNotWait
  <1>1. OnceInv /\ LocksInv => SomeoneDoesNotWait
    <2> SUFFICES ASSUME OnceInv, LocksInv,
                        NEW a \in Callers, pc[a] \notin {"absent", "idle"},
                        \A c \in Sessions : denied[c] = None,
                        \A c \in Callers :
                            pc[c] \notin {"absent", "idle"} => Waits(c)
                 PROVE  FALSE
      BY DEF SomeoneDoesNotWait
    <2>0. /\ Sessions \subseteq Callers
          /\ mutex \in Sessions \cup {Nobody}
          /\ rowLock \in Sessions \cup {Nobody}
      BY DEF OnceInv, GatewayTypeOK, Callers
    <2>1. \A c \in Sessions : rowLock # c
      BY <2>0 DEF LocksInv, Locked, Waits
    <2>2. rowLock = Nobody
      BY <2>0, <2>1
    <2>3. \A c \in Sessions : mutex # c
      BY <2>0, <2>2 DEF LocksInv, Locked, Waits, RowIsFree
    <2>4. mutex = Nobody
      BY <2>0, <2>3
    <2> QED
      BY <2>2, <2>4 DEF Waits, RowIsFree
  <1> QED
    BY <1>1, OnceInvariant, LocksInvariant, PTL
=============================================================================
