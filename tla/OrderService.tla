---------------------------- MODULE OrderService ----------------------------
(***************************************************************************)
(* The orders of the API server: an order request of api/v1/orders.py or   *)
(* an executed signal of ai/engine.py on its way through the checks of     *)
(* drawdown_guard.run_all_checks, the broker and its database transaction, *)
(* beside the stop commands of KillSwitch and the executions that          *)
(* api/v1/realtime.py receives.                                            *)
(*                                                                         *)
(* Requests interleave at every await.  A request works on its own         *)
(* uncommitted row; the others see it only after the commit that ends the  *)
(* request.                                                                *)
(***************************************************************************)
EXTENDS KillSwitch, FiniteSets, Functions

CONSTANTS
    Orders,          \* ids of order requests (bound)
    Requests,        \* what a request may ask for, see RequestAssumption
    Limit,           \* strategy.max_investment
    DefaultLimit,    \* max_investment of an order without a strategy
    MaxOrderAmount,  \* MAX_ORDER_AMOUNT
    MaxDailyOrders,  \* MAX_DAILY_ORDERS
    MaxConcurrent,   \* bound on requests under way at the same time
    StopUsers,       \* bound: users who use the stop endpoints
    BrokerFaults     \* may the broker refuse an order or lose a reply?

TradingStrategies == DOMAIN Limit
NoStrategy        == "none"              \* strategy_id is None
Purposes          == TradingStrategies \cup {NoStrategy}
LimitOf(st)       == IF st = NoStrategy THEN DefaultLimit ELSE Limit[st]

ASSUME OrdersAssumption == IsFiniteSet(Orders)
ASSUME RequestAssumption ==
    Requests \subseteq [user : Users, side : {"buy", "sell"},
                        strategy : Purposes,
                        amount : Nat \ {0}, origin : {"api", "ai"}]
ASSUME LimitAssumption ==
    /\ Limit \in [TradingStrategies -> Nat] /\ DefaultLimit \in Nat
    /\ MaxOrderAmount \in Nat /\ MaxDailyOrders \in Nat \ {0}
    /\ MaxConcurrent \in Nat \ {0} /\ BrokerFaults \in BOOLEAN
    /\ StopUsers \subseteq Users

VARIABLES
    pc,        \* where each request is, see Steps
    req,       \* what it asks for
    seen,      \* the invested sum it read
    working,   \* the status of its own uncommitted row
    table,     \* the committed rows: a status or "absent"
    today,     \* rows created today
    market,    \* the broker's order: "none", "live", "partial" or "filled"
    event,     \* an execution report on its way to the bridge
    stopHeld,  \* history: the user has been stopped ever since the request
    cutOff     \* history: orders whose reply or commit was lost

orderVars == <<pc, req, seen, working, table, today, market, event, cutOff>>
allVars   == <<switchVars, orderVars, stopHeld>>

Steps == {"none", "arrived", "read", "counting", "placing", "replying",
          "committing", "done", "refused"}
UnderWay == {"arrived", "read", "counting", "placing", "replying",
             "committing"}
OrderStatus == {"created", "submitted", "accepted", "partial_fill", "filled",
                "rejected", "cancelled", "expired", "failed"}
NoRequest == [user |-> "nobody", side |-> "none", strategy |-> NoStrategy,
              amount |-> 0, origin |-> "none"]

OrderTypeOK ==
    /\ SwitchTypeOK
    /\ pc \in [Orders -> Steps]
    /\ req \in [Orders -> Requests \cup {NoRequest}]
    /\ seen \in [Orders -> Nat]
    /\ working \in [Orders -> OrderStatus]
    /\ table \in [Orders -> OrderStatus \cup {"absent"}]
    /\ today \subseteq Orders /\ cutOff \subseteq Orders
    /\ market \in [Orders -> {"none", "live", "partial", "filled"}]
    /\ event \in [Orders -> {"none", "partial", "filled"}]
    /\ stopHeld \in [Orders -> BOOLEAN]

Init ==
    /\ SwitchInit
    /\ pc = [o \in Orders |-> "none"]
    /\ req = [o \in Orders |-> NoRequest]
    /\ seen = [o \in Orders |-> 0]
    /\ working = [o \in Orders |-> "created"]
    /\ table = [o \in Orders |-> "absent"]
    /\ today = {} /\ cutOff = {}
    /\ market = [o \in Orders |-> "none"]
    /\ event = [o \in Orders |-> "none"]
    /\ stopHeld = [o \in Orders |-> TRUE]

Go(o, step) == pc' = [pc EXCEPT ![o] = step]

\* Kept by every step: a request that is there was stopped all along.
RememberStops ==
    stopHeld' = [o \in Orders |->
        \/ pc'[o] = "none"
        \/ /\ stopHeld[o]
           /\ \E u \in Users : u = req'[o].user /\ Blocked(u)']

-----------------------------------------------------------------------------
(* order_state.py                                                          *)

ValidTransitions ==
    [s \in OrderStatus |->
        CASE s = "created"      -> {"submitted", "failed"}
          [] s = "submitted"    -> {"accepted", "rejected", "failed"}
          [] s = "accepted"     -> {"filled", "partial_fill", "cancelled",
                                    "expired", "failed"}
          [] s = "partial_fill" -> {"filled", "cancelled", "failed"}
          [] OTHER              -> {}]

CanTransition(current, target) ==
    current \in OrderStatus /\ target \in ValidTransitions[current]

-----------------------------------------------------------------------------
(* create_order                                                            *)

Arrive(o) ==
    /\ pc[o] = "none"
    /\ Cardinality({p \in Orders : pc[p] \in UnderWay}) < MaxConcurrent
    /\ \E r \in Requests : req' = [req EXCEPT ![o] = r]
    /\ Go(o, "arrived")
    /\ UNCHANGED <<switchVars, seen, working, table, today, market, event,
                   cutOff>>
    /\ RememberStops

CountedAsInvested == {"submitted", "accepted", "partial_fill", "filled"}

\* The committed orders of a user for a strategy, sells and buys alike.
OrdersFor(u, st) ==
    {o \in Orders : /\ table[o] \in CountedAsInvested
                    /\ req[o].user = u /\ req[o].strategy = st}
SumOf(S) == SumFunctionOnSet([o \in Orders |-> req[o].amount], S)

\* What is read for the check: without a strategy, all orders of the user.
InvestedOrders(u, st) ==
    IF st = NoStrategy THEN UNION {OrdersFor(u, other) : other \in Purposes}
                       ELSE OrdersFor(u, st)
Invested(u, st) == SumOf(InvestedOrders(u, st))

ReadInvested(o) ==
    /\ pc[o] = "arrived"
    /\ seen' = [seen EXCEPT ![o] = Invested(req[o].user, req[o].strategy)]
    /\ Go(o, "read")
    /\ UNCHANGED <<switchVars, req, working, table, today, market, event,
                   cutOff>>
    /\ RememberStops

\* check_level1 and check_level2, with the sum that was read.
WithoutThisOrder(o) ==
    /\ req[o].amount <= MaxOrderAmount
    /\ seen[o] < LimitOf(req[o].strategy)
WithinLimits(o) ==
    /\ req[o].amount <= MaxOrderAmount
    /\ seen[o] + req[o].amount <= LimitOf(req[o].strategy)

\* check_level3 up to its query: both halves of the stop, whatever the side.
StatusOnly(u) == status[u] = "normal"
NotStopped(u) == ~Blocked(u)

\* run_all_checks up to the query of check_level3, after one await.
\* check_drawdown never objects: only the trading process reports drawdowns,
\* for a user id of its own.
RunChecks(o) ==
    /\ pc[o] = "read"
    /\ IF WithinLimits(o)
       THEN /\ CheckUser(req[o].user)
            /\ Go(o, IF NotStopped(req[o].user) THEN "counting"
                                                ELSE "refused")
       ELSE UNCHANGED switchVars /\ Go(o, "refused")
    /\ UNCHANGED <<req, seen, working, table, today, market, event, cutOff>>
    /\ RememberStops

\* The daily number of orders, then the insert into the open transaction.
\* Signals of the AI engine stop here: it never calls the broker.
DailyCount(u) ==
    Cardinality({o \in today : /\ req[o].user = u
                               /\ table[o] \notin {"failed", "rejected"}})
BelowDailyLimit(u) == DailyCount(u) < MaxDailyOrders

CountAndInsert(o) ==
    /\ pc[o] = "counting"
    /\ Go(o, IF ~BelowDailyLimit(req[o].user) THEN "refused"
             ELSE IF req[o].origin = "ai"     THEN "committing"
                                              ELSE "placing")
    /\ UNCHANGED <<switchVars, req, seen, working, table, today, market,
                   event, cutOff>>
    /\ RememberStops

-----------------------------------------------------------------------------
(* place_order, submit_order and the commit                                *)

PlaceOrder(o) ==
    /\ pc[o] = "placing"
    /\ market' = [market EXCEPT ![o] = "live"]
    /\ Go(o, "replying")
    /\ UNCHANGED <<switchVars, req, seen, working, table, today, event,
                   cutOff>>
    /\ RememberStops

\* A refusal, like every error, is an exception that the endpoint logs; the
\* order stays as it was created.
PlaceOrderFails(o) ==
    /\ BrokerFaults
    /\ pc[o] \in {"placing", "replying"}
    /\ cutOff' = IF market[o] = "none" THEN cutOff ELSE cutOff \cup {o}
    /\ Go(o, "committing")
    /\ UNCHANGED <<switchVars, req, seen, working, table, today, market,
                   event>>
    /\ RememberStops

\* submit_order: the only answer place_order returns is "submitted".
ReplyIgnored(o) == working
BrokersWord(o)  == [working EXCEPT ![o] = market[o]]
SubmitOrder(o)  ==
    IF CanTransition(working[o], "submitted")
    THEN [working EXCEPT ![o] = "submitted"]
    ELSE working

OrderSubmitted(o) ==
    /\ pc[o] = "replying"
    /\ working' = SubmitOrder(o)
    /\ Go(o, "committing")
    /\ UNCHANGED <<switchVars, req, seen, table, today, market, event, cutOff>>
    /\ RememberStops

\* get_db commits when the endpoint has returned.
Commit(o) ==
    /\ pc[o] = "committing"
    /\ table' = [table EXCEPT ![o] = working[o]]
    /\ today' = today \cup {o}
    /\ Go(o, "done")
    /\ UNCHANGED <<switchVars, req, seen, working, market, event, cutOff>>
    /\ RememberStops

-----------------------------------------------------------------------------
(* Executions and cancellations                                            *)

\* The broker (external) executes a live order and reports it.
BrokerExecutes(o) ==
    /\ event[o] = "none"
    /\ \E done \in {"partial", "filled"} :
        /\ \/ market[o] = "live"
           \/ market[o] = "partial" /\ done = "filled"
        /\ market' = [market EXCEPT ![o] = done]
        /\ event' = [event EXCEPT ![o] = done]
    /\ UNCHANGED <<switchVars, pc, req, seen, working, table, today, cutOff>>
    /\ RememberStops

\* The row a transition would leave: validate_transition refuses the rest.
\* A row without a broker_order_no is not found.
Transition(current, target) ==
    IF CanTransition(current, target) THEN target ELSE current

OnOrderExec(o) ==
    /\ event[o] # "none"
    /\ table' = [table EXCEPT ![o] =
            IF @ \in {"absent", "created"} THEN @
            ELSE Transition(@, IF event[o] = "filled" THEN "filled"
                                                      ELSE "partial_fill")]
    /\ event' = [event EXCEPT ![o] = "none"]
    /\ UNCHANGED <<switchVars, pc, req, seen, working, today, market, cutOff>>
    /\ RememberStops

\* The cancel endpoint changes the row only; the broker is not told.
CancelOrder(o) ==
    /\ table[o] # "absent"
    /\ table' = [table EXCEPT ![o] = Transition(@, "cancelled")]
    /\ UNCHANGED <<switchVars, pc, req, seen, working, today, market, event,
                   cutOff>>
    /\ RememberStops

-----------------------------------------------------------------------------
(* The rest of the server                                                  *)

\* Requests under way disappear with their transactions.
ServerRestarts ==
    /\ RestartServer
    /\ pc' = [o \in Orders |-> IF pc[o] \in UnderWay THEN "refused"
                                                     ELSE pc[o]]
    /\ cutOff' = cutOff \cup {o \in Orders : pc[o] \in UnderWay
                                             /\ market[o] # "none"}
    /\ event' = [o \in Orders |-> "none"]
    /\ UNCHANGED <<req, seen, working, table, today, market>>
    /\ RememberStops

NextDay == /\ Midnight /\ today' = {}
           /\ UNCHANGED <<pc, req, seen, working, table, market, event,
                          cutOff>>
           /\ RememberStops

StopCommand == /\ \E u \in StopUsers : Endpoint(u)
               /\ UNCHANGED orderVars
               /\ RememberStops

RequestStep(o) ==
    \/ ReadInvested(o) \/ RunChecks(o) \/ CountAndInsert(o)
    \/ PlaceOrder(o) \/ PlaceOrderFails(o) \/ OrderSubmitted(o) \/ Commit(o)

Next ==
    \/ \E o \in Orders : \/ Arrive(o) \/ RequestStep(o)
                         \/ BrokerExecutes(o) \/ OnOrderExec(o)
                         \/ CancelOrder(o)
    \/ StopCommand \/ ServerRestarts \/ NextDay

Spec == Init /\ [][Next]_allVars

-----------------------------------------------------------------------------
(* Properties                                                              *)

\* An order never reaches the broker for a user who was stopped, in either
\* half of the stop, from the moment the request arrived: no restart,
\* midnight or second command lets it slip through.
StoppedUsersDoNotTrade ==
    \A o \in Orders : stopHeld[o] /\ pc[o] # "none" => market[o] = "none"

\* The limits are checked against what others have committed, so each
\* request under way besides the last one may overshoot by one order; with
\* one request at a time the limits are exact.  The orders of a strategy are
\* held against its limit, those without one against the default: their check
\* reads the whole sum of the user, which later orders of the strategies may
\* take further, and they count in no strategy's sum.
LimitsBounded ==
    \A u \in Users :
        /\ DailyCount(u) <= MaxDailyOrders + MaxConcurrent - 1
        /\ \A st \in Purposes :
              SumOf(OrdersFor(u, st))
                  <= LimitOf(st) + (MaxConcurrent - 1) * MaxOrderAmount

\* The database and the broker agree on which orders exist once a request is
\* over, except for orders whose reply or commit was lost.
RowsMatchBroker ==
    \A o \in Orders \ cutOff :
        pc[o] \in {"done", "refused"} =>
            (market[o] # "none") = (table[o] \in CountedAsInvested)
=============================================================================
