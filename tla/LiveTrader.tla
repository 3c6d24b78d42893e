----------------------------- MODULE LiveTrader -----------------------------
(***************************************************************************)
(* The trading process, scripts/live_trader.py: one day session after      *)
(* another, each restoring the positions the last one saved, trading on    *)
(* WebSocket ticks or on polling cycles, and closing or saving what is     *)
(* left.  Every `await' on the broker is a step of its own, so an order    *)
(* may be rejected, its reply may be lost, the tick that sent it may be    *)
(* cancelled by ws.close(), and the process may be killed in between.      *)
(*                                                                         *)
(* Prices, indicators and quantities are abstracted to the decisions they  *)
(* lead to: whether an entry or exit signal fires, whether a sale is a     *)
(* loss, and what an order costs.                                          *)
(***************************************************************************)
EXTENDS Integers, FiniteSets, Functions, StrategyBudget

CONSTANTS
    Symbols,           \* every stock the account could trade
    Classified,        \* strategy classify_volatility gives each stock
    Sector,            \* get_sector of each stock; "other" is unclassified
    Watchlists,        \* symbol lists a session may be started with
    ActiveStrategies,  \* --strategy: the strategies that are instantiated
    MaxPositions,      \* params.max_positions of each strategy
    Balances,          \* values of --account-balance
    OrderAmounts,      \* what a whole-share order may cost (bound)
    Modes,             \* subset of {"ws", "poll"}: --mode
    MaxLots,           \* bound on the lots the broker holds of one stock
    Faults             \* subset of FaultKinds the environment may produce

FaultKinds == {"reject", "lost_reply", "cancel", "crash", "error", "disk"}

ASSUME ClassifiedAssumption == Classified \in [Symbols -> Strategies]
ASSUME SectorAssumption == Sector \in [Symbols -> STRING]
ASSUME WatchlistsAssumption == Watchlists \subseteq SUBSET Symbols
ASSUME StrategyAssumption ==
    /\ ActiveStrategies \subseteq Strategies
    /\ MaxPositions \in [Strategies -> Nat]
ASSUME MoneyAssumption ==
    /\ Balances \subseteq Nat
    /\ OrderAmounts \subseteq Nat \ {0}
ASSUME ModeAssumption == Modes \subseteq {"ws", "poll"}
ASSUME BoundAssumption == MaxLots \in Nat \ {0}
ASSUME FaultAssumption == Faults \subseteq FaultKinds

VARIABLES
    phase,      \* where main() is, see Phases
    regime,     \* state.current_regime
    balance,    \* args.account_balance of this session
    watched,    \* `symbols', extended by re-screening
    positions,  \* state.positions
    used,       \* state.budget._used
    stopBuy,    \* state.drawdown_stop_buy
    drawdown,   \* band of the guard's current_drawdown_pct; "unset" before
                \* the first update_drawdown of the session
    sectors,    \* state.sector_positions
    losses,     \* state.symbol_losses
    blacklist,  \* state.symbol_blacklist
    late,       \* the clock is past FORCE_CLOSE_HHMM
    todo,       \* symbols the current tick, cycle or check still has to visit
    sweep,      \* the running force_close_all: "none", "all" or "momentum"
    targets,    \* what it has left to close
    order,      \* the order awaiting its reply
    killFile,   \* data/.kill_switch exists
    overnight,  \* data/overnight_positions.json
    holdings,   \* lots the broker holds for the account (external)
    lost        \* history: symbols whose record was cut off from the account

sessionVars == <<phase, regime, balance, watched, late>>
bookVars    == <<positions, used, sectors>>
riskVars    == <<stopBuy, drawdown, losses, blacklist>>
walkVars    == <<todo, sweep, targets>>
worldVars   == <<killFile, overnight, holdings, lost>>
vars == <<sessionVars, bookVars, riskVars, walkVars, order, worldVars>>

Phases == {"off", "restore", "gap", "hold", "ws", "poll", "cycle",
           "wait", "liquidate", "endday", "failing"}

\* cost 0 stands for a symbol that is not in the dictionary.
NoPosition == [cost |-> 0, today |-> FALSE]
Position   == [cost : {0} \cup OrderAmounts, today : BOOLEAN]

NoOrder == [side |-> "none", sym |-> "none", cost |-> 0, why |-> "none",
            sent |-> FALSE]
DrawdownActions == {"none", "stop_buy", "force_close"}
Reasons == {"entry", "exit", "late", "sweep", "gap", "hold"}

IsHeld(book, s) == book[s].cost > 0
HeldIn(book)    == {s \in Symbols : IsHeld(book, s)}
Held            == HeldIn(positions)
OfStrategy(S, st) == {s \in S : Classified[s] = st}

Idle    == todo = {} /\ sweep = "none" /\ order = NoOrder
Trading == phase \in {"ws", "cycle"}

TypeOK ==
    /\ phase \in Phases
    /\ regime \in Regimes
    /\ balance \in Nat
    /\ watched \subseteq Symbols
    /\ positions \in [Symbols -> Position]
    /\ used \in [Strategies -> Nat]
    /\ stopBuy \in BOOLEAN /\ late \in BOOLEAN
    /\ drawdown \in {"unset"} \cup DrawdownActions
    /\ sectors \subseteq STRING
    /\ losses \in [Symbols -> Nat]
    /\ blacklist \subseteq Symbols
    /\ todo \subseteq Symbols /\ targets \subseteq Symbols
    /\ sweep \in {"none", "all", "momentum"}
    /\ \/ order = NoOrder
       \/ order \in [side : {"buy", "sell"}, sym : Symbols,
                     cost : {0} \cup OrderAmounts, why : Reasons,
                     sent : BOOLEAN]
    /\ killFile \in BOOLEAN
    /\ overnight \in [Symbols -> Position]
    /\ holdings \in [Symbols -> Nat]
    /\ lost \subseteq Symbols

-----------------------------------------------------------------------------
(* The TradingState a fresh process starts with, and keeps none of.        *)

EmptyBook == [s \in Symbols |-> NoPosition]
NoUse     == [st \in Strategies |-> 0]
NoLosses  == [s \in Symbols |-> 0]

Init ==
    /\ phase = "off" /\ regime = "neutral" /\ balance = 0
    /\ watched = {} /\ late = FALSE
    /\ positions = EmptyBook /\ used = NoUse /\ sectors = {}
    /\ stopBuy = FALSE /\ drawdown = "unset"
    /\ losses = NoLosses /\ blacklist = {}
    /\ todo = {} /\ sweep = "none" /\ targets = {}
    /\ order = NoOrder
    /\ killFile = FALSE
    /\ overnight = EmptyBook
    /\ holdings = [s \in Symbols |-> 0]
    /\ lost = {}

\* The process is gone and its memory with it.
ProcessGone ==
    /\ phase' = "off" /\ regime' = "neutral" /\ balance' = 0
    /\ watched' = {} /\ late' = FALSE
    /\ positions' = EmptyBook /\ used' = NoUse /\ sectors' = {}
    /\ stopBuy' = FALSE /\ drawdown' = "unset"
    /\ losses' = NoLosses /\ blacklist' = {}
    /\ todo' = {} /\ sweep' = "none" /\ targets' = {}
    /\ order' = NoOrder

-----------------------------------------------------------------------------
(* Start of a session: main() up to the trading loop.                      *)

\* load_overnight_positions: read the file and rename it to .bak, so that a
\* later start does not load it again.  A file that cannot be read gives
\* nothing and stays where it is, an item that cannot be read is skipped, and
\* when the renaming fails that is only logged: the positions are lost track of
\* then, as a start after a session that does not save loads them once more.
LoadWithoutRename == positions' = overnight /\ UNCHANGED <<overnight, lost>>
LoadOvernightPositions ==
    \/ positions' = overnight /\ overnight' = EmptyBook /\ UNCHANGED lost
    \/ /\ "disk" \in Faults
       /\ \E read \in SUBSET HeldIn(overnight) :
             /\ positions' = [s \in Symbols |-> IF s \in read THEN overnight[s]
                                                            ELSE NoPosition]
             /\ \/ /\ overnight' = EmptyBook
                   /\ lost' = lost \cup (HeldIn(overnight) \ read)
                \/ /\ UNCHANGED overnight
                   /\ lost' = lost \cup HeldIn(overnight)

\* A fresh TradingState, the regime of the day and the budget of the account.
\* In a crisis main() returns before it reads the overnight file, which
\* changes nothing here.
StartSession ==
    /\ phase = "off"
    /\ regime' \in Regimes \ {"crisis"}
    /\ balance' \in Balances
    /\ watched' \in Watchlists
    /\ phase' = "restore"
    /\ LoadOvernightPositions
    /\ todo' = HeldIn(positions')
    /\ UNCHANGED <<used, sectors, riskVars, late, sweep, targets, order,
                   killFile, holdings>>

\* budget.allocate for one restored position, its result dropped.
RestoreBudget ==
    /\ phase = "restore"
    /\ \E s \in todo :
        /\ used' = Allocate(balance, regime, used, Classified[s],
                            positions[s].cost)
        /\ todo' = todo \ {s}
    /\ UNCHANGED <<sessionVars, positions, sectors, riskVars, sweep, targets,
                   order, worldVars>>

\* check_gap_risk and check_holding_limit walk the restored positions, then
\* the loop of the chosen mode starts; a WebSocket that cannot connect falls
\* back to polling with new buys stopped.
StartupPhaseDone ==
    /\ phase \in {"restore", "gap", "hold"}
    /\ Idle
    /\ \/ /\ phase = "restore" /\ phase' = "gap"
          /\ todo' = Held
          /\ UNCHANGED stopBuy
       \/ /\ phase = "gap" /\ phase' = "hold"
          /\ todo' = Held
          /\ UNCHANGED stopBuy
       \/ /\ phase = "hold" /\ phase' \in Modes
          /\ UNCHANGED <<todo, stopBuy>>
       \/ /\ phase = "hold" /\ "ws" \in Modes
          /\ phase' = "poll" /\ stopBuy' = TRUE
          /\ UNCHANGED todo
    /\ UNCHANGED <<regime, balance, watched, late, bookVars, drawdown, losses,
                   blacklist, sweep, targets, order, worldVars>>

-----------------------------------------------------------------------------
\* check_web_kill_switch: the file exists.
KillFileIgnored == FALSE
CheckWebKillSwitch == killFile

(* The trading loops.  A WebSocket tick visits one symbol; a polling cycle *)
(* visits all of them and returns early only after a forced close.         *)

\* Entry of handle_tick: the kill file only stops new buys.
HandleTick ==
    /\ phase = "ws" /\ Idle
    /\ \E s \in watched : todo' = {s}
    /\ stopBuy' = (stopBuy \/ CheckWebKillSwitch)
    /\ UNCHANGED <<sessionVars, bookVars, drawdown, losses, blacklist, sweep,
                   targets, order, worldVars>>

PollCycle ==
    /\ phase = "poll"
    /\ phase' = "cycle"
    /\ todo' = watched
    /\ stopBuy' = (stopBuy \/ CheckWebKillSwitch)
    /\ UNCHANGED <<regime, balance, watched, late, bookVars, drawdown, losses,
                   blacklist, sweep, targets, order, worldVars>>

CycleDone ==
    /\ phase = "cycle" /\ Idle
    /\ phase' = "wait"
    /\ UNCHANGED <<regime, balance, watched, late, bookVars, riskVars,
                   walkVars, order, worldVars>>

\* The one-second waits between cycles end at the next cycle, or at the kill
\* file, which closes everything before the loop returns.
WaitOver ==
    /\ phase = "wait"
    /\ \/ /\ ~CheckWebKillSwitch
          /\ phase' = "poll"
          /\ UNCHANGED <<sweep, targets>>
       \/ /\ CheckWebKillSwitch
          /\ phase' = "liquidate"
          /\ sweep' = "all" /\ targets' = Held
    /\ UNCHANGED <<regime, balance, watched, late, bookVars, riskVars, todo,
                   order, worldVars>>

\* _run_rescreen: a new symbol joins the list, between polling cycles or
\* from the background task of the WebSocket loop.
Rescreen ==
    /\ phase \in {"ws", "poll"}
    /\ \E s \in Symbols \ watched : watched' = watched \cup {s}
    /\ UNCHANGED <<phase, regime, balance, late, bookVars, riskVars, walkVars,
                   order, worldVars>>

\* 15:15 passes.  A cycle reads the clock once, at its start, so nothing
\* observes the clock moving inside one.
ForceCloseTime ==
    /\ phase \in {"ws", "poll"} /\ Idle
    /\ ~late /\ late' = TRUE
    /\ UNCHANGED <<phase, regime, balance, watched, bookVars, riskVars,
                   walkVars, order, worldVars>>

-----------------------------------------------------------------------------
(* Visiting one symbol: handle_tick, poll_cycle and the start-up checks.   *)

Submit(side, s, cost, why) ==
    order' = [side |-> side, sym |-> s, cost |-> cost, why |-> why,
              sent |-> FALSE]

\* No quote, no daily data, no signal, a filter that says no.
VisitNothing ==
    /\ phase \in {"gap", "hold", "ws", "cycle"}
    /\ sweep = "none" /\ order = NoOrder
    /\ \E s \in todo : todo' = todo \ {s}
    /\ UNCHANGED <<sessionVars, bookVars, riskVars, sweep, targets, order,
                   worldVars>>

\* Gap loss over the threshold (restored positions only), holding limit, exit
\* signal of the strategy that entered, or the 15:15 close of momentum.
MayExit(s, why) ==
    \/ phase = "gap" /\ why = "gap" /\ ~positions[s].today
    \/ phase = "hold" /\ why = "hold"
    \/ Trading /\ why = "exit" /\ Classified[s] \in ActiveStrategies
    \/ Trading /\ why = "late" /\ late /\ Classified[s] = "momentum"

VisitSell ==
    /\ sweep = "none" /\ order = NoOrder
    /\ \E s \in todo, why \in Reasons :
        /\ IsHeld(positions, s)
        /\ MayExit(s, why)
        /\ Submit("sell", s, positions[s].cost, why)
        /\ todo' = todo \ {s}
    /\ UNCHANGED <<sessionVars, bookVars, riskVars, sweep, targets, worldVars>>

BelowLimitOffByOne(st) ==
    Cardinality(OfStrategy(Held, st)) <= MaxPositions[st]
BelowLimit(st) == Cardinality(OfStrategy(Held, st)) < MaxPositions[st]

\* The guards of the entry block, in the code's order.
MayEnter(s) ==
    LET st == Classified[s]
    IN  /\ ~IsHeld(positions, s)
        /\ ~stopBuy
        /\ s \notin blacklist
        /\ Sector[s] \notin sectors
        /\ st \in ActiveStrategies
        /\ BelowLimit(st)
        /\ Available(balance, regime, used, st) > 0
        /\ ~(st = "momentum" /\ regime \in {"defensive", "crisis"})

SymbolScale(s) == IF losses[s] >= 2 THEN 2 ELSE 1

VisitBuy ==
    /\ Trading /\ sweep = "none" /\ order = NoOrder
    /\ \E s \in todo, cost \in OrderAmounts :
        /\ MayEnter(s)
        /\ Affordable(balance, regime, used, Classified[s], cost,
                      SymbolScale(s))
        /\ Submit("buy", s, cost, "entry")
        /\ todo' = todo \ {s}
    /\ UNCHANGED <<sessionVars, bookVars, riskVars, sweep, targets, worldVars>>

-----------------------------------------------------------------------------
(* place_order: the broker (external) and what the code does on a reply.   *)

\* The broker does not sell what is not there; MaxLots bounds the model.
Executable(o) ==
    \/ o.side = "buy" /\ holdings[o.sym] < MaxLots
    \/ o.side = "sell" /\ holdings[o.sym] > 0

BrokerAccepts ==
    /\ order # NoOrder /\ ~order.sent
    /\ Executable(order)
    /\ holdings' = [holdings EXCEPT
            ![order.sym] = IF order.side = "buy" THEN @ + 1 ELSE @ - 1]
    /\ order' = [order EXCEPT !.sent = TRUE]
    /\ UNCHANGED <<sessionVars, bookVars, riskVars, walkVars, killFile,
                   overnight, lost>>

\* execute_buy and execute_sell swallow every exception of place_order.
OrderFails ==
    /\ order # NoOrder
    /\ \/ /\ ~order.sent
          /\ "reject" \in Faults \/ ~Executable(order)
          /\ UNCHANGED lost
       \/ /\ order.sent /\ "lost_reply" \in Faults
          /\ lost' = lost \cup {order.sym}
    /\ order' = NoOrder
    /\ UNCHANGED <<sessionVars, bookVars, riskVars, walkVars, killFile,
                   overnight, holdings>>

\* The sector is taken for the rest of the day.
SectorForgotten(s) == sectors
SectorTaken(s) ==
    IF Sector[s] = "other" THEN sectors ELSE sectors \cup {Sector[s]}

\* execute_buy after the reply.
ExecuteBuy ==
    /\ order.side = "buy" /\ order.sent
    /\ LET s == order.sym
       IN  /\ positions' = [positions EXCEPT
                    ![s] = [cost |-> order.cost, today |-> TRUE]]
           /\ used' = Allocate(balance, regime, used, Classified[s],
                               order.cost)
           /\ sectors' = SectorTaken(s)
    /\ order' = NoOrder
    /\ UNCHANGED <<sessionVars, riskVars, walkVars, worldVars>>

RiskOneStrikeLate(s, loss) ==
    LET n == IF loss THEN losses[s] + 1 ELSE 0
    IN  /\ losses' = [losses EXCEPT ![s] = n]
        /\ blacklist' = IF n > 3 THEN blacklist \cup {s} ELSE blacklist

\* update_risk_after_trade; the result is a loss or a gain.
UpdateRiskAfterTrade(s, loss) ==
    LET n == IF loss THEN losses[s] + 1 ELSE 0
    IN  /\ losses' = [losses EXCEPT ![s] = n]
        /\ blacklist' = IF n >= 3 THEN blacklist \cup {s} ELSE blacklist

\* Only STOP_BUY sets the flag; FORCE_CLOSE leaves it as it is.
StopBuyForgotten(action) == stopBuy
StopBuyAfter(action)     == stopBuy \/ action = "stop_buy"

\* What the caller does with update_drawdown's answer.  Its first call of a
\* session only records the day's start value.
UpdateDrawdown(action) ==
    /\ drawdown = "unset" => action = "none"
    /\ drawdown' = action
    /\ stopBuy' = StopBuyAfter(action)
    /\ IF action = "force_close"
       THEN todo' = {} /\ sweep' = "all" /\ targets' = HeldIn(positions')
       ELSE UNCHANGED walkVars

\* execute_sell after the reply, and what its caller does next.  Sales of
\* force_close_all and of the start-up checks report to nobody.
ExecuteSell ==
    /\ order.side = "sell" /\ order.sent
    /\ LET s == order.sym
       IN  /\ positions' = [positions EXCEPT ![s] = NoPosition]
           /\ used' = Release(used, Classified[s], order.cost)
           /\ IF order.why \in {"exit", "late"}
              THEN \E loss \in BOOLEAN,
                      action \in DrawdownActions :
                      /\ UpdateRiskAfterTrade(s, loss)
                      /\ UpdateDrawdown(action)
              ELSE UNCHANGED <<riskVars, walkVars>>
    /\ order' = NoOrder
    /\ UNCHANGED <<sessionVars, sectors, worldVars>>

-----------------------------------------------------------------------------
(* force_close_all and the ways out of a session.                          *)

\* One target: no quote, or a sell order whose failure is only logged.
ForceCloseNext ==
    /\ sweep # "none" /\ order = NoOrder
    /\ \E s \in targets :
        /\ targets' = targets \ {s}
        /\ \/ "reject" \in Faults /\ UNCHANGED order
           \/ Submit("sell", s, positions[s].cost, "sweep")
    /\ UNCHANGED <<sessionVars, bookVars, riskVars, todo, sweep, worldVars>>

ForceCloseDone ==
    /\ Trading
    /\ sweep # "none" /\ targets = {} /\ order = NoOrder
    /\ sweep' = "none"
    /\ UNCHANGED <<sessionVars, bookVars, riskVars, todo, targets, order,
                   worldVars>>

EndOfDaySwing   == OfStrategy(Held, "mean_reversion")
EndOfDayTargets == OfStrategy(Held, "momentum")

\* main() after the loop: force_close_all(force_all=False).
EnterEndOfDay ==
    /\ phase' = "endday"
    /\ todo' = {}
    /\ sweep' = "momentum"
    /\ targets' = EndOfDayTargets
    /\ order' = NoOrder
    /\ UNCHANGED <<regime, balance, watched, late, bookVars, riskVars,
                   killFile, overnight, holdings>>

\* MARKET_CLOSE_HHMM seen at the top of the polling loop.
PollingEnds ==
    /\ phase = "poll" /\ late
    /\ EnterEndOfDay
    /\ UNCHANGED lost

LiquidationDone ==
    /\ phase = "liquidate" /\ targets = {} /\ order = NoOrder
    /\ EnterEndOfDay
    /\ UNCHANGED lost

\* run_until is over and ws.close() cancels the receive task: the tick it is
\* in, if any, stops at its await and the reply is never recorded.
WebSocketEnds ==
    /\ phase = "ws"
    /\ Idle \/ "cancel" \in Faults
    /\ EnterEndOfDay
    /\ lost' = IF order.sent THEN lost \cup {order.sym} ELSE lost

\* save_overnight_positions, then the process exits.
SaveOvernightPositions ==
    /\ phase = "endday" /\ targets = {} /\ order = NoOrder
    /\ overnight' = [s \in Symbols |-> [positions[s] EXCEPT !.today = FALSE]]
    /\ ProcessGone
    /\ UNCHANGED <<killFile, holdings, lost>>

\* An exception reaches main(): everything is closed, nothing is saved.
MainFails ==
    /\ "error" \in Faults
    /\ \/ phase \in {"poll", "cycle"} /\ sweep = "none" /\ order = NoOrder
       \/ phase = "endday" /\ targets = {} /\ order = NoOrder
    /\ phase' = "failing"
    /\ todo' = {} /\ sweep' = "all" /\ targets' = Held
    /\ UNCHANGED <<regime, balance, watched, late, bookVars, riskVars, order,
                   worldVars>>

FailureExit ==
    /\ phase = "failing" /\ targets = {} /\ order = NoOrder
    /\ ProcessGone
    /\ lost' = lost \cup Held
    /\ UNCHANGED <<killFile, overnight, holdings>>

\* SIGTERM or SIGKILL from the process manager, Ctrl+C, or a crash.  None of
\* them runs the closing code: asyncio turns Ctrl+C into a CancelledError,
\* which no `except' clause of main() catches.
Killed ==
    /\ "crash" \in Faults
    /\ phase # "off"
    /\ ProcessGone
    /\ lost' = lost \cup Held \cup (IF order.sent THEN {order.sym} ELSE {})
    /\ UNCHANGED <<killFile, overnight, holdings>>

\* The process manager creates and removes the kill file (TradingProcess).
TouchKillFile ==
    /\ killFile' \in BOOLEAN
    /\ killFile' # killFile
    /\ UNCHANGED <<sessionVars, bookVars, riskVars, walkVars, order,
                   overnight, holdings, lost>>

Startup == StartSession \/ RestoreBudget \/ StartupPhaseDone
Loop    == \/ HandleTick \/ PollCycle \/ CycleDone \/ WaitOver
           \/ VisitNothing \/ VisitSell \/ VisitBuy
Replies == BrokerAccepts \/ OrderFails \/ ExecuteBuy \/ ExecuteSell
Closing == \/ ForceCloseNext \/ ForceCloseDone \/ PollingEnds
           \/ LiquidationDone \/ WebSocketEnds
           \/ SaveOvernightPositions \/ FailureExit

Next == \/ Startup \/ Loop \/ Replies \/ Closing
        \/ Rescreen \/ ForceCloseTime
        \/ MainFails \/ Killed \/ TouchKillFile

Spec == Init /\ [][Next]_vars

\* The process runs on as long as it can; sessions are started by somebody
\* else and nothing forces a fault, a re-screening or the clock.
FairSpec == Spec /\ WF_vars(Startup \/ Loop \/ Replies \/ Closing)
                 /\ WF_vars(ForceCloseTime)

-----------------------------------------------------------------------------
(* Properties                                                              *)

InFlight(s) == order.sent /\ order.sym = s

\* What the program believes the account holds of s: the position book, an
\* executed order whose reply is on its way, or the file between sessions.
Recorded(s) ==
    IF phase = "off"    THEN IsHeld(overnight, s)
    ELSE IF InFlight(s) THEN order.side = "buy"
    ELSE IsHeld(positions, s)

\* Across buys, sells, forced closes, restarts and restores, the broker holds
\* one lot of exactly the symbols the program records, save those whose
\* record a lost reply, a cancelled tick, a kill or a damaged overnight file cut
\* off.  In particular no
\* position is restored twice and none is sold and kept.
BookMatchesBroker ==
    \A s \in Symbols \ lost : holdings[s] = IF Recorded(s) THEN 1 ELSE 0

\* A strategy never holds more than max_positions, restored ones included,
\* although the limit is tested long before the order's reply is recorded.
PositionLimit ==
    \A st \in Strategies :
        Cardinality(OfStrategy(Held, st)) <= MaxPositions[st]

\* One position per sector and day ("other" excepted), however its symbols'
\* ticks interleave with failed and repeated orders.
SectorOncePerDay ==
    \A s, t \in Held :
        /\ positions[s].today /\ positions[t].today
        /\ Sector[s] = Sector[t] /\ Sector[s] # "other"
        => s = t

\* The third loss in a row that is counted ends a symbol's day: from then on it
\* is blacklisted, it is not held and no purchase of it is under way, so that no
\* fourth is ever counted, whichever ticks and failed orders come in between.
\* Counted are the sales on an exit signal and at 15:15; what force_close_all
\* and the start-up checks sell at a loss is not.
ThreeStrikes ==
    \A s \in Symbols :
        /\ losses[s] <= 3
        /\ losses[s] = 3 =>
              /\ s \in blacklist
              /\ ~IsHeld(positions, s)
              /\ ~(order.side = "buy" /\ order.sym = s)

Exposure(st) ==
    SumFunctionOnSet([s \in Symbols |-> positions[s].cost],
                     OfStrategy(Held, st))

\* The bucket of a strategy counts exactly what its open positions cost, so
\* allocate() is never refused, whatever regime the next session restores
\* the positions under.  That needs a balance that stays the same, and buckets
\* of which the smallest has room for the largest order, a tenth of the largest
\* bucket, as often as positions are allowed.
BudgetExact ==
    phase # "restore" => \A st \in Strategies : used[st] = Exposure(st)

\* With any balance the bucket never counts more than is invested: no money
\* stays reserved for positions that are gone.
NoLeakedBudget == \A st \in Strategies : used[st] <= Exposure(st)

\* When nothing fails, no momentum position survives its session.
MomentumIsIntraday ==
    phase = "off" => OfStrategy(HeldIn(overnight), "momentum") = {}

\* check_web_kill_switch: "a request to stop safely - buying stops and the
\* holdings must be closed".
KillFileClosesHoldings ==
    (phase \in {"ws", "cycle", "wait"} /\ killFile)
        ~> (~killFile \/ \A s \in Symbols : holdings[s] = 0)

-----------------------------------------------------------------------------
(* The account of TradingAccount: a trade happens when the broker executes *)
(* the order, and is on record from then on, with its sector.              *)

OnBook         == {s \in Symbols : Recorded(s)}
SectorsOf(S)   == {Sector[s] : s \in S} \ {"other"}
SectorsEntered ==
    sectors \cup SectorsOf({s \in Symbols : InFlight(s) /\ order.side = "buy"})
Stopped        == stopBuy \/ drawdown = "stop_buy"

Account == INSTANCE TradingAccount WITH
    running <- phase # "off",
    book    <- OnBook,
    taken   <- SectorsEntered,
    stopped <- Stopped,
    barred  <- blacklist

\* Through all its awaits, refused orders, restarts and faults the process
\* does to the account only what TradingAccount allows: the entry rules that
\* poll_cycle and handle_tick test before they send an order (held, stopped,
\* blacklisted, sector, number of positions) are all true when the broker
\* executes it, nothing loosens them within a session (the guard's STOP_BUY
\* in particular holds for every later visit), and the record changes with
\* the account except where it is owned up to as lost.
ImplementsAccount == Account!AccountSpec
=============================================================================
