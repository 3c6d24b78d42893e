# A TLA+ model of kiwoom-autotrade

kiwoom-autotrade trades Korean stocks through the Kiwoom broker: a FastAPI server
with a dashboard, a trading process (`scripts/live_trader.py`) that the server starts
every market day, scripts that choose stocks and test strategies, and Airflow
pipelines that review the day. This directory holds TLA+ modules of the parts whose
state changes decide what is bought and sold, TLC configurations that check them, and
theorems about them with proofs for TLAPS. Paths below are those of the repository.

- [The system](#the-system): components, state, interactions, what is hard
- [The modules](#the-modules): which module models what, and how
- [The runs](#the-runs): what TLC checks, with which bounds and fairness
- [The proofs](#the-proofs): what holds for every instance, and why
- [Where code and documents disagree](#where-code-and-documents-disagree)
- [What is not modelled](#what-is-not-modelled)
- [Plan](#plan)

To check a module: `tlc -config KillSwitch_stops.cfg KillSwitchMC`; to prove: `tlapm
LiveTraderProofs.tla`.

## The system

**API server** (one asyncio event loop, `src/main.py`).

| Component | State | Operations |
|---|---|---|
| Kill switch (`trading/kill_switch.py`) | status per user, `.kill_switch_state.json` | soft stop, hard stop, resume, dashboard toggle, load at import |
| Drawdown guard (`trading/drawdown_guard.py`) | guard state per user (manual flag, day's drawdown), `.drawdown_state.json` | the order checks, daily reset, update of the drawdown, load at import |
| Order service (`api/v1/orders.py`, `trading/order_service.py`, `trading/order_state.py`) | order rows | create with checks, submit, cancel, transitions |
| Execution bridge (`api/v1/realtime.py`) | order rows | apply the broker's execution reports |
| Process manager (`trading/process_manager.py`) | status, process handle, monitor task, two flags; kill file | start, launch, monitor, restart next day, stop, cleanup |
| REST client and token store (`broker/kiwoom.py`, `broker/token_store.py`) | token in the credential's row, a lock per credential | ensure, issue and invalidate a token; requests with retries |
| Strategy configuration (`api/v1/strategy_config.py`) | rows of parameters and of suggestions | type a value, approve, reject; arguments of the trading process |
| AI engine (`ai/engine.py`, `ai/llm`) | signals, daily cost | analysis, execution of a signal |
| Accounts, settings | rows | registration, invitations, credentials |

**Trading process** (one asyncio event loop, `scripts/live_trader.py`).

| Component | State | Operations |
|---|---|---|
| Trading loop | positions, loss counters, blacklist, sectors, stop flag | tick or polling cycle, buy, sell, forced close, rescreening |
| Strategies (`strategy/`, `backtest/strategy.py`) | none | entry and exit of the momentum and the mean reversion strategy, classification by volatility |
| Strategy budget (`ai/signal/position_sizer.py`) | money used per strategy | allocate, release, size of an order |
| Overnight file | `data/overnight_positions.json` | load (and rename), save |
| WebSocket client (`broker/realtime.py`) | connection, subscription log | connect, log in, subscribe, replay, reconnect, close |

**Batch processes.**

| Component | State | Operations |
|---|---|---|
| Screening (`scripts/screen_symbols.py`) | `screened_*.json` | read daily prices page by page, judge, rank, write |
| Backtests (`scripts/run_backtest.py`, `backtest/`) | positions and trades of a replay | collect, replay, measure, grid search |
| Review and tuning (`airflow/dags/postmarket`, `airflow/plugins/llm/review.py`, `airflow/plugins/analysis/param_tuner.py`) | review file, suggestions | ask a language model, filter, clamp, insert |
| Monthly rebalancing (`airflow/dags/monthly/rebalance.py`) | prices and signals of a run | universe, months, signals |

How they interact:

- The dashboard's toggle and `/trading/*` write the two halves of a user's stop;
  every order request reads both. The trading process never reads them: it keeps a
  drawdown guard of its own under a random user id, but writes the *same* guard file.
- The process manager talks to the trading process by the kill file, SIGTERM and
  SIGKILL, and learns of it by its exit. It runs the screening before each launch and
  goes on when that fails; the trader then reads an older list.
- The trading process and the order service place orders at the same broker account
  without knowing of each other. Only the trading process's book is compared with the
  account in these models.
- Requests of the server share one token row through their database sessions and one
  asyncio lock; the trading process keeps a token of its own in memory.
- The WebSocket client calls the trading loop tick after tick from its receive task;
  `ws.close()` cancels that task wherever it is.
- Suggestions of the review reach the strategy configuration only through an
  administrator's or user's approval, and the trader only as command line arguments
  at the next launch.

What is hard, and what the properties are therefore about:

- *Orders whose fate is unknown.* A lost reply, a cancelled await or a killed process
  separates the program's record from the account. The book must be right in all
  other cases, over any number of days (`BookMatchesBroker`, `RowsMatchBroker`), and
  no retry may send an order twice (`OrderOnce`).
- *Checks made before an await and used after it*: invested sum, daily count, stop,
  status of a suggestion (`LimitsBounded`, `StoppedUsersDoNotTrade`,
  `NoLateDecision`).
- *State kept twice*: two halves of a stop in two files, one of which another process
  rewrites from an old copy (`StopSurvives`, `HardStopOnlyResumed`,
  `ImplementsStopFlag`).
- *Two locks*, of the event loop and of the database, around one token
  (`SomeoneProceeds`, `RefusedTokenNotResent`, `RefusedCallEnds`).
- *Tasks that share fields*: launch, monitor and stop of the process manager
  (`AtMostOneTrader`, `StopsForGood`, `EveryStopEnds`, `NextDayFollows`).
- *Reconnection*: subscriptions made, dropped and replayed around login and loss
  (`ServerKnowsWanted`, `LogIsServed`, `ComesThroughOrEnds`).
- *Rules over a whole day*: limits, blacklist, sectors, intraday positions, the money
  buckets (`PositionLimit`, `ThreeStrikes`, `SectorOncePerDay`, `MomentumIsIntraday`,
  `BudgetExact`, `NoLeakedBudget`).
- *Rules tested before an await*: an order is checked, sent, executed and recorded at
  different moments, across sessions and faults (`BookMatchesBroker`,
  `ImplementsAccount`).
- *The same rule written twice*: entry and exit of a strategy, replay and trader,
  short histories and their defaults (`WorthEntering`, `ReplayBuysLikeTheTrader`,
  `FirstExit`, `BuysWhatItMeasured`); pages that fail or overlap
  (`PagesGiveNewestDays`, `WatchedTwiceOnlyIfUnloaded`).
- *A value that passes many hands*: model, filter, clamp, table, approval, command
  line (`TraderRunsWithinBounds`, `NothingAppliedUnapproved`).

`PROJECT.json` lists every component with its status, and under `hazards` each place
of the code that is exposed, with the properties that watch it.

## The modules

```
StrategyBudget, TradingAccount <- LiveTrader <- LiveTraderMC, LiveTraderProofs
StopFlag       <- KillSwitch <- KillSwitchMC
                  KillSwitch <- OrderService <- OrderServiceMC, OrderServiceProofs
KiwoomClient    <- KiwoomClientMC, KiwoomClientProofs
ProcessManager  <- ProcessManagerMC, ProcessManagerProofs
KiwoomWebSocket <- KiwoomWebSocketMC, KiwoomWebSocketProofs
Tuning          <- TuningMC, TuningProofs
DailyPages, Strategies, Lists <- Screening, Backtest
Strategies, Lists             <- Monthly
Screening, Backtest, Monthly  <- Research <- ResearchMC, ResearchProofs
Lists <- Tuning
Lists <- DataLemmas <- LiveTraderProofs, OrderServiceProofs, TuningProofs,
                       ResearchProofs
```

**StrategyBudget** holds the pure part of `StrategyBudget` and of the market regimes:
the share of the balance each strategy gets, `allocate`, `release` with its clamp at
zero, and the affordability test of the position sizer.

**LiveTrader** is the trading process, session after session. `phase` says where
`main()` is; `todo` are the symbols a tick, cycle or start-up check still visits;
`sweep` and `targets` are a running `force_close_all`; `order` is the one order whose
reply is awaited (the program has never two: ticks are handled one after another and
the sweeps by the same task). `execute_buy` and `execute_sell` are two or three
steps: `VisitBuy`/`VisitSell` (checks and call), `BrokerAccepts` (the account
changes), then `ExecuteBuy`/`ExecuteSell` (the record) or `OrderFails`. `Faults`
names what the environment may do: refuse an order, lose a reply, cancel the tick,
kill the process, raise an exception that reaches `main()`, or damage the overnight
file ("disk"): it cannot be read, a position in it cannot, or its renaming fails,
which the code only logs. The stocks concerned are in `lost`. Prices and quantities
are reduced to the decisions they lead to; one lot stands for the shares of one
order.

**TradingAccount** is the abstract specification of a trading process: an account and
its record, which one step changes together. A purchase needs, at the instant it
happens, a session that is not stopped, a stock that is neither on record nor barred,
a sector not entered in this session, and room for its strategy; a sale needs a stock
on record of which there is a lot. The record outlives the session, its rules do not,
and within it they only get tighter. Three things may go wrong, and `lost` has the
stocks concerned: the record of the last trade of a stock is lost (`Mislay`), a
session ends without a record or with an old one (`Fail`), or one begins with a part
of the record (`Open`). `LiveTrader` instantiates it by `Account`: a trade happens
when the *broker executes* the order (`BrokerAccepts`), so the record (`OnBook`) is
`Held`, or between sessions the overnight file, with the stock of an executed
purchase whose reply is still awaited and without that of an executed sale;
`SectorsEntered` likewise. `Stopped` is the flag `stopBuy` or the drawdown guard's
answer, whichever comes first. `ImplementsAccount` states that every step of the
trading process is a step of the account or none.

**StopFlag** is the abstract specification of a user's stop: one flag per user and
the last order the user gave. Stop, resume and release are its steps, and a restart
that never frees a stopped user and never stops one who gave no order.

**KillSwitch** has both halves of the stop, both files, and the trading process as
the second writer of the guard file. The endpoints have no await before they return,
so a command is one step. `DiskFaults` lets any write fail, which the code logs and
forgets. `INSTANCE StopFlag WITH stopped <- ..., order <- ...` maps "either half is
set" and the last command to the flag; `ImplementsStopFlag` states that every step is
a step of the flag or none.

**OrderService** extends KillSwitch: an order request is cut at its awaits (read the
sum, checks up to the count query, count and insert, `place_order`, reply, commit),
with its own uncommitted row. An order without a strategy (`NoStrategy`) is checked
against the sum of all the user's orders and the `DefaultLimit`. Beside it run the
stop endpoints, cancellations, the broker's executions, their reports to the bridge,
restarts and midnights. AI signals take the same way up to the insert.

**KiwoomClient** is one call per caller: `get_db` opens the session, then for each of
its requests the token is looked up (`EnsureToken`), the lock taken (`AcquireLock`),
a token issued and saved (`Authenticate`, `SaveToken`) and the request sent; its
answer is success, a refusal, a rate limit, an invalid token or none (`Answered`,
`Refused`, `RateLimited`, `TokenInvalid`, `Lost`), and `End` commits or rolls back. A
session reads the credential's row once, and its own copy (`view`) answers all later
looks; its first write locks the row until `End`. The trading process and the scripts
(`Standalone`) have neither row nor lock. The operations differ only in the number of
requests and in what the endpoint does with an error, so there are two: an order, and
a balance of several requests. `Lapse` lets a token come within five minutes of its
expiry anywhere except while it is being issued or is held by an open transaction: a
token lives for a day, a call for seconds. What tokens nobody has any more are called
is forgotten (`ForgetOthers`), so their numbers can be used again and the state stays
finite.

**ProcessManager** names by a pid a process together with the tasks about it: the
launch that will create it, its monitor, and a `stop()` that waits for its end. The
shared fields `_status`, `_process`, `_monitor_task`, `_continuous` and
`_stop_requested` are variables; `proc` is what the operating system has. Two orders
of execution come from asyncio: a new task runs after those created before it, and
when a process exits a `stop()` that waits for it runs before its monitor, which
still collects the process's output. Two failures of the disk are actions:
`LaunchUnrecorded`, where the process exists but its pid file cannot be written, so
that the status is `idle` and nobody watches the process, and `StopFails`, where the
kill file cannot be. Both lead to the tangles the properties name. That the `finally`
block fails to remove the kill file is left out.

**KiwoomWebSocket** is the client's run loop (connect, token, login, replay,
messages, back-off) with `subscribe`, `unsubscribe` and `close` called by other tasks
at its awaits, and the server's registrations of the current connection. The server
refuses what comes before the login and may refuse a key after it (`denied`,
`return_code` other than 0): the client logs that and keeps the key in its log.
Answers that have arrived can still be read when the connection is lost.

**Strategies** has the signals as pure operators over days and quotes: RSI, Bollinger
bands, ATR, ADX, entry and exit of both strategies, and the filters the trader puts
between a signal and an order. Ratios are fractions compared by cross-multiplication;
where the code rounds before it compares (the screening's price ratio, the monthly
measures), so does `Rounded`, with a half going up. What the trader takes from its
command line (multipliers, floors, the ceiling of the loss, the time of the forced
close, the mean reversion's thresholds) is an argument of every operator, and
`TraderArgs` is the set it may be started with: any set of `Args` for the theorems.

**DailyPages** reads a stock's daily prices backwards page by page, each page asked
for by the oldest date received. Whether the broker repeats that date is a constant
of the behaviour, since the code does not say; pages may fail, with each reader's
retries. A row whose numbers cannot be parsed (`Unreadable`) is received and left out
when the rows are parsed; its date is taken to be readable. **Screening** adds the
judgement and ranking of stocks, the file, and the trader's use of both: loading,
classification, rescreening. **Backtest** collects days, plays minute bars through a
strategy with the engine's state from bar to bar, and ranks the results of a grid.
**Monthly** is the rebalancing pipeline. **Research** puts the three together: what
the screening writes is what trader and backtests read. They are processes that share
nothing else, so it is enough that they run one at a time.

**Tuning** is the way of a parameter: the review of the day with its file, the tuner
with its thresholds and clamps, both as tasks that may be killed and run again; the
table of suggestions; approval, rejection and an administrator's PUT as transactions
that read, check and commit in separate steps; and the command line built from the
rows, with what argparse makes of it. Numbers are in tenths and times HHMM numbers. A
value may also be a text, a time written short or with a blank before it, or JSON of
the form `{"v": x}` (`Wrapped`), which the clamp passes and `_build_args_from_db`
unwraps. `GeneratedIds` says whether the database gives a suggestion its id.
`save_suggestions` inserts without one, while migration 003 leaves that to Python
(`alembic/versions/003_phase3_data_tables.py:111`): as migrated (`FALSE`) the insert
fails, the failure is logged, and the table stays empty. The runs take the schema the
code expects (`TRUE`), in which the rest of the path can happen.

**Lists** says what keeping some members of a list and sorting a list give: `Picked`
and `Sorted`, by positions, because the provers know neither `SelectSeq` nor
`SetToSortSeq`.

History variables are named so in the modules (`lost`, `cutOff`, `command`,
`stopHeld`, `tangled`, `wanted`, `torn`, `approved`, `executed`): no guard reads
them, properties do.

## The runs

| Run | Question |
|---|---|
| `trader_book` | Does the program's book match the account over days of faults, and does the process trade by the rules of `TradingAccount`? |
| `trader_limits` | Do the entry limits and the buckets hold with four stocks and refused orders? |
| `trader_close` | Polling, nothing failing, changing balances: does the kill file empty the account, do momentum positions end with the day, is no money left reserved? |
| `switch_stops` | Does a stop survive everything but its own release; are two halves in two files one flag? |
| `orders_limits` | By how much can two overlapping requests overshoot a limit, and do rows and broker agree? |
| `orders_stops` | Does an order of a stopped user ever reach the broker, also when state files cannot be written? |
| `manager_days` | One trading process, stops that end it, the next day's start; every stop ends |
| `ws_replay` | What does the server send after any number of reconnections? Does the loop end? |
| `client_calls` | Is an order sent twice, a refused token sent again, does somebody always go on? |
| `client_refused_doc` | Violation: does a call whose token was refused end? See [below](#where-code-and-documents-disagree) |
| `research_auto` | What do screening, trader and backtests make of pages that fail; do entry and exit, replay and trader agree; is a monthly buy measured? |
| `tuning_reviews` | Can a value reach the trader unapproved or out of bounds; who can still change a decided suggestion? |

Bounds, and why they are enough to be interesting:

- *LiveTrader*. Two stocks for the book (one intraday, one kept overnight), since a
  position and its order concern one stock and others matter only as what a sweep or
  cycle visits in between; three where one bucket must hold two positions besides;
  four for the limits (three of one strategy with room for two, two in one sector). A
  balance of 100 makes an order of 4 a tenth of a neutral bucket; a balance of 10 is
  an account too small for it. For the limits an order of 2 stays affordable at the
  halved size after two losses, so that a third loss can happen and a fourth would if
  the blacklist let it, and an order of 25 exceeds what `Affordable` admits in every
  regime, unless the test forgets the tenth. `MaxLots = 2` lets a double purchase
  happen and be seen. Days are not bounded.
- *KillSwitch*. Two users, so that one user's command can write the other's state.
  Days, commands and restarts are not bounded.
- *OrderService*. Three orders of 2 or 3 units of a strategy against its limit of 3,
  or of 1 unit without a strategy against the default limit, here 2; at most 2 units
  an order, one order a day, two requests at once (`MaxConcurrent`): the overshoot by
  one order can happen and a larger one could, and a strategy's order may use up what
  an order without one is checked against. For the stops, two orders that may
  overlap, every stop command, restart and midnight between any two steps, and writes
  that may fail.
- *KiwoomClient*. Two of the three callers in a behaviour (`MaxCallers`): two
  sessions, or a session beside the trader. Two suffice for every wait on two locks;
  a third would only queue. Three attempts (the code's default), a balance of two
  requests so that a token is used again within one call. `MaxTokens` only has to
  exceed what row, copies and hands can hold at once. Calls follow each other without
  end.
- *ProcessManager*. Three pids: two traders at once and the next one.
- *KiwoomWebSocket*. Three keys (one replayed, one failing or refused, one called
  meanwhile), two retries, two unread answers (`MaxUnread`).
- *Research*. The windows of 14, 20 and 250 days are constants and here two to six,
  pages have three rows: histories shorter than, as long as and longer than a window
  occur, and the cursor turns a page. Three stocks in two markets, the strategies'
  grid of three parameter sets, three sets of the trader's arguments (the defaults,
  the tuner's other extremes, and times and thresholds that overlap), three bars
  (`MaxBars`) on one to three days: enough for an entry, a peak and a fall. Five
  monthly histories of three to five months around windows of two and three
  (`MaMonths`, `SlopeMonths`, `VolumeMonths`).
- *Tuning*. Two users, of which one may type values; two days (`MaxDays`) so that a
  suggestion meets a reviewed one of the same key; two rows (`MaxRows`), so that one
  suggestion can be inserted twice by a killed task. The answers of the model cover a
  value above the bounds, the same wrapped, words for a number, an early time, a
  short one and one with a blank, and a key without a row.

`CHECK_DEADLOCK FALSE` stands in the LiveTrader runs, where a position without quotes
and a broker that refuses may leave only actions of the environment; in the
OrderService runs, where a bounded number of orders comes to an end; in the
KiwoomClient runs, where requests can wait for each other for ever; and in
`research_auto`, where a replay of a bounded number of bars comes to an end.

Fairness. `trader_close` assumes that the event loop runs the trading process on
(weak fairness of its own steps together) and that the clock passes 15:15; not that
somebody starts sessions, touches the kill file or that an order succeeds.
`manager_days` assumes that a task whose timer or awaited exit has come is run, one
weak fairness condition per process and task; nothing of users, shutdowns or the
trading process, which may ignore the kill file and SIGTERM for ever. `ws_replay`
assumes the client's task runs on; each of its awaits ends, by an answer, an
exception or a timeout. `client_refused_doc` assumes strong fairness of each call:
HTTP requests have timeouts, and the asyncio lock and the database's row lock serve
their waiters in order, so a wait that is over again and again is not over for others
only. Nothing is assumed of the network or the callers.

What the runs show, and under which condition:

- `BookMatchesBroker` holds for every stock except those in `lost`, and each action
  that adds to `lost` names its reason.
- `ThreeStrikes` is about the losses `update_risk_after_trade` counts. Sales of
  `force_close_all` and of the checks at the start do not call it, so a stock may
  lose money more often than three times a day; no property says otherwise.
- `ImplementsAccount` holds under all faults. In `trader_book` the strategies have
  room for both stocks; how the limit binds is what `trader_limits` shows of
  `PositionLimit`, and the theorem holds for every limit.
- `BudgetExact` needs a constant account balance and buckets that have room for the
  positions allowed; without them only `NoLeakedBudget` is left.
- `StopSurvives`, `HardStopOnlyResumed` and `ImplementsStopFlag` need files that can
  be written; `StoppedUsersDoNotTrade` does not.
- `AtMostOneTrader`, `StopsForGood` and `NextDayFollows` speak of behaviours that are
  not `tangled`: nobody has stopped the manager while it launches or waits for the
  next day, the server has not been shut down in the middle of a stop, and the pid
  file and the kill file could be written. `EveryStopEnds` holds without that.
- `ServerKnowsWanted` leaves out `torn` keys: those whose replay failed and those
  unsubscribed while their replay was pending. It and `LogIsServed` leave out the
  keys whose last call on this connection the server has refused (`denied`).
- `SomeoneProceeds` holds as long as no session's token has been refused; after that,
  `client_refused_doc` shows how the requests come to a standstill.
- `PagesGiveNewestDays`: an inclusive cursor makes the broker repeat a day where two
  pages meet. An average counts it twice if it reaches back so far, which is excluded
  only where the newest page has as many readable days as the average: 20, about what
  a page must have for 13 pages to give 250. The days are without a gap but for rows
  that cannot be read.
- `WorthEntering` promises no sale at once only for arguments that leave room
  (`LeavesRoom`), which no code checks, and of a gain what the multipliers give
  (`Reward`): twice the stop with the defaults, less than the stop at the tuner's
  extremes (3.0 and 2.0).
- `ReplayBuysLikeTheTrader` speaks of the strategy's own condition; the trader's
  additional filters make it buy less (see below). It compares at the end of the
  session, where the share of the day that has passed is 1; earlier the trader
  compares with a part of the average volume and may buy what the replay does not.
  The opening price is the day's, as in polling; in WebSocket mode the trader takes
  the first tick it sees (`live_trader.py:1359`). Replay histories have at most
  `YearDays` days, for beyond that the two look at different highs.
- `TraderRunsWithinBounds` excepts what the migration or an administrator put in, a
  trader that refuses its arguments and ends, and two forms of a value that evade the
  filters (`Evades`): `{"v": 9.9}`, which the clamp cannot look into and the
  arguments unwrap, and a time with a blank before it, which the filter strips and
  the entry condition compares as it is. The tuner's promise without these two is
  `NothingProposedOutOfBounds`, which the code breaks; it stands in Tuning.tla for
  reference and no run states it.
- `NoLateDecision` does not say that only one of two requests decides a suggestion:
  both may have found it pending, and the later commit wins (see below). It says that
  nobody else can.
- `StoppedUsersDoNotTrade` is about users stopped since before the request arrived. A
  stop between the check and `place_order` does not keep the order back.

## The proofs

All theorems are for every value of the constants that satisfies the named
assumptions of the modules, which TLC evaluates in the runs. Besides types and bounds
they say: the orders are a finite set (`OrdersAssumption`: ids of the database),
`Nobody` is no session (`NobodyAssumption`), the language model's answers are lists
whose numbers are whole tenths (`TuningAssumption`), no position is opened after the
time of the forced close (`BacktestAssumption`), the universe names no stock twice
(it is a `dict`), prices and volumes are natural numbers, as the broker's are without
their sign (`ResearchAssumption`), and the trader's arguments are ratios and times
(`StrategiesAssumption`), not that they are sensible.

**DataLemmas** has what the other modules need of sums over sets, of lists and of
recursive functions. The library's induction theorems take an operator as a
parameter, which the provers cannot instantiate; here induction is stated for *sets*:
a set that contains 0 and with each number its successor contains the naturals
(`NumbersByInduction`), and the same for the finite subsets of a set
(`SubsetsByInduction`). From them follow that `SumFunctionOnSet` adds what a set
gains, loses what it loses and is bounded by the cardinality times a bound; that
`Picked` gives exactly the members at the positions asked for, each once and in their
order; and that `Sorted` is a permutation in that order when the relation orders the
positions.

**LiveTraderProofs**

- `TypeCorrect`: `Spec => []TypeOK`. The interesting part is `used`: it stays a
  natural number because `release` clamps at zero, not because the amounts agree
  (they may not, see `BudgetExact`).
- `BookCorrect`: `Spec => []BookMatchesBroker`. The property is not inductive. A
  reply is recorded rightly only because its order was sent for a stock in the
  opposite state (`OrderInv`) and no sweep visits that stock meanwhile (`SweepInv`);
  a restart is right only because the overnight file has nothing that is not lost
  while a session runs (`PhaseInv`), which the renaming in `load_overnight_positions`
  provides, and `lost` where it fails. `BookInvariant` proves the conjunction, action
  group by action group.
- `ThreeStrikesHold`: `Spec => []ThreeStrikes`, with the strengthening that a stock
  with three counted losses is blacklisted, not held and not being traded.

For the rules of a day, the lemma `StepShapes` sorts the many actions by what they do
to the book: all but five leave it alone and send no purchase. On it rest

- `LimitHolds` (`PositionLimit`) and `SectorHolds` (`SectorOncePerDay`): tested when
  an order is sent, true when its reply is recorded, because meanwhile nothing else
  enters a position (`LimitInv`, `SectorInv`: a purchase under way leaves room for
  itself);
- `ActsOnAccount`: `Spec => ImplementsAccount`, the refinement. The entry rules are
  tested before the await of `execute_buy` and must be true when the broker executes
  the order. That takes the inductive facts of the rules together: `LimitInv`,
  `SectorInv`, and `EntryStopInv` (while a purchase is under way nobody has stopped
  buying or blacklisted its stock). `RecordInv` says where the record is at each
  moment: `Held` during a session, the overnight file between two, one of them
  corrected by an executed order; what a failed renaming leaves in the file during a
  session is in `lost`. `StepIsAccountStep` maps the steps: `StartSession` to `Open`
  with what could be read, `BrokerAccepts` to `Buy` or `Sell`, a lost reply or a
  cancelled tick to `Mislay`, the ends of a session to `Close` or `Fail`, the rest to
  `Tighten` or a stutter;
- `AccountKeepsPromises`: `ImplementsAccount => []Account!Promises`, so the abstract
  account is worth implementing: save for the lost stocks the account has one lot of
  each stock on record and nothing else, no strategy exceeds its limit, no barred
  stock is held. This needs nothing of what LiveTrader is: it is a proof about
  `TradingAccount`;
- `MomentumHolds`: `Faults = {} => (Spec => []MomentumIsIntraday)`. Only a session
  whose closing sweep is through saves its book, and a sweep without faults leaves no
  momentum position behind (`MomentumInv`);
- `SweepsEmptyTheAccount`: `Faults = {} => (Spec => []SweepEmptiesAccount)`. A forced
  close of everything, by the kill file or the drawdown, takes its targets from the
  book when it begins and awaits sale after sale. `WholeSweepInv`: what is held is
  among the targets left, or is the stock being sold, or a sold stock whose reply is
  coming; nothing is bought meanwhile, and no sale fails (`NoSaleFails`). So when the
  targets are through, the account is empty, with `BookInvariant` for the account as
  against the book. It is what `KillFileClosesHoldings` says, without that the sweep
  gets there;
- `BucketsNeverLeak` (`NoLeakedBudget`), from `MoneyInv` and `NotMore`: while the
  restored positions are being counted, a bucket covers at most those that have been
  visited, and a sale releases what its position cost because the order carries that
  amount;
- `BucketsExact`: `SameBalance /\ RestoresFit => (Spec => []BudgetExact)`. The
  restoring of positions drops the answer of `allocate`, so it must be shown never to
  be a refusal. An order costs a tenth of its bucket at most; `RestoresFit` says that
  as many orders of a tenth of the most generous regime's bucket as positions are
  allowed fit the bucket of every regime that trades. Without the hypotheses a
  restored position may not fit and is then not counted. `DefaultsFit` shows that the
  code's own shares and limits satisfy `RestoresFit`.

**OrderServiceProofs** begins with the kill switch, which the order service extends.

- `StopsSurvive`: without disk faults, `SwitchSpec => []StopSurvives`. Inductive
  invariant `StopInv`: the status file equals the status, and the last command being
  a stop implies that the *status* half is set. The manual flag plays no part, which
  is the reason its careless persistence does no harm in this direction.
- `HardStopsHold`: without disk faults, `SwitchSpec => HardStopOnlyResumed`.
- `SwitchIsFlag`: without disk faults, `SwitchSpec => ImplementsStopFlag`, the
  refinement. `FlagInv` adds that a user without commands has neither half set, in
  memory or in either file: without it a restart could stop a free user.
- `OrdersObeyTheSwitch`: `Spec => SwitchSpec`. The specification of the order service
  implements that of the kill switch: every step of an order is a step of the switch
  or leaves it alone (`OrderStepIsSwitchStep`). So the three theorems above hold of
  the server that takes orders, too.
- `RowsAndBrokerAgree` (`RowsMatchBroker`): `RowsInv` says for each place of a
  request what its row, the table and the market are.
- `StopsReachTheBroker` (`StoppedUsersDoNotTrade`): a user stopped since a request
  arrived is stopped in memory now (`HeldInv`), whatever the files say, and a restart
  ends the request.
- `LimitsHold` (`LimitsBounded`, for each strategy and for orders without one). What
  a request has read may be old when it inserts, so the sum of the rows alone is not
  inductive. `LimitsInv` counts what is coming with what is there: the invested
  orders together with those under way that have read and would pass (`Claims`), and
  the rows of today together with those that have been counted and are not committed
  (`Slots`), stay within the bound. A request that reads joins them with its own
  order, against a sum that leaves out at most one order of every other request under
  way.
- `OrderTypes` (`OrderTypeOK`).

**KiwoomClientProofs**

- `GatewayTyped`, with `OrdersOnce` (`OrderOnce`), from `OnceInv`: a call that is
  still looking for a token or sending has not executed its order, because the only
  step that may have executed it without success ends the call.
- `RefusedNotResent` (`RefusedTokenNotResent`), from `FreshInv`: after a refusal the
  refused token is in no place the call looks again, and no number is issued twice
  while in use.
- `LocksLetSomeoneGo`: `Spec => []SomeoneDoesNotWait`, which is `SomeoneProceeds`
  with `ENABLED` replaced by what each place of a call waits for (`Waits`).
  `LocksInv`: as long as no token has been refused, who holds the row has saved a
  token it can use and waits for nothing, and who holds the mutex waits at most for
  the row.

**ProcessManagerProofs**: `ManagerTyped` and `OneTrader` (`AtMostOneTrader`).
`ManagerInv`: while not `tangled`, each status stands for one configuration of
process, launch, monitor and stopper (`Settled`), and every step leads from one to
the next. Three theorems are the safety part of the liveness properties:

- `StatusTellsTheTruth`: while not `tangled`, nobody trades and nobody is launched in
  `idle`, `crashed` and `waiting_next`, and in `waiting_next` a monitor is there to
  begin the next day; whoever trades is the `process` a stop would wait for.
- `StopsGoOn`, tangled or not: in `stopping` there is a stop under way whose process
  was created, so either its timer or the exit will wake it. `StopInv` needs no
  `Settled`.
- `NoStaleKillFile`: while not `tangled`, the kill file is there only in `stopping`,
  so a stop of one day closes nothing on the next.

**KiwoomWebSocketProofs**: `SocketTyped`, `LogServed` (`LogIsServed`) and
`WantedServed` (`ServerKnowsWanted`). `SocketInv`: log and snapshot together hold
what is wanted, the server registers nothing outside of them that it has not refused
to drop, what is in the log during the replay or the message loop of a living
connection is registered or `denied`, and only a login it has accepted is read as
accepted.

**TuningProofs**

- `AppliedWasApproved` (`NothingAppliedUnapproved`) and `DecidedByThoseUnderWay`
  (`NoLateDecision`). `ReviewInv` and `ConfigInv`: a request carries key and value of
  a row that is there, rows keep both and never become pending again, no row of the
  configuration goes away, and what was not given is the value of a row in
  `approved`. A status changes only in `Commit`, which ends the request that had
  found the row pending; a request that begins finds a pending row, so none begins on
  a decided one.
- `StartedWithinBounds` (`TraderRunsWithinBounds`). `PipesInv` follows a value: the
  numbers of the stored review, the draft after filters and clamp (`MergeFact`, from
  `PickedFrom` and `ClampFact`) and every row of the table are within bounds; with
  `ConfigInv`, so is what is applied. Text in place of a number passes the clamp;
  with it the argument check ends the trader. What evades the filters is excepted by
  its form in the configuration, so the proof carries the bounds for all other forms.
- `TuningTypes` (`TuningTypeOK`), with `AuthorsInv`: a request that finds its author
  in the row it has seen leaves a row that is still there.

**ResearchProofs** has seven theorems, for any universe, daily prices, minute bars,
quotes, windows, arguments of the trader, page size and number of pages.

- `NewestDaysOnce` (`PagesGiveNewestDays`) and `WatchedAtMostTwice`
  (`WatchedTwiceOnlyIfUnloaded`) rest on `ScreenInv`. `PageInv`: the days read so far
  are exactly those from the cursor to the newest, with a repetition only where two
  pages meet, so none within the newest page (`Days`, `NewPage`). Leaving out the
  rows that cannot be read keeps the order of the others, so no average that the
  newest page has enough readable days for counts a day twice. `WatchInv`: the watch
  list is the file and then a list of distinct additions, each of which has prices;
  `FoundInv`: what is judged again has none and is judged once, so it is not among
  the additions of an earlier rescreening. That a screening names a stock once is
  `PicksIs`: the bonus, the rounded ratio and the place in the universe of two stocks
  are always comparable, so sorting them by the three is a permutation.
- `ScreeningPicksTheBest`: `PicksTheBest` says without any sorting what the file must
  be: everyone who passed is in it, it has `min_stocks` if the universe has them and
  no more if it names anyone who did not pass, no stock left out is better than one
  that was filled in, and each of the two parts has the best first. Better is by the
  bonus, then by the ratio *as it is kept*, rounded to four digits; between equals
  the universe's order decides, so a stock may be left out for one whose exact ratio
  is less than 0.0001 lower. `RankedIs` and `Picked`'s lemmas say that sorting,
  cutting and joining two lists does that.
- `EntriesNotSoldAtOnce` (`WorthEntering`), for any arguments. A price is natural and
  `Moves` asks for an ATR, so the stop and the gain are positive if the floors are,
  and a price bought at is neither. The stop is at most the larger of its multiple of
  the ATR and its floor; `Reward` times the one is at most the gain's multiple, and
  `Reward` times the other at most twice the floor, which is the gain's. A mean
  reversion entry has an RSI below `oversold`, so not one above `Overbought` if the
  first is not above the second, and its other exits need a price other than that of
  the entry.
- `ExitsAtFirstSignal` (`FirstExit`) and `ReplayFollowsTheTrader`
  (`ReplayBuysLikeTheTrader`) rest on `ReplayInv`. What the properties say of the
  bars is a function of the tape (`PeakOf`, `ExitOf`, `VolumeIn`, `OpenIn`), the
  engine keeps it from bar to bar. `ReplayInv` says that both agree at the last bar:
  a position's `peak` is the highest price since its entry bar (`HeldOn`), the
  cumulative volume and the opening price are those of the last bar's day
  (`CountsOn`, for which the days of the tape must not decrease), a trade was closed
  where it says (`TradedOn`), and nothing is on the tape while another stock's days
  are collected. `PlayIs` says what one bar does to the engine, `PeakGrows` and
  `DayGrows` what it does to the functions of the tape. `EntryLikeTrader` then
  compares the two conditions.
- `MonthlyBuysMeasured` (`BuysWhatItMeasured`): `BuyIsMeasured` goes through the
  operators of a signal; the trend index is a number whatever the months are
  (`DxTyped`, over the recursive smoothing).

Only model-checked: liveness under fairness (`KillFileClosesHoldings`,
`StopsForGood`, `EveryStopEnds`, `NextDayFollows`, `ComesThroughOrEnds`) and
`SomeoneProceeds` itself, which uses `ENABLED`: beyond the prover. What the first
four say without "eventually" is proved (`SweepsEmptyTheAccount`,
`StatusTellsTheTruth`, `StopsGoOn`), and so is `SomeoneProceeds` without `ENABLED`
(`LocksLetSomeoneGo`). Every other property of a passing run is a theorem's.

## Where code and documents disagree

`client_refused_doc` exhibits one: "token error: invalidate the cache, then try
again" (`kiwoom.py:367`). The invalidation locks the credential's row until the
request commits, then the retry waits for the token store's lock. Another request
that holds that lock waits for the row to save its token. Neither goes on, and no
timeout covers either wait.

Others were met while modelling; the models have the behaviour as the code does.

Trading process:

- In WebSocket mode the kill file only stops buying (`live_trader.py:1277`), against
  `check_web_kill_switch` (`live_trader.py:209`).
- After a drawdown of -3% everything is closed but no flag stops buying
  (`live_trader.py:1309`); `drawdown_guard.py:294` forbids new buys.
- Restoring overnight positions drops the answer of `allocate`
  (`live_trader.py:1804`): in a smaller account the bucket counts too little. Their
  sectors are not entered (`live_trader.py:1800`).
- Forced closes (`live_trader.py:965`, `1168`, `1220`) do not call
  `update_risk_after_trade`, which is said to count "after every closing"
  (`live_trader.py:284`): what they lose counts towards no blacklist.
- An overnight file that cannot be renamed is only logged (`live_trader.py:1120`) and
  loaded again after a session that does not save one, against the purpose of the
  renaming. An item or a whole file that cannot be read is a position nobody manages.
- "The less tight" of two stops is the result of `max` (`live_trader.py:777`,
  `1431`), which for negative rates is the tighter one.
- `force_close_time` is compared as typed (`live_trader.py:1316`): "15:10" is after
  every time before 16:00. An entry time "9:30" is after every time of a day, while
  "09:30" works (`backtest/strategy.py:84`).
- `--max-positions` and `--entry-end-time` are parsed and not used, though the
  process manager passes them (`process_manager.py:44`); a `high_52w_threshold` above
  0.95 contradicts the pullback the trader wants.
- "R:R = 1:2" (`live_trader.py:79`) holds for the defaults. Nothing compares the two
  multipliers, and the tuner's bounds (`param_tuner.py:17`) admit a gain below the
  stop; nor are a floor of 0, an entry after the forced close or an oversold RSI over
  70 refused.

Screening and backtests:

- Restoring a position sets the strategy of its stock to the one it was saved with
  (`live_trader.py:1802`); a rescreening that loads the stock's days classifies it
  anew (`live_trader.py:867`). The position keeps its own strategy for its exits
  (`live_trader.py:620`), a later entry takes the new one. In LiveTrader a stock has
  one strategy, so no property is about this.
- A rescreened stock whose subscription fails is never subscribed
  (`live_trader.py:906`); a stock whose first load failed is appended a second time;
  the rescreening reads five pages and calls their high that of 52 weeks.
- A failed page only shortens the history, and a repeated day counts twice in it; a
  failed screening leaves an older list in use.
- `backtest/engine.py:229` says "the same as live_trader"; the trader skips stocks
  that move less than 0.35%, caps the stop at -2% and wants a price 5% under the
  high. Averages, yearly high and ATR of a replay come from days after the bars,
  though `backtest/strategy.py:85` speaks of the day before.
- The summary in `run_backtest.py:420` prints keys `metrics.py` does not produce; one
  exception ends a whole grid search.
- `check_last_trading_day` decides nothing (`rebalance.py:3`); the table
  `monthly_signals` is in no migration, so storing always fails; `calc_monthly_adx`
  divides by the whole period, so a history of 15 months gives less than its trend,
  though `rebalance.py:125` says 15 suffice.

Orders and stops:

- No code sets `ACCEPTED`, and `order_state.py` has no way from `SUBMITTED` to
  `FILLED`: reports of executions are dropped (`api/v1/realtime.py:166`).
- `/trading/resume` (`trading.py:101`) leaves the manual flag of the toggle set, and
  the user stays stopped. `deactivate_manual_kill` (`kill_switch.py:177`) does not
  save; a restart may bring the stop back.
- A soft stop refuses sales too (`drawdown_guard.py:394`; `kill_switch.py:78` says
  holdings can be sold), and a hard stop sells nothing (`kill_switch.py:72`).
- An order whose check came before a hard stop is placed after it (`orders.py:154`;
  `trading.py:61` says the stop applies at once).
- A signal is logged as executed when its row is created (`ai/engine.py:207`) and
  never sent.

Processes and broker:

- A stop during a launch or while the monitor sleeps returns at once because
  `_process` is `None` (`process_manager.py:174`); a start afterwards gives two
  trading processes on one account, against the single one of
  `process_manager.py:52`.
- A shutdown during a stop leaves the trading process and the kill file
  (`process_manager.py:185`).
- A subscription sent before the login is through is answered first and taken for the
  login's answer (`broker/realtime.py:269`, `295`), which ends the loop.
- A registration the server refuses after the login is only logged
  (`realtime.py:419`); the key stays in `_subscriptions_log`, so the client takes it
  for subscribed, gets nothing, and sends it again with the next connection.
- `_replay_subscriptions` forgets what it fails to send (`realtime.py:389`) and
  registers again what was unsubscribed meanwhile.
- `run_until` compares a Korean clock time with UTC (`realtime.py:243`).
- A changed credential keeps its cached token (`settings.py:178`).
- `config/scheduler.py` constructs the broker client with an argument it does not
  have, so its jobs end in their exception handlers.

Review and tuning:

- `save_suggestions` inserts without an id that the migration does not generate
  (`param_tuner.py:268`, migration 003, line 111): nothing is ever saved, against
  `param_tuner.py:4`.
- No code writes the trades the win rate is computed from: it is always 0.5.
- A task killed after its commit inserts everything twice.
- "What is outside is clamped or left out" (`param_tuner.py:16`): a value `{"v":
  9.9}` is neither, for `float()` fails on it (`param_tuner.py:63`) and
  `_build_args_from_db` unwraps it (`process_manager.py:392`); " 09:30" passes the
  filter of times, and no time of a day is before it.
- Text for a numeric key passes the clamp, as does a fraction for `max_holding_days`,
  and the trader then ends in argparse.
- Approval and rejection at once may leave the value applied and the status rejected;
  an approval overwrites a value changed since the suggestion was made;
  `volume_ratio` can be approved and has no argument.

## What is not modelled

- Prices as the market makes them, the size of an order from its volatility, the
  detection of the market regime, the arithmetic of drawdown and weekly loss: their
  answers are chosen freely.
- The broker: orders are executed at once and in full in LiveTrader, as `execute_buy`
  and `execute_sell` assume; in OrderService in full or in parts. LiveTrader and
  OrderService see the client of KiwoomClient as success, refusal or a lost reply.
- The clock of `run_until`. What becomes of a restored stock that is not on today's
  list is in LiveTrader, whose watch lists differ from day to day; no property is
  stated, as no document promises such a stock an exit check. Both are listed as
  hazards without a property.
- LLM manager: used by the AI engine alone, which nothing schedules. Market data
  cache, collectors and regime history: read by people and the language model, or by
  nothing.
- Accounts, sessions, settings, strategy CRUD, the universe's rows: single-row writes
  behind unique indexes, with no part in trading but an id.
- Notifications swallow their errors; result files and messages are output. The relay
  of ticks to browsers keeps no state.
- Models and migrations are declarations; their rows appear where they are used. The
  holiday calendar is data. The frontend decides nothing but which button is offered.
  `backtest/data_fetcher.py` and `config/scheduler.py` do no work.

## Plan

Done: everything above. Left, in this order:

1. The composition of ProcessManager and LiveTrader: kill file, signals and exits in
   one state, a restart that finds the overnight file of a killed session.
2. The drawdown arithmetic of days and weeks, and `run_until`'s clock.
