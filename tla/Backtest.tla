------------------------------ MODULE Backtest ------------------------------
(***************************************************************************)
(* Backtests: scripts/run_backtest.py, backtest/engine.py,                 *)
(* backtest/metrics.py and the grid search over parameters.                *)
(*                                                                         *)
(* The engine plays the minute bars of some days through one strategy: a   *)
(* position is closed or opened at the close of a bar.  All bars are       *)
(* collected before the first is played; here each is chosen when it is    *)
(* played, which the engine cannot tell.  Days may end early and bars may  *)
(* be missing.                                                             *)
(***************************************************************************)
EXTENDS DailyPages, Strategies, Lists, SequencesExt

CONSTANTS
    Bars,         \* [open, high, close, volume] of a minute bar
    Times,        \* times of day at which there may be a bar
    MaxBars,      \* bound on the bars of a replay
    Grids,        \* [mode -> parameters to try, in the order of the combinations]
    MinTrades     \* --min-trades

Grid == Grids["day_trade"] \o Grids["swing"]

ASSUME BacktestAssumption ==
    /\ Times \subseteq Nat /\ MaxBars \in Nat /\ MinTrades \in Nat
    /\ \A g \in ToSet(Grid) :
          g.entryEnd \in Nat /\ g.forceClose \in Nat /\ g.entryEnd <= g.forceClose

VARIABLES
    queue,      \* the stocks to test, the present one first
    daily,      \* the collected daily prices
    calc,       \* what the engine computes before the first bar, see Calc
    params,     \* the strategy's parameters
    tape,       \* the bars played: [day, time, open, high, close, volume]
    engine,     \* see Fresh
    report      \* metrics of the replay and the grid search's order

testVars == <<queue, daily, calc, params, tape, engine, report>>
NoCalc   == <<>>
NoReport == <<>>

\* The engine's variables: open positions [at, price, peak], trades, the
\* day's cumulative volume and opening price, and the day.
Fresh == [positions |-> <<>>, trades |-> <<>>, volume |-> 0, dayOpen |-> 0, day |-> 0]

BacktestInit ==
    /\ queue = <<>> /\ daily = <<>> /\ calc = NoCalc
    /\ params = Grid[1] /\ tape = <<>> /\ engine = Fresh /\ report = NoReport

-----------------------------------------------------------------------------
(* The engine                                                              *)

\* Fixed stop and gain, or by ATR when the stock moves 0.35% a day.
Calc(p, days) ==
    LET share   == AtrShare(days, days[Len(days)].close)
        dynamic == /\ p.atrStop # None /\ days # <<>>
                   /\ share[1] > 0 /\ share[2] > 0 /\ ~ Less(share, <<35, 10000>>)
        times(tenths) == <<share[1] * tenths, share[2] * 10>>
        gain    == IF p.atrGain \in {None, 0} THEN 2 * p.atrStop ELSE p.atrGain
    IN  [high    |-> YearHigh(days), average |-> MeanVolume(days),
         rsi     |-> IF p.rsiMin # None /\ days # <<>> THEN Rsi(Closes(days)) ELSE <<>>,
         stop    |-> IF dynamic THEN Larger(times(p.atrStop), Permille(5))
                     ELSE Permille(p.stop),
         gain    |-> IF dynamic THEN Larger(times(gain), Permille(10))
                     ELSE Permille(p.takeProfit)]

ExitByEntry(p, c, position, bar) ==
    ExitSignal(p, position.price, bar.close, bar.time, c.stop, c.gain, position.price)
ExitAt(p, c, position, bar) ==
    ExitSignal(p, position.price, bar.close, bar.time, c.stop, c.gain, position.peak)
StartDayCounting(e, bar) ==
    IF bar.day = e.day THEN e ELSE [e EXCEPT !.dayOpen = bar.open, !.day = bar.day]
StartDay(e, bar) ==
    IF bar.day = e.day THEN e
    ELSE [e EXCEPT !.volume = 0, !.dayOpen = bar.open, !.day = bar.day]
Trade(position, n, price, why) ==
    [at |-> position.at, entry |-> position.price, until |-> n, exit |-> price,
     why |-> why, pnl |-> TradePnl(position.price, price)]

\* One bar, the n-th: peaks, then exits, then an entry.
Play(p, c, old, bar, n) ==
    LET e      == [StartDay(old, bar) EXCEPT !.volume = @ + bar.volume]
        peaked == [i \in DOMAIN e.positions |->
                     [e.positions[i] EXCEPT !.peak = Max({@, bar.high})]]
        leaving == {i \in DOMAIN peaked : ExitAt(p, c, peaked[i], bar) # ""}
        closed == Picked(peaked, leaving)
        kept   == Picked(peaked, DOMAIN peaked \ leaving)
        enters == /\ Len(kept) < p.maxPositions
                  /\ EntrySignal(p, bar.close, c.high, e.volume, c.average, c.rsi,
                                 e.dayOpen, bar.open, bar.time)
    IN  [e EXCEPT
           !.trades = @ \o [i \in DOMAIN closed |->
                Trade(closed[i], n, bar.close, ExitAt(p, c, closed[i], bar))],
           !.positions = IF enters
                THEN Append(kept, [at |-> n, price |-> bar.close, peak |-> bar.close])
                ELSE kept]

\* What is still open after the last bar is closed at its price.
CloseAll(e, bars) ==
    LET n == Len(bars)
    IN  [e EXCEPT !.trades = @ \o [i \in DOMAIN e.positions |->
                      Trade(e.positions[i], n, bars[n].close, "force_close")],
                  !.positions = <<>>]
Replay(p, days, bars) ==
    LET c == Calc(p, days)
        played[n \in 0..Len(bars)] ==
            IF n = 0 THEN Fresh ELSE Play(p, c, played[n-1], bars[n], n)
    IN  CloseAll(played[Len(bars)], bars)

-----------------------------------------------------------------------------
(* Metrics and ranking                                                     *)

\* Equity after each trade, from 10000, rounded down.
Equity(trades) ==
    LET e[i \in 0..Len(trades)] ==
          IF i = 0 THEN 10000 ELSE (e[i-1] * (10000 + trades[i].pnl)) \div 10000
    IN  e
\* _calc_max_drawdown's single pass, as a positive share in 1/10000.
MaxDrawdown(trades) ==
    LET equity == Equity(trades)
        pass[i \in 0..Len(trades)] ==
          IF i = 0 THEN [peak |-> 10000, worst |-> 0]
          ELSE LET peak == Max({pass[i-1].peak, equity[i]})
               IN  [peak  |-> peak,
                    worst |-> Max({pass[i-1].worst,
                                   ((peak - equity[i]) * 10000) \div peak})]
    IN  pass[Len(trades)].worst
Winning(trades) == {i \in DOMAIN trades : trades[i].pnl > 0}
Total(trades, some) ==
    SumFunctionOnSet([i \in DOMAIN trades |-> trades[i].pnl], some)
\* Infinite when nothing was lost but something won: 9999 in the ranking.
ProfitFactor(trades) ==
    LET won  == Total(trades, Winning(trades))
        lost == -Total(trades, DOMAIN trades \ Winning(trades))
    IN  IF lost > 0 THEN <<won, lost>> ELSE IF won > 0 THEN <<9999, 1>> ELSE <<0, 1>>
Metrics(trades) ==
    [trades |-> Len(trades), wins |-> Cardinality(Winning(trades)),
     drawdown |-> MaxDrawdown(trades), factor |-> ProfitFactor(trades)]

\* Positions of the grid, the best first; too few trades come last.
RankedGrid(metrics) ==
    LET enough(k) == metrics[k].trades >= MinTrades
        Before(j, k) ==
          \/ enough(j) /\ ~ enough(k)
          \/ /\ enough(j) = enough(k)
             /\ \/ Less(metrics[k].factor, metrics[j].factor)
                \/ ~ Less(metrics[j].factor, metrics[k].factor) /\ j < k
        n == Len(metrics)
    IN  Sorted(n, {p \in (1..n) \X (1..n) : Before(p[1], p[2])})

-----------------------------------------------------------------------------
(* run_backtest.py and run_grid_search.py                                  *)

StartBacktest(symbols) ==
    /\ queue = <<>>
    /\ queue' = symbols
    /\ \E k \in DOMAIN Grid : params' = Grid[k]
    /\ Ask("backtest", Head(symbols))
    /\ UNCHANGED <<daily, calc, tape, engine, report>>

\* What was found out about a stock changes nothing for the next one.
NextStock ==
    /\ queue' = Tail(queue)
    /\ daily' = <<>> /\ calc' = NoCalc /\ tape' = <<>> /\ engine' = Fresh
    /\ report' = NoReport
    /\ IF Len(queue) > 1 THEN Ask("backtest", queue[2]) /\ UNCHANGED params
       ELSE Drop /\ params' = Grid[1]

\* An exception ends the test of this stock; the next one is tested.
CollectFails ==
    /\ reader = "backtest" /\ Raised
    /\ NextStock
DailyCollected ==
    /\ reader = "backtest" /\ Read
    /\ daily' = Daily /\ calc' = Calc(params, Daily)
    /\ Drop
    /\ UNCHANGED <<queue, params, tape, engine, report>>
Collected == queue # <<>> /\ reader = "" /\ report = NoReport
\* Collecting the minute bars fails, or there are none.
NoMinutes == Collected /\ tape = <<>> /\ NextStock

Later(day, time) ==
    \/ tape = <<>> /\ day = 1
    \/ tape # <<>> /\ \/ day = Last(tape).day /\ time > Last(tape).time
                      \/ day = Last(tape).day + 1
NextBar ==
    /\ Collected /\ Len(tape) < MaxBars
    /\ \E b \in Bars, t \in Times, day \in {engine.day, engine.day + 1} :
         LET bar == [day |-> day, time |-> t, open |-> b.open, high |-> b.high,
                     close |-> b.close, volume |-> b.volume]
         IN  /\ Later(day, t)
             /\ tape' = Append(tape, bar)
             /\ engine' = Play(params, calc, engine, bar, Len(tape) + 1)
    /\ UNCHANGED <<pageVars, queue, daily, calc, params, report>>
LastBar ==
    /\ Collected /\ tape # <<>>
    /\ engine' = CloseAll(engine, tape)
    /\ LET grid == Grids[ModeFor(daily)]
           each == [k \in DOMAIN grid |-> Metrics(Replay(grid[k], daily, tape).trades)]
       IN  report' = [metrics |-> Metrics(engine'.trades), order |-> RankedGrid(each)]
    /\ UNCHANGED <<pageVars, queue, daily, calc, params, tape>>
Done == report # NoReport /\ NextStock

BacktestStep ==
    CollectFails \/ DailyCollected \/ NoMinutes \/ NextBar \/ LastBar \/ Done

-----------------------------------------------------------------------------
(* Properties                                                              *)

\* Every closed trade was closed at the first bar after its entry at which
\* the strategy says so, with the highest price since the entry (that of the
\* entry bar aside) as its peak; no open position has met such a bar.  The
\* engine keeps peaks and positions from bar to bar: this is what they are for.
Peak(at, n) == Max({tape[at].close} \cup {tape[i].high : i \in (at+1)..n})
ExitHere(at, n) ==
    ExitSignal(params, tape[at].close, tape[n].close, tape[n].time,
               calc.stop, calc.gain, Peak(at, n))
FirstExit ==
    /\ \A k \in DOMAIN engine.trades :
         LET t == engine.trades[k]
         IN  /\ t.entry = tape[t.at].close /\ t.exit = tape[t.until].close
             /\ \A n \in (t.at + 1)..(t.until - 1) : ExitHere(t.at, n) = ""
             /\ \/ t.until > t.at /\ t.why = ExitHere(t.at, t.until)
                \/ t.why = "force_close" /\ report # NoReport /\ t.until = Len(tape)
    /\ \A k \in DOMAIN engine.positions :
         \A n \in (engine.positions[k].at + 1)..Len(tape) :
             ExitHere(engine.positions[k].at, n) = ""

\* What the replay buys the trader's momentum strategy would buy at that price
\* too, given the same daily prices, none older than the engine's year, and
\* what the broker quotes then (the day's volume and opening price), were it
\* not for the trader's own filters: it wants the price 5% below the yearly
\* high and the stock to move.
DayOf(n)   == {i \in 1..n : tape[i].day = tape[n].day}
ReplayBuysLikeTheTrader ==
    Len(daily) <= YearDays => \A k \in DOMAIN engine.positions :
        LET n   == engine.positions[k].at
            day == DayOf(n)
            volume == SumFunctionOnSet([i \in DOMAIN tape |-> tape[i].volume], day)
        IN  MomentumEntry(params, daily, tape[n].close, volume, <<1, 1>>,
                          tape[Min(day)].open, tape[n].time)
=============================================================================
