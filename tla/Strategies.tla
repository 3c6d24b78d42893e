----------------------------- MODULE Strategies -----------------------------
(***************************************************************************)
(* The trading signals: strategy/indicators.py, backtest/strategy.py,      *)
(* strategy/momentum.py and strategy/mean_reversion.py, and the filters of *)
(* scripts/live_trader.py between an entry signal and the order.           *)
(*                                                                         *)
(* A ratio is a fraction <<num, den>> with den > 0 and is compared by      *)
(* cross-multiplication, as exact as the code's floats are; where the code *)
(* rounds before it compares, so does Rounded.  A DX is kept in            *)
(* thousandths of a point, rounded down.  A time of day is a number, its   *)
(* order is that of the HHMM strings.                                      *)
(***************************************************************************)
EXTENDS Integers, Sequences, FiniteSetsExt, Functions

CONSTANTS
    RsiPeriod, BollingerPeriod, AtrPeriod, AdxPeriod,   \* 14, 20, 20, 14
    VolumeDays,   \* 20, days of the average volume
    YearDays,     \* 250, days of the yearly high
    TraderArgs    \* what the trader may be started with, see Args

\* The trader's own arguments, ratios without their sign.  Whoever starts it
\* may give any of them; the defaults are in the comments.
Fraction == Nat \X (Nat \ {0})
Args ==
    [atrStop : Fraction, atrGain : Fraction,   \* 1.2 and 3.0 times the ATR
     minAtr : Fraction, minStop : Fraction,    \* 0.35%, 0.5%
     maxLoss : Fraction, forceClose : Nat,     \* 2%, 15:15
     oversold : Fraction, bandWidth : Fraction, volume : Fraction,  \* 40, 1.5, 0.8
     stop : Fraction, gain : Fraction]         \* of mean reversion: 1.5%, 1.5%

ASSUME StrategiesAssumption ==
    /\ {RsiPeriod, BollingerPeriod, AtrPeriod, AdxPeriod} \subseteq Nat \ {0}
    /\ {VolumeDays, YearDays} \subseteq Nat \ {0}
    /\ TraderArgs \subseteq Args

\* A day or a month of a stock.  The sign the broker puts before a price is
\* dropped.
DailyPrice == [open : Nat, high : Nat, low : Nat, close : Nat, volume : Nat]

None == -1    \* an optional parameter that is not set

Less(p, q)   == p[1] * q[2] < q[1] * p[2]
AtMost(p, q) == p[1] * q[2] <= q[1] * p[2]
Larger(p, q) == IF Less(p, q) THEN q ELSE p
Smaller(p, q) == IF Less(p, q) THEN p ELSE q
Magnitude(n) == IF n < 0 THEN -n ELSE n
Permille(n)  == <<n, 1000>>
\* round() of a quotient; a half, which the code's floats hardly meet, goes up.
Rounded(n, d) == (2 * n + d) \div (2 * d)

\* prices[-n:]
Recent(s, n) == SubSeq(s, Max({1, Len(s) - n + 1}), Len(s))
\* s[:n]
Upto(s, n)   == SubSeq(s, 1, Min({n, Len(s)}))
SumOf(s)     == SumFunctionOnSet(s, DOMAIN s)

Closes(daily)    == [i \in DOMAIN daily |-> daily[i].close]
MeanVolume(daily) ==
    LET recent == Recent(daily, VolumeDays)
    IN  IF daily = <<>> THEN 0
        ELSE SumOf([i \in DOMAIN recent |-> recent[i].volume]) \div Len(recent)
YearHigh(daily)  ==
    IF daily = <<>> THEN 0
    ELSE LET recent == Recent(daily, YearDays)
         IN  Max({recent[i].high : i \in DOMAIN recent})

-----------------------------------------------------------------------------
(* Indicators                                                              *)

Rsi(prices) ==
    LET moves == Recent([i \in 1..(Len(prices) - 1) |-> prices[i+1] - prices[i]],
                        RsiPeriod)
        gain == SumOf([i \in DOMAIN moves |-> Max({moves[i], 0})])
        loss == SumOf([i \in DOMAIN moves |-> Max({-moves[i], 0})])
    IN  IF Len(prices) < RsiPeriod + 1 THEN <<50, 1>>
        ELSE IF loss = 0 THEN <<100, 1>> ELSE <<100 * gain, gain + loss>>

\* n times the middle band, n^2 times the variance.
Bollinger(prices) ==
    LET window == IF Len(prices) < BollingerPeriod THEN Recent(prices, 1)
                  ELSE Recent(prices, BollingerPeriod)
        n     == Len(window)
        total == SumOf(window)
    IN  [n |-> n, total |-> total,
         variance |-> n * SumOf([i \in DOMAIN window |-> window[i] * window[i]])
                        - total * total]
AboveMiddle(price, band) == band.n * price > band.total
BelowLower(price, band, width) ==
    LET gap == band.total - band.n * price
    IN  /\ gap > 0
        /\ width[1] * width[1] * band.variance < width[2] * width[2] * gap * gap

TrueRange(daily, i) ==
    Max({daily[i].high - daily[i].low,
         Magnitude(daily[i].high - daily[i-1].close),
         Magnitude(daily[i].low - daily[i-1].close)})
Atr(daily) ==
    LET ranges == Recent([i \in 1..(Len(daily) - 1) |-> TrueRange(daily, i + 1)],
                         AtrPeriod)
    IN  IF Len(daily) < 2 THEN <<0, 1>> ELSE <<SumOf(ranges), Len(ranges)>>
\* The ATR as a share of a price.
AtrShare(daily, price) == <<Atr(daily)[1], Atr(daily)[2] * price>>

\* Wilder's smoothing of moves 1, 2, ... from the sum of the first AdxPeriod,
\* as fractions with powers of AdxPeriod as denominators.
Smoothed(moves) ==
    LET s[k \in AdxPeriod..Len(moves)] ==
          IF k = AdxPeriod THEN <<SumOf(Upto(moves, AdxPeriod)), 1>>
          ELSE LET last == s[k-1]
                   den  == last[2] * AdxPeriod
               IN  <<last[1] * (AdxPeriod - 1) + moves[k] * den, den>>
    IN  s
\* DX of moves AdxPeriod + 1, AdxPeriod + 2, ... in thousandths.
Dx(daily) ==
    LET up(i)    == daily[i+1].high - daily[i].high
        down(i)  == daily[i].low - daily[i+1].low
        larger(a, b) == IF a > 0 /\ a > b THEN a ELSE 0
        moves    == Len(daily) - 1
        rises    == Smoothed([i \in 1..moves |-> larger(up(i), down(i))])
        falls    == Smoothed([i \in 1..moves |-> larger(down(i), up(i))])
        of(r, f) == IF r + f = 0 THEN 0 ELSE (100000 * Magnitude(r - f)) \div (r + f)
    IN  [i \in 1..(moves - AdxPeriod) |-> of(rises[i + AdxPeriod][1], falls[i + AdxPeriod][1])]
\* AdxPeriod times the smoothed DX after k of them.
SmoothedDx(dx) ==
    LET s[k \in AdxPeriod..Max({AdxPeriod, Len(dx)})] ==
          IF k = AdxPeriod THEN SumOf(Upto(dx, AdxPeriod))
          ELSE (s[k-1] * (AdxPeriod - 1)) \div AdxPeriod + dx[k]
    IN  s[Max({AdxPeriod, Len(dx)})]
Adx(daily) ==
    IF Len(daily) < 2 * AdxPeriod \/ Len(Dx(daily)) < AdxPeriod THEN 0
    ELSE SmoothedDx(Dx(daily)) \div AdxPeriod

\* ATR% > 3% with ADX > 25, ATR% < 2%, or neither.
ClassifyVolatility(daily) ==
    LET close == daily[Len(daily)].close
        share == AtrShare(daily, close)
    IN  IF Len(daily) < 2 \/ close = 0 THEN "conservative"
        ELSE IF Less(<<3, 100>>, share) /\ Adx(daily) > 25000 THEN "momentum"
        ELSE IF Less(share, <<2, 100>>) THEN "mean_reversion" ELSE "conservative"
\* The trader's two strategies and the grid search's two modes.
StrategyFor(daily) ==
    IF ClassifyVolatility(daily) = "mean_reversion" THEN "mean_reversion" ELSE "momentum"
ModeFor(daily) ==
    IF ClassifyVolatility(daily) = "momentum" THEN "day_trade" ELSE "swing"

-----------------------------------------------------------------------------
(* Momentum breakout                                                       *)

\* p.stop, p.takeProfit, p.trailing and p.change in thousandths, the stop and
\* the trailing distance without their sign; p.volume and p.high52 fractions.
EntrySignal(p, price, high, volume, average, rsi, dayOpen, barOpen, time) ==
    /\ time >= p.entryStart /\ time < p.entryEnd
    /\ p.bullish /\ barOpen > 0 => price > barOpen
    /\ average > 0
    /\ volume * p.volume[2] >= average * p.volume[1]
    /\ p.high52[1] > 0 => /\ high > 0
                          /\ price * p.high52[2] >= high * p.high52[1]
    /\ p.change > 0 /\ dayOpen > 0 => (price - dayOpen) * 1000 >= p.change * dayOpen
    /\ p.rsiMin # None /\ rsi # <<>> => ~ Less(rsi, <<p.rsiMin, 1>>)

Loss(entry, price) == <<entry - price, entry>>    \* negative for a gain

\* The reason to leave at this price and time, "" for none.
ExitSignal(p, entry, price, time, stop, takeProfit, peak) ==
    IF entry <= 0 THEN ""
    ELSE IF AtMost(stop, Loss(entry, price)) THEN "stop_loss"
    ELSE IF /\ p.trailing # None /\ peak > entry
            /\ AtMost(Permille(p.trailing), Loss(peak, price)) THEN "trailing_stop"
    ELSE IF p.trailing = None /\ AtMost(takeProfit, <<price - entry, entry>>)
         THEN "take_profit"
    ELSE IF time >= p.forceClose THEN "force_close" ELSE ""

\* In hundredths of a percent, after 0.23% of costs.
TradePnl(entry, exit) ==
    IF entry <= 0 THEN 0 ELSE ((exit - entry) * 10000) \div entry - 23

\* The strategy as the trader uses it: the day's average volume is scaled to
\* the share of the session that has passed, and no bar is known.
MomentumEntry(p, daily, price, volume, share, dayOpen, time) ==
    LET recent == Recent(daily, VolumeDays)
        total  == SumOf([i \in DOMAIN recent |-> recent[i].volume])
    IN  /\ daily # <<>>
        /\ EntrySignal(p, price, Max({daily[i].high : i \in DOMAIN daily}), volume,
                       (total * share[1]) \div (Len(recent) * share[2]),
                       <<>>, dayOpen, 0, time)

-----------------------------------------------------------------------------
(* Mean reversion: Overbought is the one parameter that is not an argument *)

Overbought == <<70, 1>>
EnoughDays(daily) == Len(daily) >= Max({RsiPeriod + 1, BollingerPeriod})

ReversionEntry(a, daily, price, volume, share) ==
    LET recent == Recent(daily, VolumeDays)
        total  == SumOf([i \in DOMAIN recent |-> recent[i].volume])
    IN  /\ EnoughDays(daily)
        /\ Less(Rsi(Closes(daily)), a.oversold)
        /\ BelowLower(price, Bollinger(Closes(daily)), a.bandWidth)
        /\ volume * Len(recent) * share[2] * a.volume[2] >= total * share[1] * a.volume[1]

\* By the price alone (check_exit_signal), then by the indicators.
ReversionExit(a, daily, entry, price) ==
    IF entry <= 0 THEN ""
    ELSE IF AtMost(a.stop, Loss(entry, price)) THEN "stop_loss"
    ELSE IF AtMost(a.gain, <<price - entry, entry>>) THEN "take_profit"
    ELSE IF ~ EnoughDays(daily) THEN ""
    ELSE IF Less(Overbought, Rsi(Closes(daily))) THEN "rsi_overbought"
    ELSE IF AboveMiddle(price, Bollinger(Closes(daily))) /\ price > entry
         THEN "bb_center_reversion" ELSE ""

-----------------------------------------------------------------------------
(* The trader between a signal and the order: for either strategy a price  *)
(* 5% below the yearly high; for momentum a stock that moves, and a stop   *)
(* and a gain of its own, by the ATR.                                      *)

PulledBack(daily, price) ==
    LET high == Max({daily[i].high : i \in DOMAIN daily})
    IN  high > 0 => AtMost(<<5, 100>>, <<high - price, high>>)
Moves(a, daily, price) ==
    /\ Atr(daily)[1] > 0 /\ price > 0
    /\ ~ Less(AtrShare(daily, price), a.minAtr)

Times2(q) == <<2 * q[1], q[2]>>
AtrTimes(daily, price, times) ==
    <<AtrShare(daily, price)[1] * times[1], AtrShare(daily, price)[2] * times[2]>>
DynamicStop(a, daily, price) ==
    Smaller(Larger(AtrTimes(daily, price, a.atrStop), a.minStop), a.maxLoss)
GainByStopMultiplier(a, daily, price) ==
    Larger(AtrTimes(daily, price, a.atrStop), Times2(a.minStop))
DynamicGain(a, daily, price) ==
    Larger(AtrTimes(daily, price, a.atrGain), Times2(a.minStop))

TraderEntry(how, a, p, daily, price, volume, share, dayOpen, time) ==
    /\ daily # <<>> /\ PulledBack(daily, price)
    /\ IF how = "momentum"
       THEN /\ MomentumEntry(p, daily, price, volume, share, dayOpen, time)
            /\ Moves(a, daily, price)
       ELSE ReversionEntry(a, daily, price, volume, share)
\* The strategy's own time to close is left out (it is asked at 00:00 and that
\* answer ignored): the trader has one in its arguments.
TraderExit(how, a, p, daily, entry, price, peak, time) ==
    LET signal == ExitSignal(p, entry, price, 0, DynamicStop(a, daily, entry),
                             DynamicGain(a, daily, entry), peak)
    IN  IF how # "momentum" THEN ReversionExit(a, daily, entry, price)
        ELSE IF signal \notin {"", "force_close"} THEN signal
        ELSE IF time >= a.forceClose THEN "force_close" ELSE ""
=============================================================================
