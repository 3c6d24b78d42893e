------------------------------ MODULE Monthly ------------------------------
(***************************************************************************)
(* The monthly rebalancing: dags/monthly/rebalance.py and                  *)
(* plugins/analysis/monthly_trend.py.  The stocks of pool A are read from  *)
(* the database, their months from KRX, one stock after the other, and     *)
(* each gets a signal from its 12 month average.                           *)
(***************************************************************************)
EXTENDS Strategies, Lists

CONSTANTS
    Histories,      \* what KRX may answer: the months of a stock, or none
    PoolStocks,     \* the stocks that may be in pool A, in their order
    MaMonths, SlopeMonths, VolumeMonths   \* 12, 3, 6

ASSUME MonthlyAssumption ==
    {MaMonths, SlopeMonths, VolumeMonths} \subseteq Nat \ {0}

VARIABLES
    pool,      \* the stocks still to fetch
    months,    \* <<stock, its months>> of those that were fetched
    signals    \* <<stock, signal>>
monthVars == <<pool, months, signals>>

MonthlyInit == pool = <<>> /\ months = <<>> /\ signals = <<>>
MonthlyIdle == pool = <<>> /\ months = <<>>

-----------------------------------------------------------------------------
\* The average of the last MaMonths, 0 without them.
MovingAverage(prices) ==
    IF Len(prices) < MaMonths THEN <<0, 1>>
    ELSE <<SumOf(Recent(prices, MaMonths)), MaMonths>>
SlopeOfAny(prices) ==
    Less(MovingAverage(Upto(prices, Len(prices) - SlopeMonths)), MovingAverage(prices))
SlopeUp(prices) ==
    /\ Len(prices) >= MaMonths + SlopeMonths
    /\ Less(MovingAverage(Upto(prices, Len(prices) - SlopeMonths)), MovingAverage(prices))

\* The last month against the months before it, in ten-thousandths.
VolumeRise(history) ==
    LET n      == Len(history)
        before == IF n > VolumeMonths
                  THEN SumOf([i \in 1..VolumeMonths |-> history[n - i].volume]) ELSE 0
    IN  IF before = 0 THEN 10000
        ELSE Rounded(10000 * history[n].volume * VolumeMonths, before)

\* In hundredths.  Fewer DX than the period are divided by the whole period.
MonthlyAdx(history) ==
    IF Len(history) < AdxPeriod + 1 \/ Dx(history) = <<>> THEN 0
    ELSE Rounded(SmoothedDx(Dx(history)), 10 * AdxPeriod)

\* check_monthly_ma12.
MonthlySignal(history) ==
    LET close   == history[Len(history)].close
        average == MovingAverage(Closes(history))
    IN  IF Len(history) < MaMonths + 1 THEN "hold"
        ELSE IF Less(<<close, 1>>, average) THEN "sell"
        ELSE IF /\ Less(<<average[1] * 101, average[2] * 100>>, <<close, 1>>)
                /\ SlopeUp(Closes(history))
                /\ VolumeRise(history) >= 15000
                /\ MonthlyAdx(history) > 2500
             THEN "buy" ELSE "hold"

-----------------------------------------------------------------------------
\* Whatever users have put into the pool.  The check for the last trading
\* day runs beside it; nothing waits for its answer.
LoadUniverse ==
    /\ MonthlyIdle
    /\ \E chosen \in (SUBSET DOMAIN PoolStocks) \ {{}} :
          pool' = Picked(PoolStocks, chosen)
    /\ UNCHANGED <<months, signals>>

\* A stock without an answer is left out.
FetchMonths ==
    /\ pool # <<>>
    /\ pool' = Tail(pool)
    /\ \/ \E h \in Histories : months' = Append(months, <<Head(pool), h>>)
       \/ UNCHANGED months
    /\ UNCHANGED signals

GenerateSignals ==
    /\ pool = <<>> /\ months # <<>> /\ signals = <<>>
    /\ signals' = [i \in DOMAIN months |-> <<months[i][1], MonthlySignal(months[i][2])>>]
    /\ UNCHANGED <<pool, months>>

\* Without holds: stored, which fails for want of the table and is only
\* logged, and sent.
MonthlyEnds ==
    /\ signals # <<>>
    /\ months' = <<>> /\ signals' = <<>>
    /\ UNCHANGED pool

MonthlyStep == LoadUniverse \/ FetchMonths \/ GenerateSignals \/ MonthlyEnds

-----------------------------------------------------------------------------
\* A stock is bought only for what was measured.  Each measure has a default
\* for a short history, and a missing average, 0, is one that every price
\* exceeds and every later average too; and the index, which divides by the
\* whole period however few months there are, never makes a trend stronger
\* than the mean of what it has seen, rounding included.
BuysWhatItMeasured ==
    \A i \in DOMAIN signals : signals[i][2] = "buy" =>
        LET history == months[i][2]
            dx      == Dx(history)
        IN  /\ Len(history) >= MaMonths + SlopeMonths
            /\ Len(history) > VolumeMonths
            /\ IF Len(dx) < AdxPeriod THEN SumOf(dx) > 25000 * Len(dx)
               ELSE Adx(history) > 25000
=============================================================================
