------------------------------ MODULE Research ------------------------------
(***************************************************************************)
(* The screening, the trader's watch list and the backtests together: the  *)
(* file of the screening is what `--auto` of the trader and of the         *)
(* backtests reads.  They are processes of their own that share nothing    *)
(* but that file, so it is enough that they run one at a time.  The        *)
(* monthly rebalancing shares nothing with them: it runs before them.      *)
(***************************************************************************)
EXTENDS Screening, Backtest, Monthly

CONSTANTS
    DefaultSymbols,   \* of a backtest whose list is empty
    Quotes            \* [price, volume, dayOpen] the trader may be told

ASSUME ResearchAssumption ==
    /\ Symbols \in Seq(ToSet(Symbols)) \ {<<>>}
    /\ \A i, j \in DOMAIN Symbols : Symbols[i] = Symbols[j] => i = j
    /\ DefaultSymbols \in Seq(ToSet(DefaultSymbols)) \ {<<>>}
    /\ \A m \in Markets :
          /\ m \in [DOMAIN m -> Seq(DailyPrice \cup {Unreadable})]
          /\ ToSet(Symbols) \cup ToSet(DefaultSymbols) \subseteq DOMAIN m
    /\ Histories \subseteq Seq(DailyPrice)
    /\ \A q \in Quotes : q.price \in Nat
    /\ \A b \in Bars : {b.open, b.high, b.close, b.volume} \subseteq Nat

otherVars == <<pageVars, screenVars, testVars>>
vars == <<otherVars, monthVars>>

Init == PagesInit /\ ScreeningInit /\ BacktestInit /\ MonthlyInit

\* load_screened_symbols of the backtests: no file ends the script, an empty
\* list is replaced.
ScreenedSymbols == IF file = <<>> THEN DefaultSymbols ELSE file
AutoBacktest ==
    /\ task = "" /\ watched = <<>> /\ file # NoFile
    /\ StartBacktest(ScreenedSymbols)
    /\ UNCHANGED screenVars

DailyStep ==
    \/ Reads /\ UNCHANGED testVars
    \/ queue = <<>> /\ ScreeningStep /\ UNCHANGED testVars
    \/ AutoBacktest
    \/ BacktestStep /\ UNCHANGED screenVars
Next ==
    \/ MonthlyIdle /\ DailyStep /\ UNCHANGED monthVars
    \/ /\ file = NoFile /\ task = "" /\ watched = <<>> /\ queue = <<>>
       /\ MonthlyStep /\ UNCHANGED otherVars

Spec == Init /\ [][Next]_vars

\* Arguments that leave room between an entry and an exit: floors above zero,
\* an entry before the forced close, one RSI below the other.  Nothing checks
\* them.
LeavesRoom(how, a, time) ==
    IF how = "momentum"
    THEN a.minStop[1] > 0 /\ a.maxLoss[1] > 0 /\ time < a.forceClose
    ELSE a.stop[1] > 0 /\ a.gain[1] > 0 /\ AtMost(a.oversold, Overbought)

\* What a gain is worth: as many times the stop as its multiplier is times the
\* other, but twice at most, for the floor of the gain is twice that of the stop.
Reward(a) ==
    IF AtMost(Times2(a.atrStop), a.atrGain) THEN <<2, 1>>
    ELSE <<a.atrGain[1] * a.atrStop[2], a.atrGain[2] * a.atrStop[1]>>

\* Whatever the trader knows of a stock and whatever its arguments: a price at
\* which it buys is not one at which it would sell again at once, if they leave
\* room; and what it may gain with momentum is at least Reward times what it
\* may lose.  The entry and the exit of a strategy are separate conditions over
\* the same days, with the floors and the ceiling of the stop between them.
WorthEntering ==
    task = "" => \A s \in DOMAIN prices, q \in Quotes, p \in ToSet(Grid),
                    a \in TraderArgs, t \in Times :
        LET days == DaysOf(s, prices[s])
            how  == strategy[s]
            stop == DynamicStop(a, days, q.price)
        IN  TraderEntry(how, a, p, days, q.price, q.volume, <<1, 1>>, q.dayOpen, t) =>
              /\ LeavesRoom(how, a, t) =>
                    TraderExit(how, a, p, days, q.price, q.price, q.price, t) = ""
              /\ how = "momentum" =>
                    AtMost(<<Reward(a)[1] * stop[1], Reward(a)[2] * stop[2]>>,
                           DynamicGain(a, days, q.price))
=============================================================================
