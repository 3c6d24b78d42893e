----------------------------- MODULE Screening -----------------------------
(***************************************************************************)
(* Choosing the stocks to trade: scripts/screen_symbols.py, the list it    *)
(* writes, and the trader's use of both (load_screened_symbols,            *)
(* load_daily_context, the classification by volatility and _run_rescreen  *)
(* of scripts/live_trader.py).                                             *)
(*                                                                         *)
(* The process manager runs the screening before it starts the trader and  *)
(* goes on when it fails: the trader then reads the list of an earlier     *)
(* day.  During the session the trader judges the rest of the universe     *)
(* again and adds what passes.                                             *)
(***************************************************************************)
EXTENDS DailyPages, Strategies, Lists, SequencesExt

CONSTANTS
    MinStocks,      \* --min-stocks
    Threshold,      \* --threshold, of the yearly high
    VolumeRatio,    \* --volume-ratio, of the average volume
    BullishDays     \* 5

ASSUME ScreeningAssumption == MinStocks \in Nat /\ BullishDays \in Nat

VARIABLES
    task,       \* the loop that reads prices, "" for none
    todo,       \* the stocks it has still to read, the present one first
    found,      \* the stocks judged, or (rescreening) those that passed
    loaded,     \* what load_daily_context has so far: stock -> its days
    file,       \* symbols of the newest screened_*.json, NoFile for none
    watched,    \* the trader's symbols; <<>> when it is not running
    prices,     \* state.daily_prices, the days as positions in the listing
    strategy    \* state.symbol_strategies

screenVars == <<task, todo, found, loaded, file, watched, prices, strategy>>
NoFile == <<"none">>
Nothing == <<>>

ScreeningInit ==
    /\ task = "" /\ todo = <<>> /\ found = <<>> /\ loaded = Nothing
    /\ file = NoFile
    /\ watched = <<>> /\ prices = Nothing /\ strategy = Nothing

-----------------------------------------------------------------------------
(* Judging a stock                                                         *)

Today(daily) == daily[Len(daily)]

RoseBy3(daily) ==
    /\ Len(daily) >= 2
    /\ LET before == daily[Len(daily) - 1].close
       IN  before # 0 /\ (Today(daily).close - before) * 100 >= 3 * before
Surges(daily) ==
    LET recent == Recent(daily, VolumeDays)
        total  == SumOf([i \in DOMAIN recent |-> recent[i].volume])
    IN  /\ Len(daily) >= VolumeDays /\ total # 0
        /\ Today(daily).volume * Len(recent) >= 2 * total
KeepsRising(daily) ==
    /\ Len(daily) >= BullishDays
    /\ \A i \in (Len(daily) - BullishDays + 1)..Len(daily) :
          daily[i].close > daily[i].open
AtYearHigh(daily) == daily # <<>> /\ Today(daily).close >= YearHigh(daily)
Point(condition) == IF condition THEN 1 ELSE 0
Bonus(daily) == Point(RoseBy3(daily)) + Point(Surges(daily))
                  + Point(KeepsRising(daily)) + Point(AtYearHigh(daily))

\* check_screen_condition's 20 days are the days of the average volume.
Judgeable(daily) == Len(daily) >= VolumeDays
HighRatio(daily) ==
    IF YearHigh(daily) > 0 THEN <<Today(daily).close, YearHigh(daily)>> ELSE <<0, 1>>
Passes(daily) ==
    /\ AtMost(Threshold, HighRatio(daily))
    /\ IF MeanVolume(daily) > 0
       THEN Today(daily).volume * VolumeRatio[2] >= MeanVolume(daily) * VolumeRatio[1]
       ELSE VolumeRatio[1] = 0
\* What is kept of the ratio: four digits of it, here in ten-thousandths.
Judgement(s, daily) ==
    [symbol |-> s, passed |-> Passes(daily), bonus |-> Bonus(daily),
     ratio |-> Rounded(10000 * HighRatio(daily)[1], HighRatio(daily)[2])]

\* Descending by bonus and the ratio kept, in the order of the universe between
\* equals.
Ranked(list) ==
    LET Before(i, j) ==
          \/ list[i].bonus > list[j].bonus
          \/ /\ list[i].bonus = list[j].bonus
             /\ \/ list[i].ratio > list[j].ratio
                \/ list[i].ratio = list[j].ratio /\ i < j
        n     == Len(list)
        order == Sorted(n, {p \in (1..n) \X (1..n) : Before(p[1], p[2])})
    IN  [i \in 1..n |-> list[order[i]]]
\* Those that passed, filled up with the best of the others.
Picks(list) ==
    LET good   == {i \in DOMAIN list : list[i].passed}
        passed == Ranked(Picked(list, good))
        others == Ranked(Picked(list, DOMAIN list \ good))
        fill   == Min({Len(others), Max({0, MinStocks - Len(passed)})})
        all    == passed \o SubSeq(others, 1, fill)
    IN  [i \in DOMAIN all |-> all[i].symbol]

-----------------------------------------------------------------------------
(* screen_symbols.py                                                       *)

\* The loop goes on to the next stock, or is over.
Goes(on, who) == todo' = on /\ Ask(who, Head(on))
Over == task' = "" /\ todo' = <<>> /\ Drop

StartScreening ==
    /\ task = "" /\ watched = <<>>
    /\ task' = "screen" /\ Goes(Symbols, "screen")
    /\ UNCHANGED <<found, loaded, file, watched, prices, strategy>>

WithJudgement ==
    IF Judgeable(Daily) THEN Append(found, Judgement(asked, Daily)) ELSE found
ScreenNext ==
    /\ task = "screen" /\ Read /\ Len(todo) > 1
    /\ found' = WithJudgement
    /\ Goes(Tail(todo), "screen")
    /\ UNCHANGED <<task, loaded, file, watched, prices, strategy>>
ScreenSaves ==
    /\ task = "screen" /\ Read /\ Len(todo) = 1
    /\ file' = Picks(WithJudgement)
    /\ found' = <<>>
    /\ Over
    /\ UNCHANGED <<loaded, watched, prices, strategy>>
\* The script fails or is killed: no file is written.
ScreenDies ==
    /\ task = "screen"
    /\ found' = <<>> /\ Over
    /\ UNCHANGED <<loaded, file, watched, prices, strategy>>

-----------------------------------------------------------------------------
(* The trader                                                              *)

\* It ends at once when there is no list or an empty one.
StartTrader ==
    /\ task = "" /\ watched = <<>> /\ file \notin {NoFile, <<>>}
    /\ watched' = file
    /\ task' = "load" /\ Goes(file, "trader")
    /\ UNCHANGED <<found, loaded, file, prices, strategy>>

\* What is known of stocks, with what is new.
Updated(old, new) ==
    [s \in DOMAIN old \cup DOMAIN new |-> IF s \in DOMAIN new THEN new[s] ELSE old[s]]
WithRows ==
    IF rows = <<>> THEN loaded ELSE Updated(loaded, [s \in {asked} |-> Parsed])
LoadNext ==
    /\ task \in {"load", "reload"} /\ Read /\ Len(todo) > 1
    /\ loaded' = WithRows
    /\ Goes(Tail(todo), "trader")
    /\ UNCHANGED <<task, found, file, watched, prices, strategy>>

DaysOf(s, days) == [i \in DOMAIN days |-> Listing(s)[days[i]]]
Classified(new) == [s \in DOMAIN new |-> StrategyFor(DaysOf(s, new[s]))]
\* With no prices at all the trader ends.
Loaded ==
    /\ task = "load" /\ Read /\ Len(todo) = 1
    /\ prices' = WithRows /\ strategy' = Classified(WithRows)
    /\ watched' = IF WithRows = Nothing THEN <<>> ELSE watched
    /\ loaded' = Nothing
    /\ Over
    /\ UNCHANGED <<found, file>>

\* What is judged again: the universe but for the stocks with prices.
Universe == Symbols
NotLoaded ==
    Picked(Symbols, {i \in DOMAIN Symbols : Symbols[i] \notin DOMAIN prices})
StartRescreen ==
    /\ task = "" /\ watched # <<>> /\ NotLoaded # <<>>
    /\ task' = "rescreen" /\ Goes(NotLoaded, "rescreen")
    /\ UNCHANGED <<found, loaded, file, watched, prices, strategy>>
WithPass ==
    IF Judgeable(Daily) /\ Passes(Daily) THEN Append(found, asked) ELSE found
RescreenNext ==
    /\ task = "rescreen" /\ Read /\ Len(todo) > 1
    /\ found' = WithPass
    /\ Goes(Tail(todo), "rescreen")
    /\ UNCHANGED <<task, loaded, file, watched, prices, strategy>>
Rescreened ==
    /\ task = "rescreen" /\ Read /\ Len(todo) = 1
    /\ found' = WithPass
    /\ IF WithPass = <<>> THEN Over
       ELSE task' = "reload" /\ Goes(WithPass, "trader")
    /\ UNCHANGED <<loaded, file, watched, prices, strategy>>
Added(new) == Picked(found, {i \in DOMAIN found : found[i] \in DOMAIN new})
Reloaded ==
    /\ task = "reload" /\ Read /\ Len(todo) = 1
    /\ prices' = Updated(prices, WithRows)
    /\ strategy' = Updated(strategy, Classified(WithRows))
    /\ watched' = watched \o Added(WithRows)
    /\ found' = <<>> /\ loaded' = Nothing
    /\ Over
    /\ UNCHANGED file

\* The day is over or the process is killed.
TraderEnds ==
    /\ watched # <<>>
    /\ watched' = <<>> /\ prices' = Nothing /\ strategy' = Nothing
    /\ found' = <<>> /\ loaded' = Nothing
    /\ Over
    /\ UNCHANGED file

Reads == (PageArrives \/ PageFails) /\ UNCHANGED screenVars
ScreeningStep ==
    \/ StartScreening \/ ScreenNext \/ ScreenSaves \/ ScreenDies
    \/ StartTrader \/ LoadNext \/ Loaded
    \/ StartRescreen \/ RescreenNext \/ Rescreened \/ Reloaded \/ TraderEnds

-----------------------------------------------------------------------------
(* Properties                                                              *)

\* The trader has the newest days of a stock without a gap but for the rows it
\* cannot read: a page that could not be had costs the oldest days only.  And
\* although every page may repeat the last day of the page before it, the
\* averages over the last days count no day twice, as long as the newest page
\* has as many days that can be read.
PagesGiveNewestDays ==
    \A s \in DOMAIN prices :
        LET last   == Len(Listing(s))
            recent == Recent(prices[s], VolumeDays)
            newest == (last - PageSize + 1)..last
        IN  /\ \E first \in DOMAIN Listing(s) :
                   ToSet(prices[s]) = {d \in first..last : Readable(s, d)}
            /\ /\ last >= PageSize
               /\ Cardinality({d \in newest : Readable(s, d)}) >= VolumeDays
               => Cardinality(ToSet(recent)) = Len(recent)

\* The trader polls a stock twice only when its first load brought nothing:
\* the rescreening leaves out the stocks it has prices of, not those it
\* watches.  Never more than once is it added.
WatchedTwiceOnlyIfUnloaded ==
    \A s \in ToSet(watched) :
        LET times == Cardinality({i \in DOMAIN watched : watched[i] = s})
        IN  times <= 2 /\ (times = 2 => s \in ToSet(file) /\ s \in DOMAIN prices)
=============================================================================
