----------------------------- MODULE DailyPages -----------------------------
(***************************************************************************)
(* Reading a stock's daily prices page by page (ka10086), as               *)
(* fetch_daily_pages of scripts/screen_symbols.py, load_daily_context of   *)
(* scripts/live_trader.py and collect_daily of scripts/run_backtest.py     *)
(* each do: from today backwards, the date of the oldest row received      *)
(* being the date of the next question.                                    *)
(*                                                                         *)
(* The broker is external.  Whether it answers a date with that day's row  *)
(* in front, or with the days before it, is not said anywhere and is a     *)
(* constant of a behaviour.                                                *)
(***************************************************************************)
EXTENDS Integers, Sequences, FiniteSetsExt, Lists

CONSTANTS
    Symbols,     \* UNIVERSE, in its order
    Markets,     \* the daily prices there may be: [symbol -> days, oldest first]
    Unreadable,  \* a row of such a listing with numbers that are none
    PageSize,    \* rows of a page
    MaxPages     \* pages of a reader at most: 5 for the rescreening, else 13

ASSUME PageAssumption ==
    /\ PageSize \in Nat \ {0}
    /\ MaxPages \in [{"screen", "rescreen", "trader", "backtest"} -> Nat \ {0}]

VARIABLES
    market,      \* the daily prices at the broker
    inclusive,   \* whether a page begins with the day asked for
    reader,      \* who reads, see Readers; "" for nobody
    asked,       \* the stock that is read
    rows,        \* all_raw: the days received, as positions in its listing, in order
    cursor,      \* qry_dt
    pages,       \* pages received
    tries        \* failures of the page asked for

pageVars == <<market, inclusive, reader, asked, rows, cursor, pages, tries>>

\* What the readers do alike but for their numbers: attempts per page, and
\* whether giving up leaves the days received so far or raises.
Readers ==
    [screen   |-> [tries |-> 2, raises |-> FALSE],
     rescreen |-> [tries |-> 2, raises |-> FALSE],
     trader   |-> [tries |-> 2, raises |-> FALSE],
     backtest |-> [tries |-> 3, raises |-> TRUE]]

PagesInit ==
    /\ market \in Markets /\ inclusive \in BOOLEAN
    /\ reader = "" /\ asked = "" /\ rows = <<>>
    /\ cursor = 0 /\ pages = 0 /\ tries = 0

Listing(s) == market[s]
Readable(s, day) == Listing(s)[day] # Unreadable

Ask(who, s) ==
    /\ reader' = who /\ asked' = s /\ rows' = <<>>
    /\ cursor' = Len(Listing(s)) + 1 /\ pages' = 0 /\ tries' = 0
    /\ UNCHANGED <<market, inclusive>>
Drop ==
    /\ reader' = "" /\ asked' = "" /\ rows' = <<>>
    /\ cursor' = 0 /\ pages' = 0 /\ tries' = 0
    /\ UNCHANGED <<market, inclusive>>

NewestOfPage == IF inclusive THEN Min({cursor, Len(Listing(asked))}) ELSE cursor - 1
OldestOfPage == Max({1, NewestOfPage - PageSize + 1})
DayBefore    == OldestOfPage - 1
NextCursor   == OldestOfPage

\* An empty page ends the reading, so does the last page allowed.
Exhausted == NewestOfPage <= 0 \/ pages = MaxPages[reader]
PageArrives ==
    /\ reader # "" /\ ~ Exhausted /\ tries < Readers[reader].tries
    /\ rows' = [i \in 1..(NewestOfPage - OldestOfPage + 1) |-> OldestOfPage + i - 1]
                 \o rows
    /\ cursor' = NextCursor
    /\ pages' = pages + 1
    /\ tries' = 0
    /\ UNCHANGED <<market, inclusive, reader, asked>>

PageFails ==
    /\ reader # "" /\ pages < MaxPages[reader]
    /\ tries < Readers[reader].tries
    /\ tries' = tries + 1
    /\ UNCHANGED <<market, inclusive, reader, asked, rows, cursor, pages>>

GivenUp == reader # "" /\ tries = Readers[reader].tries
Raised  == GivenUp /\ Readers[reader].raises
Read    == reader # "" /\ (GivenUp \/ Exhausted) /\ ~ Raised
\* The rows are parsed when all are there; one that cannot be is left out.
Parsed  == Picked(rows, {i \in DOMAIN rows : Readable(asked, rows[i])})
Daily   == [i \in DOMAIN Parsed |-> Listing(asked)[Parsed[i]]]
=============================================================================
