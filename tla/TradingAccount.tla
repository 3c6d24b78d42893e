--------------------------- MODULE TradingAccount ---------------------------
(***************************************************************************)
(* What a trading process promises about its account, with trades that     *)
(* happen in one instant: the account and the program's record of it       *)
(* change together, and every rule of entry holds at that instant.  The    *)
(* record lives on when a session closes and the next one opens; the rules *)
(* of a session (stopped, barred stocks, sectors) only get tighter in it   *)
(* and are forgotten with it.                                              *)
(*                                                                         *)
(* Three things may go wrong, and all are owned up to in `lost': the last  *)
(* trade of a stock never reaches the record, a session fails and leaves   *)
(* no record or an old one, or a session opens with a part of the record.  *)
(* LiveTrader implements this with orders that are checked, sent and       *)
(* recorded in separate steps, a position book that is saved to a file and *)
(* read back, and an order that may be under way when the process ends.    *)
(***************************************************************************)
EXTENDS Integers, FiniteSets

CONSTANTS Symbols, Classified, Sector, MaxPositions

VARIABLES
    running,    \* a session is under way
    holdings,   \* lots the account has of each stock
    book,       \* stocks on record as held, between sessions too
    taken,      \* sectors entered in this session
    stopped,    \* no more entries in this session
    barred,     \* stocks not to be entered any more in this session
    lost        \* stocks whose record was cut off from the account

rules       == <<taken, stopped, barred>>
accountVars == <<running, holdings, book, rules, lost>>

AccountInit ==
    /\ running = FALSE
    /\ holdings = [s \in Symbols |-> 0]
    /\ book = {} /\ lost = {}
    /\ taken = {} /\ stopped = FALSE /\ barred = {}

\* Stocks of the sector "other" are not counted against each other.
SectorOf(s) == {Sector[s]} \ {"other"}
SameStrategy(S, s) == {t \in S : Classified[t] = Classified[s]}
Room(s) == Cardinality(SameStrategy(book, s)) < MaxPositions[Classified[s]]

Open ==
    /\ ~running /\ running' = TRUE
    /\ book' \in SUBSET book
    /\ lost' \in {lost \cup (book \ book'), lost \cup book}
    /\ UNCHANGED <<holdings, rules>>

Buy(s) ==
    /\ running /\ ~stopped
    /\ s \notin book \cup barred
    /\ Sector[s] \notin taken
    /\ Room(s)
    /\ holdings' = [holdings EXCEPT ![s] = @ + 1]
    /\ book' = book \cup {s}
    /\ taken' = taken \cup SectorOf(s)
    /\ UNCHANGED <<running, stopped, barred, lost>>

Sell(s) ==
    /\ running
    /\ s \in book /\ holdings[s] > 0
    /\ holdings' = [holdings EXCEPT ![s] = @ - 1]
    /\ book' = book \ {s}
    /\ UNCHANGED <<running, rules, lost>>

\* A stop, or a stock that is not held and has lost too often.
Tighten ==
    /\ running
    /\ stopped => stopped'
    /\ \/ UNCHANGED barred
       \/ \E s \in Symbols \ book : barred' = barred \cup {s}
    /\ UNCHANGED <<running, holdings, book, taken, lost>>

\* The record of a trade is lost: a bought stock is off the record with its
\* sector, a sold one is on it again.
Mislay(s) ==
    /\ running
    /\ lost' = lost \cup {s}
    /\ \/ s \in book /\ book' = book \ {s} /\ taken' = taken \ SectorOf(s)
       \/ s \notin book /\ book' = book \cup {s} /\ UNCHANGED taken
    /\ UNCHANGED <<running, holdings, stopped, barred>>

Forget == taken' = {} /\ stopped' = FALSE /\ barred' = {}

Close ==
    /\ running /\ running' = FALSE
    /\ Forget
    /\ UNCHANGED <<holdings, book, lost>>

\* The session ends without a record, maybe with a trade under way; what is on
\* record afterwards was lost before.
Fail ==
    /\ running /\ running' = FALSE
    /\ Forget
    /\ \/ lost' = lost \cup book
       \/ \E s \in Symbols : lost' = lost \cup book \cup {s}
    /\ book' \subseteq lost
    /\ UNCHANGED holdings

AccountNext ==
    \/ Open \/ Tighten \/ Close \/ Fail
    \/ \E s \in Symbols : Buy(s) \/ Sell(s) \/ Mislay(s)

AccountSpec == AccountInit /\ [][AccountNext]_accountVars

-----------------------------------------------------------------------------
\* What follows: apart from the lost stocks the account has one lot of each
\* stock on record and nothing else, no strategy has more than its number of
\* them, and none of them is barred.
OnRecord == \A s \in Symbols \ lost : holdings[s] = IF s \in book THEN 1 ELSE 0
Counted  ==
    \A s \in Symbols :
        Cardinality(SameStrategy(book \ lost, s)) <= MaxPositions[Classified[s]]
NoneBarred == barred \cap book \subseteq lost
Promises == OnRecord /\ Counted /\ NoneBarred
=============================================================================
