-------------------------- MODULE LiveTraderProofs --------------------------
(***************************************************************************)
(* Proofs about LiveTrader for any symbols, limits, balances and faults.   *)
(***************************************************************************)
EXTENDS LiveTrader, DataLemmas, TLAPS

(***************************************************************************)
(* Type correctness.                                                       *)
(***************************************************************************)

\* An order record is either the empty one or a typed one; in particular an
\* order with a side has a symbol and an amount.
Orders == [side : {"buy", "sell"}, sym : Symbols,
           cost : {0} \cup OrderAmounts, why : Reasons, sent : BOOLEAN]

LEMMA OrderTyped ==
    ASSUME TypeOK, order # NoOrder
    PROVE  order \in Orders
  BY DEF TypeOK, Orders

LEMMA SideNotNone ==
    /\ order.side \in {"buy", "sell"} => order # NoOrder
    /\ order.sent = TRUE => order # NoOrder
  BY DEF NoOrder

\* allocate and release keep the used amounts natural numbers: this is what
\* max(0, ...) in release is for.
LEMMA AllocateTyped ==
    ASSUME NEW u \in [Strategies -> Nat], NEW st \in Strategies,
           NEW amount \in Nat, NEW b, NEW r
    PROVE  Allocate(b, r, u, st, amount) \in [Strategies -> Nat]
  BY DEF Allocate

LEMMA ReleaseTyped ==
    ASSUME NEW u \in [Strategies -> Nat], NEW st \in Strategies,
           NEW amount \in Nat
    PROVE  Release(u, st, amount) \in [Strategies -> Nat]
  BY DEF Release

LEMMA EmptyTyped ==
    /\ EmptyBook \in [Symbols -> Position]
    /\ NoUse \in [Strategies -> Nat]
    /\ NoLosses \in [Symbols -> Nat]
    /\ [s \in Symbols |-> 0] \in [Symbols -> Nat]
  BY DEF EmptyBook, NoUse, NoLosses, NoPosition, Position

LEMMA AmountTyped ==
    ASSUME NEW c \in {0} \cup OrderAmounts
    PROVE  c \in Nat
  BY MoneyAssumption

LEMMA PositionTyped ==
    ASSUME NEW book \in [Symbols -> Position], NEW s \in Symbols
    PROVE  book[s].cost \in {0} \cup OrderAmounts /\ book[s].cost \in Nat
  <1>1. book[s].cost \in {0} \cup OrderAmounts
    BY DEF Position
  <1>2. book[s].cost \in Nat
    BY <1>1, AmountTyped
  <1> QED
    BY <1>1, <1>2

LEMMA ProcessGoneTyped ==
    ASSUME TypeOK, ProcessGone, killFile' \in BOOLEAN,
           overnight' \in [Symbols -> Position],
           holdings' \in [Symbols -> Nat], lost' \subseteq Symbols
    PROVE  TypeOK'
  BY EmptyTyped DEF TypeOK, ProcessGone, Phases, Regimes

LEMMA EmptyBookHoldsNothing ==
    /\ \A s \in Symbols : ~IsHeld(EmptyBook, s)
    /\ HeldIn(EmptyBook) = {}
  BY DEF EmptyBook, IsHeld, HeldIn, NoPosition

\* A session opens with some of the positions of the file, and the file is
\* emptied or stays as it is; what the book and the file do not account for
\* afterwards is lost.
Loaded ==
    /\ positions' \in [Symbols -> Position]
    /\ overnight' \in {overnight, EmptyBook}
    /\ \A s \in Symbols :
            positions'[s] = overnight[s] \/ positions'[s] = NoPosition
    /\ lost \subseteq lost' /\ lost' \subseteq lost \cup HeldIn(overnight)
    /\ \A s \in Symbols \ lost' :
            /\ IsHeld(positions', s) <=> IsHeld(overnight, s)
            /\ ~IsHeld(overnight', s)

LEMMA Loading ==
    ASSUME TypeOK, LoadOvernightPositions
    PROVE  Loaded
  <1> USE DEF TypeOK, Loaded, Position, NoPosition, IsHeld, HeldIn, EmptyBook
  <1>1. CASE positions' = overnight /\ overnight' = EmptyBook /\ UNCHANGED lost
    BY <1>1
  <1>2. CASE ~(positions' = overnight /\ overnight' = EmptyBook
               /\ UNCHANGED lost)
    <2>1. PICK read \in SUBSET HeldIn(overnight) :
            /\ positions' = [s \in Symbols |-> IF s \in read
                                              THEN overnight[s]
                                              ELSE NoPosition]
            /\ \/ /\ overnight' = EmptyBook
                  /\ lost' = lost \cup (HeldIn(overnight) \ read)
               \/ /\ UNCHANGED overnight
                  /\ lost' = lost \cup HeldIn(overnight)
      BY <1>2 DEF LoadOvernightPositions
    <2> QED
      BY <2>1
  <1> QED
    BY <1>1, <1>2

\* In particular a session opens with no more than the file held.
LEMMA LoadingHolds ==
    ASSUME Loaded
    PROVE  HeldIn(positions)' \subseteq HeldIn(overnight)
           /\ HeldIn(overnight)' \in {HeldIn(overnight), {}}
  <1>1. \A s \in Symbols : IsHeld(positions', s) => IsHeld(overnight, s)
    BY DEF Loaded, IsHeld, NoPosition
  <1>2. HeldIn(positions)' \subseteq HeldIn(overnight)
    BY <1>1 DEF HeldIn, IsHeld
  <1>3. HeldIn(overnight)' \in {HeldIn(overnight), {}}
    BY EmptyBookHoldsNothing DEF Loaded, HeldIn, IsHeld
  <1> QED
    BY <1>2, <1>3

LEMMA InitTyped == Init => TypeOK
  <1> SUFFICES ASSUME Init PROVE TypeOK
    OBVIOUS
  <1> QED
    BY EmptyTyped DEF Init, TypeOK, Phases, Regimes

\* Sessions being started.
LEMMA StartupTyped == TypeOK /\ Startup => TypeOK'
  <1> SUFFICES ASSUME TypeOK, Startup PROVE TypeOK'
    OBVIOUS
  <1>1. CASE StartSession
    <2>1. /\ positions' \in [Symbols -> Position]
          /\ overnight' \in [Symbols -> Position]
          /\ lost' \subseteq Symbols
      BY <1>1, EmptyTyped, Loading DEF StartSession, Loaded, TypeOK, HeldIn
    <2> QED
      BY <1>1, <2>1, WatchlistsAssumption, MoneyAssumption
      DEF TypeOK, StartSession, HeldIn, riskVars, Phases
  <1>2. CASE RestoreBudget
    <2>1. PICK s \in todo :
            /\ used' = Allocate(balance, regime, used, Classified[s],
                                positions[s].cost)
            /\ todo' = todo \ {s}
      BY <1>2 DEF RestoreBudget
    <2>2. used' \in [Strategies -> Nat]
      BY <2>1, AllocateTyped, PositionTyped, ClassifiedAssumption DEF TypeOK
    <2> QED
      BY <1>2, <2>1, <2>2
      DEF TypeOK, RestoreBudget, sessionVars, riskVars, worldVars
  <1>3. CASE StartupPhaseDone
    BY <1>3, ModeAssumption, ZenonT(30)
    DEF TypeOK, StartupPhaseDone, Phases, Held, HeldIn, bookVars, worldVars
  <1> QED
    BY <1>1, <1>2, <1>3 DEF Startup

LEMMA SubmitTyped ==
    ASSUME TypeOK, NEW side \in {"buy", "sell"}, NEW s \in Symbols,
           NEW cost \in {0} \cup OrderAmounts, NEW why \in Reasons,
           Submit(side, s, cost, why)
    PROVE  order' \in Orders
  BY DEF Submit, Orders

\* Ticks, cycles and visits.
LEMMA LoopTyped == TypeOK /\ Loop => TypeOK'
  <1> SUFFICES ASSUME TypeOK, Loop PROVE TypeOK'
    OBVIOUS
  <1> USE DEF sessionVars, bookVars, riskVars, walkVars, worldVars
  <1>1. CASE HandleTick
    BY <1>1 DEF TypeOK, HandleTick, CheckWebKillSwitch
  <1>2. CASE PollCycle
    BY <1>2 DEF TypeOK, PollCycle, CheckWebKillSwitch, Phases
  <1>3. CASE CycleDone
    BY <1>3 DEF TypeOK, CycleDone, Phases
  <1>4. CASE WaitOver
    BY <1>4 DEF TypeOK, WaitOver, Phases, Held, HeldIn
  <1>5. CASE VisitNothing
    BY <1>5 DEF TypeOK, VisitNothing
  <1>6. CASE VisitSell
    <2>1. PICK s \in todo, why \in Reasons :
            /\ IsHeld(positions, s)
            /\ Submit("sell", s, positions[s].cost, why)
            /\ todo' = todo \ {s}
      BY <1>6 DEF VisitSell
    <2>2. order' \in Orders
      BY <2>1, SubmitTyped, PositionTyped DEF TypeOK
    <2> QED
      BY <1>6, <2>1, <2>2 DEF TypeOK, VisitSell, Orders
  <1>7. CASE VisitBuy
    <2>1. PICK s \in todo, cost \in OrderAmounts :
            /\ Submit("buy", s, cost, "entry")
            /\ todo' = todo \ {s}
      BY <1>7 DEF VisitBuy
    <2>2. order' \in Orders
      BY <2>1, SubmitTyped DEF TypeOK, Reasons
    <2> QED
      BY <1>7, <2>1, <2>2 DEF TypeOK, VisitBuy, Orders
  <1> QED
    BY <1>1, <1>2, <1>3, <1>4, <1>5, <1>6, <1>7 DEF Loop

\* Replies to orders.
LEMMA RepliesTyped == TypeOK /\ Replies => TypeOK'
  <1> SUFFICES ASSUME TypeOK, Replies PROVE TypeOK'
    OBVIOUS
  <1> USE DEF sessionVars, bookVars, riskVars, walkVars, worldVars
  <1>1. CASE BrokerAccepts
    <2>1. order \in Orders
      BY <1>1, OrderTyped DEF BrokerAccepts
    <2>2. order' \in Orders
      BY <1>1, <2>1 DEF BrokerAccepts, Orders
    <2>3. holdings' \in [Symbols -> Nat]
      BY <1>1, <2>1 DEF BrokerAccepts, Executable, TypeOK, Orders
    <2> QED
      BY <1>1, <2>2, <2>3 DEF TypeOK, BrokerAccepts, Orders
  <1>2. CASE OrderFails
    <2>1. order \in Orders
      BY <1>2, OrderTyped DEF OrderFails
    <2> QED
      BY <1>2, <2>1 DEF TypeOK, OrderFails, Orders
  <1>3. CASE ExecuteBuy
    <2>1. order \in Orders
      BY <1>3, OrderTyped, SideNotNone DEF ExecuteBuy
    <2> DEFINE s == order.sym
    <2>1a. s \in Symbols /\ order.cost \in {0} \cup OrderAmounts
      BY <2>1 DEF Orders
    <2>2. s \in Symbols /\ order.cost \in Nat
      BY <2>1a, AmountTyped
    <2>3. positions' \in [Symbols -> Position]
      <3>1. [cost |-> order.cost, today |-> TRUE] \in Position
        BY <2>1a DEF Position
      <3> QED
        BY <1>3, <2>2, <3>1 DEF ExecuteBuy, TypeOK
    <2>4. used' \in [Strategies -> Nat]
      BY <1>3, <2>2, AllocateTyped, ClassifiedAssumption
      DEF ExecuteBuy, TypeOK
    <2>5. sectors' \subseteq STRING
      BY <1>3, <2>2, SectorAssumption DEF ExecuteBuy, SectorTaken, TypeOK
    <2> QED
      BY <1>3, <2>3, <2>4, <2>5 DEF TypeOK, ExecuteBuy
  <1>4. CASE ExecuteSell
    <2>1. order \in Orders
      BY <1>4, OrderTyped, SideNotNone DEF ExecuteSell
    <2> DEFINE s == order.sym
    <2>1a. s \in Symbols /\ order.cost \in {0} \cup OrderAmounts
      BY <2>1 DEF Orders
    <2>2. s \in Symbols /\ order.cost \in Nat
      BY <2>1a, AmountTyped
    <2>3. positions' \in [Symbols -> Position]
      BY <1>4, <2>2 DEF ExecuteSell, TypeOK, Position, NoPosition
    <2>4. used' \in [Strategies -> Nat]
      BY <1>4, <2>2, ReleaseTyped, ClassifiedAssumption
      DEF ExecuteSell, TypeOK
    <2>5. /\ losses' \in [Symbols -> Nat] /\ blacklist' \subseteq Symbols
          /\ drawdown' \in {"unset"} \cup DrawdownActions
          /\ stopBuy' \in BOOLEAN
          /\ todo' \subseteq Symbols /\ targets' \subseteq Symbols
          /\ sweep' \in {"none", "all", "momentum"}
      <3>1. CASE order.why \in {"exit", "late"}
        <4>1. PICK loss \in BOOLEAN, action \in DrawdownActions :
                UpdateRiskAfterTrade(s, loss) /\ UpdateDrawdown(action)
          BY <1>4, <3>1 DEF ExecuteSell
        <4> QED
          BY <4>1, <2>2
          DEF TypeOK, UpdateRiskAfterTrade, UpdateDrawdown, StopBuyAfter,
              HeldIn
      <3>2. CASE order.why \notin {"exit", "late"}
        BY <1>4, <3>2 DEF ExecuteSell, TypeOK
      <3> QED
        BY <3>1, <3>2
    <2> QED
      BY <1>4, <2>3, <2>4, <2>5 DEF TypeOK, ExecuteSell
  <1> QED
    BY <1>1, <1>2, <1>3, <1>4 DEF Replies

LEMMA EndOfDayTyped ==
    ASSUME TypeOK, EnterEndOfDay, lost' \subseteq Symbols
    PROVE  TypeOK'
  BY DEF TypeOK, EnterEndOfDay, EndOfDayTargets, OfStrategy, Held, HeldIn,
         Phases, bookVars, riskVars

\* Forced closes and ends of sessions.
LEMMA ClosingTyped == TypeOK /\ Closing => TypeOK'
  <1> SUFFICES ASSUME TypeOK, Closing PROVE TypeOK'
    OBVIOUS
  <1> USE DEF sessionVars, bookVars, riskVars, worldVars
  <1>1. CASE ForceCloseNext
    <2>1. PICK s \in targets :
            /\ targets' = targets \ {s}
            /\ \/ UNCHANGED order
               \/ Submit("sell", s, positions[s].cost, "sweep")
      BY <1>1 DEF ForceCloseNext
    <2>2. UNCHANGED order \/ order' \in Orders
      BY <2>1, SubmitTyped, PositionTyped DEF TypeOK, Reasons
    <2> QED
      BY <1>1, <2>1, <2>2 DEF TypeOK, ForceCloseNext, Orders
  <1>2. CASE ForceCloseDone
    BY <1>2 DEF TypeOK, ForceCloseDone
  <1>3. CASE PollingEnds
    BY <1>3, EndOfDayTyped DEF PollingEnds, TypeOK
  <1>4. CASE LiquidationDone
    BY <1>4, EndOfDayTyped DEF LiquidationDone, TypeOK
  <1>5. CASE WebSocketEnds
    <2>1. lost' \subseteq Symbols
      BY <1>5, OrderTyped, SideNotNone DEF WebSocketEnds, TypeOK, Orders
    <2> QED
      BY <1>5, <2>1, EndOfDayTyped DEF WebSocketEnds
  <1>6. CASE SaveOvernightPositions
    <2>1. overnight' \in [Symbols -> Position]
      BY <1>6, ZenonT(30) DEF SaveOvernightPositions, TypeOK, Position
    <2> QED
      BY <1>6, <2>1, ProcessGoneTyped DEF SaveOvernightPositions, TypeOK
  <1>7. CASE FailureExit
    BY <1>7, ProcessGoneTyped DEF FailureExit, TypeOK, Held, HeldIn
  <1> QED
    BY <1>1, <1>2, <1>3, <1>4, <1>5, <1>6, <1>7 DEF Closing

\* Everything the environment does, and the failure path of main().
LEMMA OthersTyped ==
    TypeOK /\ (Rescreen \/ ForceCloseTime \/ MainFails \/ Killed
               \/ TouchKillFile) => TypeOK'
  <1> USE DEF sessionVars, bookVars, riskVars, walkVars, worldVars
  <1>1. ASSUME TypeOK, Rescreen PROVE TypeOK'
    BY <1>1 DEF TypeOK, Rescreen
  <1>2. ASSUME TypeOK, ForceCloseTime PROVE TypeOK'
    BY <1>2 DEF TypeOK, ForceCloseTime
  <1>3. ASSUME TypeOK, MainFails PROVE TypeOK'
    BY <1>3 DEF TypeOK, MainFails, Phases, Held, HeldIn
  <1>4. ASSUME TypeOK, Killed PROVE TypeOK'
    <2>1. lost' \subseteq Symbols
      BY <1>4, OrderTyped, SideNotNone
      DEF Killed, TypeOK, Orders, Held, HeldIn
    <2> QED
      BY <1>4, <2>1, ProcessGoneTyped DEF Killed, TypeOK
  <1>5. ASSUME TypeOK, TouchKillFile PROVE TypeOK'
    BY <1>5 DEF TypeOK, TouchKillFile
  <1> QED
    BY <1>1, <1>2, <1>3, <1>4, <1>5

LEMMA TypeStep == TypeOK /\ [Next]_vars => TypeOK'
  <1>1. TypeOK /\ UNCHANGED vars => TypeOK'
    BY DEF TypeOK, vars, sessionVars, bookVars, riskVars, walkVars, worldVars
  <1> QED
    BY <1>1, StartupTyped, LoopTyped, RepliesTyped, ClosingTyped, OthersTyped
    DEF Next

\* Every variable keeps its type; the amounts in use stay natural numbers.
THEOREM TypeCorrect == Spec => []TypeOK
  BY InitTyped, TypeStep, PTL DEF Spec

(***************************************************************************)
(* The position book and the account.  BookMatchesBroker alone is not      *)
(* inductive: what an order in flight does to the account is only right    *)
(* because it was sent for a symbol in the opposite state and nobody else  *)
(* touches that symbol before its reply, and a restart is only right       *)
(* because the overnight file is consumed when it is loaded, or what it    *)
(* still holds is among the lost.                                          *)
(***************************************************************************)

\* force_close_all only walks symbols that are held and not under way.
SweepInv ==
    /\ targets \subseteq Held
    /\ sweep = "none" => targets = {}
    /\ order # NoOrder => order.sym \notin targets

\* A buy is under way for a symbol that is not held, a sale for one that is.
OrderInv ==
    order # NoOrder =>
        /\ order.cost > 0
        /\ order.side = "buy"  => ~IsHeld(positions, order.sym)
        /\ order.side = "sell" => IsHeld(positions, order.sym)

\* Where no order can be under way, and where the overnight file has nothing
\* that is not lost.
PhaseInv ==
    /\ phase \in {"off", "restore", "poll", "wait"} =>
            order = NoOrder /\ sweep = "none"
    /\ phase # "off" => \A s \in Symbols \ lost : ~IsHeld(overnight, s)

BookInv == SweepInv /\ OrderInv /\ PhaseInv /\ BookMatchesBroker

LEMMA BookInit == Init => BookInv
  BY EmptyBookHoldsNothing
  DEF Init, BookInv, SweepInv, OrderInv, PhaseInv, BookMatchesBroker,
      Recorded, InFlight, Held, NoOrder

\* A restart records what the file recorded, and empties the file.
LEMMA BookStartup == TypeOK /\ BookInv /\ Startup => BookInv'
  <1> SUFFICES ASSUME TypeOK, BookInv, Startup PROVE BookInv'
    OBVIOUS
  <1> USE DEF BookInv, SweepInv, OrderInv, PhaseInv, BookMatchesBroker,
              Recorded, InFlight
  <1>1. CASE StartSession
    <2>1. Loaded
      BY <1>1, Loading DEF StartSession
    <2>2. /\ order' = NoOrder /\ sweep' = "none" /\ targets' = {}
          /\ phase = "off" /\ phase' = "restore" /\ UNCHANGED holdings
          /\ ~NoOrder.sent
      BY <1>1 DEF StartSession, NoOrder
    <2>3. \A s \in Symbols \ lost' : Recorded(s)' <=> Recorded(s)
      BY <2>1, <2>2 DEF Loaded
    <2>4. \A s \in Symbols \ lost' :
            holdings'[s] = IF Recorded(s)' THEN 1 ELSE 0
      BY <2>1, <2>2, <2>3 DEF Loaded
    <2> HIDE DEF Recorded
    <2>5. BookMatchesBroker'
      BY <2>4
    <2> QED
      BY <2>1, <2>2, <2>5 DEF Loaded
  <1>2. CASE RestoreBudget
    BY <1>2
    DEF RestoreBudget, sessionVars, worldVars, Held, HeldIn, IsHeld
  <1>3. CASE StartupPhaseDone
    BY <1>3, ModeAssumption
    DEF StartupPhaseDone, Idle, bookVars, worldVars, Held, HeldIn, IsHeld
  <1> QED
    BY <1>1, <1>2, <1>3 DEF Startup

\* Visits send orders only for symbols in the opposite state.
LEMMA BookLoop == TypeOK /\ BookInv /\ Loop => BookInv'
  <1> SUFFICES ASSUME TypeOK, BookInv, Loop PROVE BookInv'
    OBVIOUS
  <1> USE DEF BookInv, SweepInv, OrderInv, PhaseInv, BookMatchesBroker,
              Recorded, InFlight, sessionVars, bookVars, riskVars, walkVars,
              worldVars
  <1>1. CASE HandleTick
    BY <1>1 DEF HandleTick, Held, HeldIn, IsHeld
  <1>2. CASE PollCycle
    BY <1>2 DEF PollCycle, Held, HeldIn, IsHeld
  <1>3. CASE CycleDone
    BY <1>3 DEF CycleDone, Idle, Held, HeldIn, IsHeld
  <1>4. CASE WaitOver
    BY <1>4 DEF WaitOver, Held, HeldIn, IsHeld, NoOrder
  <1>5. CASE VisitNothing
    BY <1>5 DEF VisitNothing, Held, HeldIn, IsHeld
  <1>6. CASE VisitSell
    <2>1. PICK s \in todo, why \in Reasons :
            /\ IsHeld(positions, s)
            /\ MayExit(s, why)
            /\ Submit("sell", s, positions[s].cost, why)
      BY <1>6 DEF VisitSell
    <2>2. phase \in {"gap", "hold", "ws", "cycle"}
      BY <2>1 DEF MayExit, Trading
    <2> QED
      BY <1>6, <2>1, <2>2
      DEF VisitSell, Submit, NoOrder, Held, HeldIn, IsHeld
  <1>7. CASE VisitBuy
    <2>1. PICK s \in todo, cost \in OrderAmounts :
            ~IsHeld(positions, s) /\ Submit("buy", s, cost, "entry")
      BY <1>7 DEF VisitBuy, MayEnter
    <2>2. cost > 0
      BY MoneyAssumption
    <2> QED
      BY <1>7, <2>1, <2>2
      DEF VisitBuy, Trading, Submit, NoOrder, Held, HeldIn, IsHeld
  <1> QED
    BY <1>1, <1>2, <1>3, <1>4, <1>5, <1>6, <1>7 DEF Loop

\* What is recorded after a reply is what the broker did.
LEMMA BookReplies == TypeOK /\ BookInv /\ Replies => BookInv'
  <1> SUFFICES ASSUME TypeOK, BookInv, Replies PROVE BookInv'
    OBVIOUS
  <1>0. order # NoOrder /\ order \in Orders /\ order.sym \in Symbols
    <2>1. order # NoOrder
      BY SideNotNone
      DEF Replies, BrokerAccepts, OrderFails, ExecuteBuy, ExecuteSell
    <2> QED
      BY <2>1, OrderTyped DEF Orders
  <1>a. phase \notin {"off", "restore", "poll", "wait"}
    BY <1>0 DEF BookInv, PhaseInv
  <1> USE DEF BookInv, SweepInv, OrderInv, PhaseInv, BookMatchesBroker,
              Recorded, InFlight, sessionVars, bookVars, riskVars, walkVars,
              worldVars
  <1>1. CASE BrokerAccepts
    <2>1. /\ order'.sym = order.sym /\ order'.side = order.side
          /\ order'.cost = order.cost /\ order'.sent = TRUE
          /\ order' # NoOrder
      BY <1>0, <1>1 DEF BrokerAccepts, Orders, NoOrder
    <2>2. ASSUME NEW s \in Symbols \ lost
          PROVE  holdings'[s] = IF Recorded(s)' THEN 1 ELSE 0
      <3>1. CASE s = order.sym
        <4>1. holdings[s] \in Nat /\ order.sent = FALSE /\ phase' # "off"
          BY <1>1, <1>a DEF BrokerAccepts, TypeOK, Orders
        <4>2. holdings'[s] = IF order.side = "buy" THEN holdings[s] + 1
                                                   ELSE holdings[s] - 1
          BY <1>1, <3>1 DEF BrokerAccepts, TypeOK
        <4>3. holdings[s] = IF IsHeld(positions, s) THEN 1 ELSE 0
          BY <1>a, <4>1
        <4>4. Recorded(s)' <=> order.side = "buy"
          BY <2>1, <3>1, <4>1
        <4>5. \/ order.side = "buy" /\ ~IsHeld(positions, s)
              \/ order.side = "sell" /\ IsHeld(positions, s)
          BY <1>0, <3>1 DEF Orders
        <4>6. CASE order.side = "buy"
          BY <4>2, <4>3, <4>4, <4>5, <4>6
        <4>7. CASE order.side = "sell"
          BY <4>2, <4>3, <4>4, <4>5, <4>7
        <4> QED
          BY <4>5, <4>6, <4>7
      <3>2. CASE s # order.sym
        BY <1>0, <1>1, <1>a, <2>1, <3>2 DEF BrokerAccepts, TypeOK, IsHeld
      <3> QED
        BY <3>1, <3>2
    <2> QED
      BY <1>1, <1>a, <2>1, <2>2
      DEF BrokerAccepts, Held, HeldIn, IsHeld
  <1>2. CASE OrderFails
    BY <1>0, <1>2, <1>a DEF OrderFails, NoOrder, Held, HeldIn, IsHeld
  <1>3. CASE ExecuteBuy
    <2>1. \A s \in Symbols : IsHeld(positions', s) <=>
                             (IsHeld(positions, s) \/ s = order.sym)
      BY <1>0, <1>3 DEF ExecuteBuy, IsHeld, TypeOK
    <2>2. HeldIn(positions) \subseteq HeldIn(positions')
      BY <2>1 DEF HeldIn
    <2> QED
      BY <1>0, <1>3, <1>a, <2>1, <2>2 DEF ExecuteBuy, NoOrder, Held
  <1>4. CASE ExecuteSell
    <2>1. \A s \in Symbols : IsHeld(positions', s) <=>
                             (IsHeld(positions, s) /\ s # order.sym)
      BY <1>0, <1>4 DEF ExecuteSell, IsHeld, TypeOK, NoPosition
    <2>2. /\ targets' \subseteq HeldIn(positions')
          /\ sweep' = "none" => targets' = {}
      <3>1. CASE UNCHANGED walkVars
        BY <1>0, <3>1, <2>1 DEF Held, HeldIn
      <3>2. CASE sweep' = "all" /\ targets' = HeldIn(positions')
        BY <3>2
      <3> QED
        BY <1>4, <3>1, <3>2 DEF ExecuteSell, UpdateDrawdown
    <2> QED
      BY <1>0, <1>4, <1>a, <2>1, <2>2 DEF ExecuteSell, NoOrder, Held
  <1> QED
    BY <1>1, <1>2, <1>3, <1>4 DEF Replies

\* The end of a loop cuts off at most the order under way.
LEMMA BookEndOfDay ==
    ASSUME TypeOK, BookInv, EnterEndOfDay, phase # "off",
           lost' = IF order.sent THEN lost \cup {order.sym} ELSE lost
    PROVE  BookInv'
  <1>1. targets' \subseteq Held
    BY DEF EnterEndOfDay, EndOfDayTargets, OfStrategy
  <1> QED
    BY <1>1
    DEF EnterEndOfDay, NoOrder, Held, HeldIn, IsHeld, bookVars,
        BookInv, SweepInv, OrderInv, PhaseInv, BookMatchesBroker, Recorded,
        InFlight

\* A process that goes away without saving loses the record of what it holds
\* and of the order under way.
LEMMA BookProcessGone ==
    ASSUME TypeOK, BookInv, ProcessGone, phase # "off",
           UNCHANGED <<overnight, holdings>>,
           lost' = lost \cup Held
                     \cup (IF order.sent THEN {order.sym} ELSE {})
    PROVE  BookInv'
  BY EmptyBookHoldsNothing
  DEF ProcessGone, NoOrder, Held, HeldIn,
      BookInv, SweepInv, OrderInv, PhaseInv, BookMatchesBroker, Recorded,
      InFlight

LEMMA BookClosing == TypeOK /\ BookInv /\ Closing => BookInv'
  <1> SUFFICES ASSUME TypeOK, BookInv, Closing PROVE BookInv'
    OBVIOUS
  <1>0. NoOrder.sent = FALSE
    BY DEF NoOrder
  <1>1. CASE ForceCloseNext
    <2>1. PICK s \in targets :
            /\ targets' = targets \ {s}
            /\ \/ UNCHANGED order
               \/ Submit("sell", s, positions[s].cost, "sweep")
      BY <1>1 DEF ForceCloseNext
    <2>2. s \in Symbols /\ IsHeld(positions, s)
      BY DEF BookInv, SweepInv, Held, HeldIn
    <2> QED
      BY <1>1, <2>1, <2>2
      DEF ForceCloseNext, Submit, NoOrder, Held, HeldIn, IsHeld,
          BookInv, SweepInv, OrderInv, PhaseInv, BookMatchesBroker, Recorded,
          InFlight, sessionVars, bookVars, worldVars
  <1>2. CASE ForceCloseDone
    BY <1>2
    DEF ForceCloseDone, Trading, Held, HeldIn, IsHeld,
        BookInv, SweepInv, OrderInv, PhaseInv, BookMatchesBroker, Recorded,
        InFlight, sessionVars, bookVars, worldVars
  <1>3. CASE PollingEnds
    BY <1>0, <1>3, BookEndOfDay DEF PollingEnds, BookInv, PhaseInv
  <1>4. CASE LiquidationDone
    BY <1>0, <1>4, BookEndOfDay DEF LiquidationDone
  <1>5. CASE WebSocketEnds
    BY <1>5, BookEndOfDay DEF WebSocketEnds
  <1>6. CASE SaveOvernightPositions
    <2>1. \A s \in Symbols : IsHeld(overnight', s) <=> IsHeld(positions, s)
      BY <1>6 DEF SaveOvernightPositions, IsHeld, TypeOK, Position
    <2> QED
      BY <1>6, <2>1
      DEF SaveOvernightPositions, ProcessGone, NoOrder, Held,
          BookInv, SweepInv, OrderInv, PhaseInv, BookMatchesBroker, Recorded,
          InFlight
  <1>7. CASE FailureExit
    <2>1. lost' = lost \cup Held \cup (IF order.sent THEN {order.sym} ELSE {})
      BY <1>0, <1>7 DEF FailureExit
    <2> QED
      BY <1>7, <2>1, BookProcessGone DEF FailureExit
  <1> QED
    BY <1>1, <1>2, <1>3, <1>4, <1>5, <1>6, <1>7 DEF Closing

LEMMA BookOthers ==
    TypeOK /\ BookInv /\ (Rescreen \/ ForceCloseTime \/ MainFails \/ Killed
                          \/ TouchKillFile) => BookInv'
  <1>1. ASSUME BookInv, Rescreen \/ ForceCloseTime \/ TouchKillFile
        PROVE  BookInv'
    BY <1>1
    DEF Rescreen, ForceCloseTime, TouchKillFile, Held, HeldIn, IsHeld,
        BookInv, SweepInv, OrderInv, PhaseInv, BookMatchesBroker, Recorded,
        InFlight, sessionVars, bookVars, riskVars, walkVars, worldVars
  <1>2. ASSUME BookInv, MainFails PROVE BookInv'
    BY <1>2
    DEF MainFails, NoOrder, Held, HeldIn, IsHeld,
        BookInv, SweepInv, OrderInv, PhaseInv, BookMatchesBroker, Recorded,
        InFlight, bookVars, riskVars, worldVars
  <1>3. ASSUME TypeOK, BookInv, Killed PROVE BookInv'
    BY <1>3, BookProcessGone DEF Killed
  <1> QED
    BY <1>1, <1>2, <1>3

\* In every behaviour the strengthened invariant holds: what a forced close
\* has left to visit, what the open order may still change and which phase
\* may have which order (the control flow of poll_cycle, handle_tick and
\* force_close_all_positions).
THEOREM BookInvariant == Spec => []BookInv
  <1>1. TypeOK /\ BookInv /\ [Next]_vars => BookInv'
    <2>1. BookInv /\ UNCHANGED vars => BookInv'
      BY DEF BookInv, SweepInv, OrderInv, PhaseInv, BookMatchesBroker,
             Recorded, InFlight, Held, HeldIn, IsHeld, vars, sessionVars,
             bookVars, riskVars, walkVars, worldVars
    <2> QED
      BY <2>1, BookStartup, BookLoop, BookReplies, BookClosing, BookOthers
      DEF Next
  <1> QED
    BY <1>1, BookInit, TypeCorrect, PTL DEF Spec

\* Across restarts, rejected orders, forced closes and faults, the account
\* holds one lot of exactly what the program records, save for the symbols
\* whose record a lost reply, a cancelled tick, a dead process or a damaged
\* overnight file cut off.
THEOREM BookCorrect == Spec => []BookMatchesBroker
  <1>1. BookInv => BookMatchesBroker
    BY DEF BookInv
  <1> QED
    BY <1>1, BookInvariant, PTL

(***************************************************************************)
(* Three losses in a row.  The counter is only raised by the sale of a     *)
(* held position, and a symbol with three losses is never held again.      *)
(***************************************************************************)

StrikesInv ==
    /\ phase = "off" => losses = NoLosses
    /\ \A s \in Symbols :
        /\ losses[s] <= 3
        /\ losses[s] = 3 =>
            /\ s \in blacklist /\ ~IsHeld(positions, s)
            /\ order # NoOrder => order.sym # s

LEMMA NoLossesYet == \A s \in Symbols : NoLosses[s] = 0
  BY DEF NoLosses

LEMMA StrikesProcessGone == ProcessGone => StrikesInv'
  BY NoLossesYet, EmptyBookHoldsNothing DEF ProcessGone, StrikesInv

\* A sale counts a loss at most once, and the third one closes the symbol.
LEMMA StrikesSell ==
    ASSUME TypeOK, OrderInv, PhaseInv, StrikesInv, ExecuteSell
    PROVE  StrikesInv'
  <1> DEFINE sold == order.sym
  <1>1. order # NoOrder /\ sold \in Symbols /\ IsHeld(positions, sold)
    BY SideNotNone, OrderTyped DEF ExecuteSell, OrderInv, Orders
  <1>2. phase' # "off" /\ order' = NoOrder
    BY <1>1 DEF ExecuteSell, PhaseInv, sessionVars
  <1>3. \A s \in Symbols : IsHeld(positions', s) <=>
                           (IsHeld(positions, s) /\ s # sold)
    BY <1>1 DEF ExecuteSell, IsHeld, TypeOK, NoPosition
  <1>4. CASE UNCHANGED <<losses, blacklist>>
    BY <1>2, <1>3, <1>4 DEF StrikesInv
  <1>5. CASE \E loss \in BOOLEAN : UpdateRiskAfterTrade(sold, loss)
    <2>1. losses[sold] \in Nat /\ losses[sold] <= 2
      BY <1>1 DEF StrikesInv, TypeOK
    <2>2. losses'[sold] <= 3
      BY <1>1, <1>5, <2>1 DEF UpdateRiskAfterTrade, TypeOK
    <2>3. losses'[sold] = 3 => sold \in blacklist'
      BY <1>1, <1>5, <2>1 DEF UpdateRiskAfterTrade, TypeOK
    <2>4. /\ \A s \in Symbols : s # sold => losses'[s] = losses[s]
          /\ blacklist \subseteq blacklist'
      BY <1>1, <1>5 DEF UpdateRiskAfterTrade, TypeOK
    <2> QED
      BY <1>2, <1>3, <2>2, <2>3, <2>4 DEF StrikesInv
  <1> QED
    BY <1>4, <1>5 DEF ExecuteSell, riskVars

LEMMA StrikesStep ==
    ASSUME TypeOK, BookInv, StrikesInv, [Next]_vars
    PROVE  StrikesInv'
  <1> USE DEF StrikesInv, sessionVars, bookVars, riskVars, walkVars,
              worldVars
  <1>1. CASE Startup
    <2>1. CASE StartSession
      BY <2>1, NoLossesYet DEF StartSession
    <2>2. CASE RestoreBudget
      BY <2>2 DEF RestoreBudget, IsHeld
    <2>3. CASE StartupPhaseDone
      BY <2>3, ModeAssumption DEF StartupPhaseDone, IsHeld
    <2> QED
      BY <1>1, <2>1, <2>2, <2>3 DEF Startup
  <1>2. CASE Loop
    <2>1. CASE VisitBuy
      BY <2>1 DEF VisitBuy, MayEnter, Submit, IsHeld
    <2>2. CASE VisitSell
      BY <2>2 DEF VisitSell, Submit, IsHeld
    <2>3. CASE HandleTick \/ PollCycle \/ CycleDone \/ WaitOver
               \/ VisitNothing
      BY <2>3
      DEF HandleTick, PollCycle, CycleDone, WaitOver, VisitNothing, IsHeld
    <2> QED
      BY <1>2, <2>1, <2>2, <2>3 DEF Loop
  <1>3. CASE Replies
    <2>1. CASE BrokerAccepts
      BY <2>1, OrderTyped DEF BrokerAccepts, IsHeld, Orders
    <2>2. CASE OrderFails
      BY <2>2 DEF OrderFails, IsHeld
    <2>3. CASE ExecuteBuy
      <3>1. order # NoOrder /\ order.sym \in Symbols
        BY <2>3, SideNotNone, OrderTyped DEF ExecuteBuy, Orders
      <3>2. \A s \in Symbols : s # order.sym =>
                (IsHeld(positions', s) <=> IsHeld(positions, s))
        BY <2>3, <3>1 DEF ExecuteBuy, IsHeld, TypeOK
      <3> QED
        BY <2>3, <3>1, <3>2 DEF ExecuteBuy
    <2>4. CASE ExecuteSell
      BY <2>4, StrikesSell DEF BookInv
    <2> QED
      BY <1>3, <2>1, <2>2, <2>3, <2>4 DEF Replies
  <1>4. CASE Closing
    <2>1. CASE ForceCloseNext
      <3>1. PICK s \in targets :
              UNCHANGED order \/ Submit("sell", s, positions[s].cost, "sweep")
        BY <2>1 DEF ForceCloseNext
      <3>2. s \in Symbols /\ IsHeld(positions, s)
        BY DEF BookInv, SweepInv, Held, HeldIn
      <3> QED
        BY <2>1, <3>1, <3>2 DEF ForceCloseNext, Submit, IsHeld
    <2>2. CASE ForceCloseDone
      BY <2>2 DEF ForceCloseDone, IsHeld
    <2>3. CASE PollingEnds \/ LiquidationDone \/ WebSocketEnds
      BY <2>3
      DEF PollingEnds, LiquidationDone, WebSocketEnds, EnterEndOfDay, IsHeld
    <2>4. CASE SaveOvernightPositions \/ FailureExit
      BY <2>4, StrikesProcessGone DEF SaveOvernightPositions, FailureExit
    <2> QED
      BY <1>4, <2>1, <2>2, <2>3, <2>4 DEF Closing
  <1>5. CASE Killed
    BY <1>5, StrikesProcessGone DEF Killed
  <1>6. CASE Rescreen \/ ForceCloseTime \/ MainFails \/ TouchKillFile
    BY <1>6 DEF Rescreen, ForceCloseTime, MainFails, TouchKillFile, IsHeld
  <1>7. CASE UNCHANGED vars
    BY <1>7 DEF vars, IsHeld
  <1> QED
    BY <1>1, <1>2, <1>3, <1>4, <1>5, <1>6, <1>7 DEF Next

\* The third loss in a row that update_risk_after_trade counts (sales on an
\* exit signal and at 15:15) ends a symbol's day: it is blacklisted, not held,
\* and no purchase of it is under way or can be sent any more.
THEOREM ThreeStrikesHold == Spec => []ThreeStrikes
  <1>1. Init => StrikesInv
    BY NoLossesYet, EmptyBookHoldsNothing DEF Init, StrikesInv
  <1>2. StrikesInv => ThreeStrikes
    BY DEF StrikesInv, ThreeStrikes, NoOrder
  <1>3. TypeOK /\ BookInv /\ StrikesInv /\ [Next]_vars => StrikesInv'
    BY StrikesStep
  <1> QED
    BY <1>1, <1>2, <1>3, TypeCorrect, BookInvariant, PTL DEF Spec

-----------------------------------------------------------------------------
(***************************************************************************)
(* The rules of a trading day: how many positions a strategy has, one      *)
(* position per sector, no entry after the guard's STOP_BUY, no momentum   *)
(* position overnight, and the money buckets.  The first three are tested  *)
(* when an order is sent and have to hold when its reply is recorded.      *)
(***************************************************************************)

(***************************************************************************)
(* Every step seen from the book: most leave it alone and send no          *)
(* purchase; the others are five.                                          *)
(***************************************************************************)

\* The book, the file and the risk flags stay, and a purchase that is under
\* way was so before.
Aside ==
    /\ UNCHANGED <<positions, sectors, overnight, drawdown, blacklist>>
    /\ (phase' = "off") <=> (phase = "off")
    /\ stopBuy => stopBuy'
    /\ order'.side = "buy" =>
            /\ order.side = "buy" /\ order'.sym = order.sym
            /\ UNCHANGED stopBuy

\* The process ends; the file keeps what it had or gets the book.
Gone ==
    /\ ProcessGone
    /\ phase # "off"
    /\ \/ UNCHANGED overnight
       \/ SaveOvernightPositions

LEMMA StepShapes ==
    ASSUME TypeOK, BookInv, [Next]_vars
    PROVE  Aside \/ StartSession \/ VisitBuy \/ ExecuteBuy \/ ExecuteSell
           \/ Gone
  <1> USE DEF sessionVars, bookVars, riskVars, walkVars, worldVars
  <1>0. NoOrder.side = "none"
    BY DEF NoOrder
  <1>1. CASE RestoreBudget
    BY <1>1 DEF RestoreBudget, Aside
  <1>2. CASE StartupPhaseDone
    BY <1>0, <1>2, ModeAssumption DEF StartupPhaseDone, Idle, Aside
  <1>3. CASE HandleTick
    BY <1>0, <1>3 DEF HandleTick, Idle, Aside, TypeOK
  <1>4. CASE PollCycle
    BY <1>0, <1>4 DEF PollCycle, Aside, BookInv, PhaseInv, TypeOK
  <1>5. CASE CycleDone \/ WaitOver
    BY <1>5 DEF CycleDone, WaitOver, Aside
  <1>6. CASE VisitNothing \/ VisitSell
    BY <1>6 DEF VisitNothing, VisitSell, Submit, Aside
  <1>7. CASE BrokerAccepts
    BY <1>7, OrderTyped DEF BrokerAccepts, Orders, Aside
  <1>8. CASE OrderFails
    BY <1>0, <1>8 DEF OrderFails, Aside
  <1>9. CASE ForceCloseNext \/ ForceCloseDone
    BY <1>9 DEF ForceCloseNext, ForceCloseDone, Submit, Aside
  <1>10. CASE PollingEnds \/ LiquidationDone \/ WebSocketEnds
    BY <1>0, <1>10
    DEF PollingEnds, LiquidationDone, WebSocketEnds, EnterEndOfDay, Aside
  <1>11. CASE SaveOvernightPositions
    BY <1>11 DEF SaveOvernightPositions, Gone
  <1>12. CASE FailureExit \/ Killed
    BY <1>12 DEF FailureExit, Killed, Gone
  <1>13. CASE Rescreen \/ ForceCloseTime \/ MainFails \/ TouchKillFile
    BY <1>13 DEF Rescreen, ForceCloseTime, MainFails, TouchKillFile, Aside
  <1>14. CASE UNCHANGED vars
    BY <1>14 DEF vars, Aside
  <1> QED
    BY <1>1, <1>2, <1>3, <1>4, <1>5, <1>6, <1>7, <1>8, <1>9, <1>10, <1>11,
       <1>12, <1>13, <1>14
    DEF Next, Startup, Loop, Replies, Closing

\* What the replies do to the set of held symbols.
LEMMA BoughtIsHeld ==
    ASSUME TypeOK, BookInv, ExecuteBuy
    PROVE  /\ order.sym \in Symbols /\ ~IsHeld(positions, order.sym)
           /\ Held' = Held \cup {order.sym}
           /\ \A s \in Symbols \ {order.sym} : positions'[s] = positions[s]
           /\ phase # "off" /\ order' = NoOrder
  <1>1. order # NoOrder /\ order.sym \in Symbols
    BY SideNotNone, OrderTyped DEF ExecuteBuy, Orders
  <1>2. order.cost > 0 /\ ~IsHeld(positions, order.sym)
    BY <1>1 DEF BookInv, OrderInv, ExecuteBuy
  <1>3. \A s \in Symbols : IsHeld(positions', s) <=>
                           (IsHeld(positions, s) \/ s = order.sym)
    BY <1>1, <1>2 DEF ExecuteBuy, IsHeld, TypeOK
  <1> QED
    BY <1>1, <1>2, <1>3
    DEF ExecuteBuy, Held, HeldIn, TypeOK, BookInv, PhaseInv

LEMMA SoldIsNotHeld ==
    ASSUME TypeOK, BookInv, ExecuteSell
    PROVE  /\ order.sym \in Symbols
           /\ Held' = Held \ {order.sym}
           /\ \A s \in Symbols \ {order.sym} : positions'[s] = positions[s]
           /\ phase # "off" /\ phase' = phase /\ order' = NoOrder
  <1>1. order # NoOrder /\ order.sym \in Symbols
    BY SideNotNone, OrderTyped DEF ExecuteSell, Orders
  <1>2. \A s \in Symbols : IsHeld(positions', s) <=>
                           (IsHeld(positions, s) /\ s # order.sym)
    BY <1>1 DEF ExecuteSell, IsHeld, TypeOK, NoPosition
  <1> QED
    BY <1>1, <1>2
    DEF ExecuteSell, Held, HeldIn, TypeOK, BookInv, PhaseInv, sessionVars

(***************************************************************************)
(* The number of positions.  A purchase under way still has its place,     *)
(* since no other order is sent before its reply; the file is a book that  *)
(* respected the limit.                                                    *)
(***************************************************************************)

WithinLimit(S) ==
    /\ IsFiniteSet(S)
    /\ \A st \in Strategies :
            Cardinality(OfStrategy(S, st)) <= MaxPositions[st]

LimitInv ==
    /\ WithinLimit(Held)
    /\ WithinLimit(HeldIn(overnight))
    /\ order.side = "buy" => BelowLimit(Classified[order.sym])

LEMMA CountTyped ==
    ASSUME NEW S, IsFiniteSet(S), NEW st
    PROVE  IsFiniteSet(OfStrategy(S, st))
           /\ Cardinality(OfStrategy(S, st)) \in Nat
  <1>1. OfStrategy(S, st) \subseteq S
    BY DEF OfStrategy
  <1> QED
    BY <1>1, FS_Subset, FS_CardinalityType

LEMMA NothingWithinLimit == WithinLimit({})
  <1>1. \A st \in Strategies : OfStrategy({}, st) = {}
    BY DEF OfStrategy
  <1> QED
    BY <1>1, FS_EmptySet, StrategyAssumption DEF WithinLimit

LEMMA FewerWithinLimit ==
    ASSUME NEW S, NEW T, WithinLimit(S), T \subseteq S
    PROVE  WithinLimit(T)
  <1>1. IsFiniteSet(T)
    BY FS_Subset DEF WithinLimit
  <1>2. ASSUME NEW st \in Strategies
        PROVE  Cardinality(OfStrategy(T, st)) <= MaxPositions[st]
    <2>1. OfStrategy(T, st) \subseteq OfStrategy(S, st)
      BY DEF OfStrategy
    <2>2. Cardinality(OfStrategy(T, st)) <= Cardinality(OfStrategy(S, st))
      BY <2>1, CountTyped, FS_Subset DEF WithinLimit
    <2>3. /\ Cardinality(OfStrategy(T, st)) \in Nat
          /\ Cardinality(OfStrategy(S, st)) \in Nat
          /\ MaxPositions[st] \in Nat
      BY <1>1, CountTyped, StrategyAssumption DEF WithinLimit
    <2> QED
      BY <2>2, <2>3 DEF WithinLimit
  <1> QED
    BY <1>1, <1>2 DEF WithinLimit

LEMMA OneMoreWithinLimit ==
    ASSUME NEW S, NEW s, WithinLimit(S), s \notin S,
           Cardinality(OfStrategy(S, Classified[s]))
               < MaxPositions[Classified[s]]
    PROVE  WithinLimit(S \cup {s})
  <1>1. IsFiniteSet(S \cup {s})
    BY FS_AddElement DEF WithinLimit
  <1>2. ASSUME NEW st \in Strategies
        PROVE  Cardinality(OfStrategy(S \cup {s}, st)) <= MaxPositions[st]
    <2>1. CASE Classified[s] # st
      <3>1. OfStrategy(S \cup {s}, st) = OfStrategy(S, st)
        BY <2>1 DEF OfStrategy
      <3> QED
        BY <3>1 DEF WithinLimit
    <2>2. CASE Classified[s] = st
      <3>1. /\ OfStrategy(S \cup {s}, st) = OfStrategy(S, st) \cup {s}
            /\ s \notin OfStrategy(S, st)
        BY <2>2 DEF OfStrategy
      <3>2. Cardinality(OfStrategy(S \cup {s}, st))
              = Cardinality(OfStrategy(S, st)) + 1
        BY <3>1, CountTyped, FS_AddElement DEF WithinLimit
      <3>3. /\ Cardinality(OfStrategy(S, st)) \in Nat
            /\ MaxPositions[st] \in Nat
        BY CountTyped, StrategyAssumption DEF WithinLimit
      <3> QED
        BY <2>2, <3>2, <3>3
    <2> QED
      BY <2>1, <2>2
  <1> QED
    BY <1>1, <1>2 DEF WithinLimit

LEMMA LimitStep ==
    ASSUME TypeOK, BookInv, LimitInv, [Next]_vars
    PROVE  LimitInv'
  <1>0. NoOrder.side # "buy"
    BY DEF NoOrder
  <1>1. CASE Aside
    BY <1>1 DEF Aside, LimitInv, WithinLimit, BelowLimit, Held, HeldIn,
                IsHeld, OfStrategy
  <1>2. CASE StartSession
    <2>1. Loaded /\ order' = order /\ order = NoOrder
      BY <1>2, Loading DEF StartSession, BookInv, PhaseInv
    <2>2. WithinLimit(Held') /\ WithinLimit(HeldIn(overnight)')
      BY <2>1, LoadingHolds, NothingWithinLimit, FewerWithinLimit
      DEF LimitInv, Held
    <2>3. WithinLimit(Held)' /\ WithinLimit(HeldIn(overnight))'
      BY <2>2 DEF WithinLimit, OfStrategy
    <2> QED
      BY <1>0, <2>1, <2>3 DEF LimitInv
  <1>3. CASE VisitBuy
    <2>1. /\ UNCHANGED <<positions, overnight>>
          /\ BelowLimit(Classified[order'.sym])
      BY <1>3 DEF VisitBuy, Submit, MayEnter, bookVars, worldVars
    <2> QED
      BY <2>1 DEF LimitInv, WithinLimit, BelowLimit, Held, HeldIn, IsHeld,
                  OfStrategy
  <1>4. CASE ExecuteBuy
    <2>1. Held' = Held \cup {order.sym} /\ order.sym \notin Held
      BY <1>4, BoughtIsHeld DEF Held, HeldIn
    <2>2. Cardinality(OfStrategy(Held, Classified[order.sym]))
            < MaxPositions[Classified[order.sym]]
      BY <1>4 DEF ExecuteBuy, LimitInv, BelowLimit
    <2>3. WithinLimit(Held \cup {order.sym})
      BY <2>1, <2>2, OneMoreWithinLimit DEF LimitInv
    <2>4. overnight' = overnight /\ order' = NoOrder
      BY <1>4 DEF ExecuteBuy, worldVars
    <2> QED
      BY <1>0, <2>1, <2>3, <2>4
      DEF LimitInv, WithinLimit, OfStrategy, HeldIn, IsHeld
  <1>5. CASE ExecuteSell
    <2>1. Held' \subseteq Held
      BY <1>5, SoldIsNotHeld
    <2>2. WithinLimit(Held')
      BY <2>1, FewerWithinLimit DEF LimitInv
    <2>3. overnight' = overnight /\ order' = NoOrder
      BY <1>5 DEF ExecuteSell, worldVars
    <2> QED
      BY <1>0, <2>2, <2>3
      DEF LimitInv, WithinLimit, OfStrategy, HeldIn, IsHeld
  <1>6. CASE Gone
    <2>1. Held' = {} /\ order' = NoOrder
      BY <1>6, EmptyBookHoldsNothing DEF Gone, ProcessGone, Held
    <2>2. HeldIn(overnight)' = HeldIn(overnight) \/ HeldIn(overnight)' = Held
      BY <1>6 DEF Gone, SaveOvernightPositions, Held, HeldIn, IsHeld, TypeOK,
                  Position
    <2> QED
      BY <1>0, <2>1, <2>2, NothingWithinLimit
      DEF LimitInv, WithinLimit, OfStrategy
  <1> QED
    BY <1>1, <1>2, <1>3, <1>4, <1>5, <1>6, StepShapes

LEMMA LimitInvariant == Spec => []LimitInv
  <1>1. Init => LimitInv
    BY NothingWithinLimit, EmptyBookHoldsNothing
    DEF Init, LimitInv, Held, NoOrder
  <1>2. TypeOK /\ BookInv /\ LimitInv /\ [Next]_vars => LimitInv'
    BY LimitStep
  <1> QED
    BY <1>1, <1>2, TypeCorrect, BookInvariant, PTL DEF Spec

\* No strategy ever holds more than max_positions, restored positions
\* included, although execute_buy records the position long after the entry
\* block of handle_tick or poll_cycle counted.
THEOREM LimitHolds == Spec => []PositionLimit
  <1>1. LimitInv => PositionLimit
    BY DEF LimitInv, WithinLimit, PositionLimit
  <1> QED
    BY <1>1, LimitInvariant, PTL

(***************************************************************************)
(* One position per sector and day.  What was bought today is entered, and *)
(* the sector of a purchase under way is still free; positions of the file *)
(* are never of today.                                                     *)
(***************************************************************************)

SectorInv ==
    /\ SectorOncePerDay
    /\ \A s \in Held :
            positions[s].today /\ Sector[s] # "other" => Sector[s] \in sectors
    /\ order.side = "buy" => Sector[order.sym] \notin sectors
    /\ \A s \in Symbols : ~overnight[s].today

LEMMA SectorStep ==
    ASSUME TypeOK, BookInv, SectorInv, [Next]_vars
    PROVE  SectorInv'
  <1>0. NoOrder.side # "buy"
    BY DEF NoOrder
  <1>a. \A s \in Symbols : ~EmptyBook[s].today
    BY DEF EmptyBook, NoPosition
  <1>1. CASE Aside
    BY <1>1 DEF Aside, SectorInv, SectorOncePerDay, Held, HeldIn, IsHeld
  <1>2. CASE StartSession
    <2>1. Loaded /\ order' = order /\ order = NoOrder
      BY <1>2, Loading DEF StartSession, BookInv, PhaseInv
    <2>2. \A s \in Symbols : ~positions'[s].today /\ ~overnight'[s].today
      BY <1>a, <2>1 DEF Loaded, SectorInv, NoPosition
    <2> QED
      BY <1>0, <2>1, <2>2 DEF SectorInv, SectorOncePerDay, Held, HeldIn
  <1>3. CASE VisitBuy
    <2>1. /\ UNCHANGED <<positions, overnight, sectors>>
          /\ Sector[order'.sym] \notin sectors
      BY <1>3 DEF VisitBuy, Submit, MayEnter, bookVars, worldVars
    <2> QED
      BY <2>1 DEF SectorInv, SectorOncePerDay, Held, HeldIn, IsHeld
  <1>4. CASE ExecuteBuy
    <2> DEFINE bought == order.sym
    <2>1. /\ Held' = Held \cup {bought} /\ bought \in Symbols
          /\ \A s \in Symbols \ {bought} : positions'[s] = positions[s]
      BY <1>4, BoughtIsHeld
    <2>2. /\ bought \notin Held /\ Held \subseteq Symbols
      BY <1>4, BoughtIsHeld DEF Held, HeldIn
    <2>3. /\ sectors \subseteq sectors'
          /\ Sector[bought] # "other" => Sector[bought] \in sectors'
          /\ Sector[bought] \notin sectors
          /\ overnight' = overnight /\ order' = NoOrder
      BY <1>4 DEF ExecuteBuy, SectorTaken, worldVars, SectorInv
    <2>4. ASSUME NEW s \in Held', positions'[s].today, Sector[s] # "other"
          PROVE  /\ Sector[s] \in sectors'
                 /\ s # bought => s \in Held /\ positions[s].today
                                  /\ Sector[s] \in sectors
      <3>1. CASE s = bought
        BY <2>3, <2>4, <3>1
      <3>2. CASE s # bought
        BY <2>1, <2>2, <2>3, <2>4, <3>2 DEF SectorInv
      <3> QED
        BY <3>1, <3>2
    <2>5. SectorOncePerDay'
      <3> SUFFICES ASSUME NEW s \in Held', NEW t \in Held',
                          positions'[s].today, positions'[t].today,
                          Sector[s] = Sector[t], Sector[s] # "other"
                   PROVE  s = t
        BY DEF SectorOncePerDay
      <3>1. CASE s # bought /\ t # bought
        BY <2>4, <3>1 DEF SectorInv, SectorOncePerDay
      <3>2. CASE s = bought \/ t = bought
        BY <2>3, <2>4, <3>2
      <3> QED
        BY <3>1, <3>2
    <2> QED
      BY <1>0, <2>3, <2>4, <2>5 DEF SectorInv
  <1>5. CASE ExecuteSell
    <2>1. /\ Held' \subseteq Held
          /\ \A s \in Held' : positions'[s] = positions[s]
      BY <1>5, SoldIsNotHeld DEF Held, HeldIn
    <2>2. UNCHANGED <<sectors, overnight>> /\ order' = NoOrder
      BY <1>5 DEF ExecuteSell, worldVars
    <2> QED
      BY <1>0, <2>1, <2>2 DEF SectorInv, SectorOncePerDay
  <1>6. CASE Gone
    <2>1. Held' = {} /\ order' = NoOrder
      BY <1>6, EmptyBookHoldsNothing DEF Gone, ProcessGone, Held
    <2>2. \A s \in Symbols : ~overnight'[s].today
      <3>1. CASE UNCHANGED overnight
        BY <3>1 DEF SectorInv
      <3>2. CASE SaveOvernightPositions
        BY <3>2 DEF SaveOvernightPositions, TypeOK, Position
      <3> QED
        BY <1>6, <3>1, <3>2 DEF Gone
    <2> QED
      BY <1>0, <2>1, <2>2 DEF SectorInv, SectorOncePerDay
  <1> QED
    BY <1>1, <1>2, <1>3, <1>4, <1>5, <1>6, StepShapes

LEMMA SectorInvariant == Spec => []SectorInv
  <1>1. ASSUME Init PROVE SectorInv
    <2>1. Held = {} /\ order.side # "buy"
      BY <1>1, EmptyBookHoldsNothing DEF Init, Held, NoOrder
    <2>2. \A s \in Symbols : ~overnight[s].today
      BY <1>1 DEF Init, EmptyBook, NoPosition
    <2> QED
      BY <2>1, <2>2 DEF SectorInv, SectorOncePerDay
  <1>2. TypeOK /\ BookInv /\ SectorInv /\ [Next]_vars => SectorInv'
    BY SectorStep
  <1> QED
    BY <1>1, <1>2, TypeCorrect, BookInvariant, PTL DEF Spec

\* Two positions bought today are never of the same sector ("other"
\* excepted): execute_buy enters the sector with the position, and between
\* the entry block's look at sector_positions and that, no other order is
\* sent.
THEOREM SectorHolds == Spec => []SectorOncePerDay
  <1>1. SectorInv => SectorOncePerDay
    BY DEF SectorInv
  <1> QED
    BY <1>1, SectorInvariant, PTL

(***************************************************************************)
(* STOP_BUY.  The guard's answer is kept in a flag that nothing lowers     *)
(* before the process ends, and a purchase is only under way without it.   *)
(***************************************************************************)

EntryStopInv ==
    /\ drawdown = "stop_buy" => stopBuy
    /\ order.side = "buy" => ~stopBuy /\ order.sym \notin blacklist

\* Once the guard has answered STOP_BUY (update_drawdown after a sale), no
\* purchase is sent in this session, and none is under way when it answers.
LEMMA EntryStopInvariant == Spec => []EntryStopInv
  <1>1. Init => EntryStopInv
    BY DEF Init, EntryStopInv, NoOrder
  <1>2. ASSUME TypeOK, BookInv, EntryStopInv, [Next]_vars
        PROVE  EntryStopInv'
    <2>0. NoOrder.side # "buy"
      BY DEF NoOrder
    <2>1. CASE Aside
      BY <1>2, <2>1 DEF Aside, EntryStopInv
    <2>2. CASE StartSession \/ VisitBuy
      BY <1>2, <2>2
      DEF StartSession, VisitBuy, Submit, MayEnter, riskVars, EntryStopInv
    <2>3. CASE ExecuteBuy
      BY <1>2, <2>0, <2>3 DEF ExecuteBuy, riskVars, EntryStopInv
    <2>4. CASE ExecuteSell
      <3>1. (drawdown' = "stop_buy") => stopBuy'
        <4>1. CASE UNCHANGED riskVars
          BY <1>2, <4>1 DEF riskVars, EntryStopInv
        <4>2. CASE \E action \in DrawdownActions : UpdateDrawdown(action)
          BY <4>2 DEF UpdateDrawdown, StopBuyAfter
        <4> QED
          BY <2>4, <4>1, <4>2 DEF ExecuteSell
      <3>2. order' = NoOrder
        BY <2>4 DEF ExecuteSell
      <3> QED
        BY <2>0, <3>1, <3>2 DEF EntryStopInv
    <2>5. CASE Gone
      BY <2>0, <2>5 DEF Gone, ProcessGone, EntryStopInv
    <2> QED
      BY <1>2, <2>1, <2>2, <2>3, <2>4, <2>5, StepShapes
  <1> QED
    BY <1>1, <1>2, TypeCorrect, BookInvariant, PTL DEF Spec

(***************************************************************************)
(* LiveTrader implements TradingAccount.  A trade of the account is the    *)
(* step in which the broker executes the order.  What has to be shown      *)
(* there is that the checks made when the order was sent are still true:   *)
(* LimitInv, SectorInv and EntryStopInv keep them for the purchase that is *)
(* under way.  All other steps move the record from one place to another   *)
(* (order, book, file), tighten the rules, or are owned up to in `lost'.   *)
(***************************************************************************)

\* What is on record, by the place where main() and the order are.
RecordInv ==
    /\ Held \subseteq Symbols /\ HeldIn(overnight) \subseteq Symbols
    /\ phase # "off" => HeldIn(overnight) \subseteq lost
    /\ order # NoOrder =>
            /\ order.side \in {"buy", "sell"} /\ order.sym \in Symbols
            /\ phase # "off"
    /\ order.side = "buy"  => order.sym \notin Held
    /\ order.side = "sell" => order.sym \in Held
    /\ ~order.sent =>
            /\ OnBook = IF phase = "off" THEN HeldIn(overnight) ELSE Held
            /\ SectorsEntered = sectors
    /\ order.sent =>
            /\ order # NoOrder
            /\ order.side = "buy" =>
                    /\ OnBook = Held \cup {order.sym}
                    /\ SectorsEntered = sectors \cup SectorsOf({order.sym})
            /\ order.side = "sell" =>
                    /\ OnBook = Held \ {order.sym}
                    /\ SectorsEntered = sectors

LEMMA RecordIs == TypeOK /\ BookInv => RecordInv
  <1> SUFFICES ASSUME TypeOK, BookInv PROVE RecordInv
    OBVIOUS
  <1>1. Held \subseteq Symbols /\ HeldIn(overnight) \subseteq Symbols
    BY DEF Held, HeldIn
  <1>2. phase # "off" => HeldIn(overnight) \subseteq lost
    BY DEF BookInv, PhaseInv, HeldIn
  <1>3. ASSUME order # NoOrder
        PROVE  /\ order.side \in {"buy", "sell"} /\ order.sym \in Symbols
               /\ phase # "off"
    BY <1>3, OrderTyped DEF Orders, BookInv, PhaseInv
  <1>4. /\ order.side = "buy"  => order.sym \notin Held
        /\ order.side = "sell" => order.sym \in Held
    BY <1>3, SideNotNone DEF BookInv, OrderInv, Held, HeldIn
  <1>5. SectorsOf({}) = {}
    BY DEF SectorsOf
  <1>6. ASSUME ~order.sent
        PROVE  /\ OnBook = IF phase = "off" THEN HeldIn(overnight) ELSE Held
               /\ SectorsEntered = sectors
    <2>1. {s \in Symbols : InFlight(s) /\ order.side = "buy"} = {}
      BY <1>6 DEF InFlight
    <2>2. SectorsEntered = sectors
      BY <1>5, <2>1 DEF SectorsEntered
    <2> QED
      BY <1>6, <2>2 DEF OnBook, Recorded, InFlight, Held, HeldIn
  <1>7. ASSUME order.sent
        PROVE  /\ order # NoOrder
               /\ order.side = "buy" =>
                       /\ OnBook = Held \cup {order.sym}
                       /\ SectorsEntered = sectors \cup SectorsOf({order.sym})
               /\ order.side = "sell" =>
                       /\ OnBook = Held \ {order.sym}
                       /\ SectorsEntered = sectors
    <2>1. order # NoOrder /\ order.sent = TRUE
      BY <1>7 DEF NoOrder, TypeOK
    <2>2. order.sym \in Symbols /\ phase # "off"
      BY <1>3, <2>1
    <2>3. ASSUME order.side = "buy"
          PROVE  /\ OnBook = Held \cup {order.sym}
                 /\ SectorsEntered = sectors \cup SectorsOf({order.sym})
      <3>1. {s \in Symbols : InFlight(s) /\ order.side = "buy"} = {order.sym}
        BY <1>7, <2>2, <2>3 DEF InFlight
      <3>2. OnBook = Held \cup {order.sym}
        BY <1>7, <2>2, <2>3 DEF OnBook, Recorded, InFlight, Held, HeldIn
      <3> QED
        BY <3>1, <3>2 DEF SectorsEntered
    <2>4. ASSUME order.side = "sell"
          PROVE  OnBook = Held \ {order.sym} /\ SectorsEntered = sectors
      <3>1. {s \in Symbols : InFlight(s) /\ order.side = "buy"} = {}
        BY <2>4
      <3>2. OnBook = Held \ {order.sym}
        BY <1>7, <2>2, <2>4 DEF OnBook, Recorded, InFlight, Held, HeldIn
      <3> QED
        BY <1>5, <3>1, <3>2 DEF SectorsEntered
    <2> QED
      BY <2>1, <2>3, <2>4
  <1> QED
    BY <1>1, <1>2, <1>3, <1>4, <1>6, <1>7 DEF RecordInv

\* Steps that leave the record alone; buying may be stopped.
RecordKept ==
    /\ UNCHANGED <<positions, overnight, sectors, blacklist, drawdown,
                   holdings, lost>>
    /\ (phase' = "off") <=> (phase = "off")
    /\ (~order.sent /\ ~order'.sent) \/ order' = order
    /\ stopBuy => stopBuy'
    /\ phase = "off" => UNCHANGED stopBuy

\* The record of the order under way is cut off.
CutOff ==
    /\ order.sent /\ order' = NoOrder
    /\ lost' = lost \cup {order.sym}
    /\ UNCHANGED <<positions, overnight, sectors, riskVars, holdings>>
    /\ phase' # "off"

LEMMA AccountShapes ==
    ASSUME TypeOK, BookInv, [Next]_vars
    PROVE  \/ RecordKept \/ CutOff \/ StartSession \/ BrokerAccepts
           \/ ExecuteBuy \/ ExecuteSell \/ SaveOvernightPositions
           \/ FailureExit \/ Killed
  <1> USE DEF sessionVars, bookVars, riskVars, walkVars, worldVars
  <1>0. ~NoOrder.sent
    BY DEF NoOrder
  <1>a. stopBuy \in BOOLEAN /\ ("ws" # "off" /\ "poll" # "off")
    BY DEF TypeOK
  <1>1. CASE RestoreBudget
    BY <1>1 DEF RestoreBudget, RecordKept
  <1>2. CASE StartupPhaseDone
    BY <1>2, <1>a, ModeAssumption
    DEF StartupPhaseDone, RecordKept, ModeAssumption
  <1>3. CASE HandleTick \/ PollCycle
    BY <1>3, <1>a DEF HandleTick, PollCycle, RecordKept
  <1>5. CASE CycleDone \/ WaitOver
    BY <1>5 DEF CycleDone, WaitOver, RecordKept
  <1>6. CASE VisitNothing \/ VisitSell \/ VisitBuy
    BY <1>0, <1>6 DEF VisitNothing, VisitSell, VisitBuy, Submit, RecordKept
  <1>7. CASE OrderFails
    <2>1. CASE order.sent
      BY <1>7, <2>1 DEF OrderFails, CutOff, BookInv, PhaseInv
    <2>2. CASE ~order.sent
      BY <1>0, <1>7, <2>2 DEF OrderFails, RecordKept
    <2> QED
      BY <2>1, <2>2
  <1>8. CASE ForceCloseNext \/ ForceCloseDone
    BY <1>0, <1>8 DEF ForceCloseNext, ForceCloseDone, Submit, RecordKept
  <1>9. CASE PollingEnds \/ LiquidationDone
    BY <1>0, <1>9
    DEF PollingEnds, LiquidationDone, EnterEndOfDay, RecordKept, BookInv, PhaseInv
  <1>10. CASE WebSocketEnds
    <2>1. CASE order.sent
      BY <1>10, <2>1 DEF WebSocketEnds, EnterEndOfDay, CutOff
    <2>2. CASE ~order.sent
      BY <1>0, <1>10, <2>2 DEF WebSocketEnds, EnterEndOfDay, RecordKept
    <2> QED
      BY <2>1, <2>2
  <1>11. CASE Rescreen \/ ForceCloseTime \/ MainFails \/ TouchKillFile
    BY <1>11
    DEF Rescreen, ForceCloseTime, MainFails, TouchKillFile, RecordKept
  <1>12. CASE UNCHANGED vars
    BY <1>12 DEF vars, RecordKept
  <1> QED
    BY <1>1, <1>2, <1>3, <1>5, <1>6, <1>7, <1>8, <1>9, <1>10, <1>11, <1>12
    DEF Next, Startup, Loop, Replies, Closing

\* The two ways in which the record may shrink when a session opens.
LEMMA LoadedOrLost ==
    ASSUME TypeOK, LoadOvernightPositions
    PROVE  /\ Held' \subseteq HeldIn(overnight)
           /\ lost' \in {lost \cup (HeldIn(overnight) \ Held'),
                        lost \cup HeldIn(overnight)}
  <1> USE DEF Held, HeldIn, IsHeld
  <1>1. CASE positions' = overnight /\ overnight' = EmptyBook /\ UNCHANGED lost
    BY <1>1
  <1>2. CASE ~(positions' = overnight /\ overnight' = EmptyBook
               /\ UNCHANGED lost)
    <2>1. PICK read \in SUBSET HeldIn(overnight) :
            /\ positions' = [s \in Symbols |-> IF s \in read
                                              THEN overnight[s]
                                              ELSE NoPosition]
            /\ \/ lost' = lost \cup (HeldIn(overnight) \ read)
               \/ lost' = lost \cup HeldIn(overnight)
      BY <1>2 DEF LoadOvernightPositions
    <2>2. Held' = read
      BY <2>1 DEF NoPosition
    <2> QED
      BY <2>1, <2>2
  <1> QED
    BY <1>1, <1>2

\* The order rules at the moment the broker executes a purchase.
LEMMA BuyKeepsRules ==
    ASSUME RecordInv, LimitInv, SectorInv, EntryStopInv,
           ~order.sent, order.side = "buy"
    PROVE  /\ order.sym \in Symbols /\ phase # "off" /\ ~Stopped
           /\ order.sym \notin OnBook \cup blacklist
           /\ Sector[order.sym] \notin SectorsEntered
           /\ Account!Room(order.sym)
  <1>1. /\ order.sym \in Symbols /\ phase # "off"
        /\ OnBook = Held /\ order.sym \notin Held
        /\ SectorsEntered = sectors
    BY SideNotNone DEF RecordInv
  <1>2. ~Stopped /\ order.sym \notin blacklist
    BY DEF EntryStopInv, Stopped
  <1>3. Sector[order.sym] \notin sectors
    BY DEF SectorInv
  <1>4. Account!Room(order.sym)
    <2>1. Account!SameStrategy(OnBook, order.sym)
            = OfStrategy(Held, Classified[order.sym])
      BY <1>1 DEF Account!SameStrategy, OfStrategy
    <2>2. BelowLimit(Classified[order.sym])
      BY DEF LimitInv
    <2> QED
      BY <2>1, <2>2 DEF BelowLimit, Account!Room, Account!Cardinality, Cardinality
  <1> QED
    BY <1>1, <1>2, <1>3, <1>4

LEMMA StepIsAccountStep ==
    ASSUME TypeOK, BookInv, RecordInv, RecordInv',
           LimitInv, SectorInv, EntryStopInv, [Next]_vars
    PROVE  [Account!AccountNext]_Account!accountVars
  <1> USE DEF Account!accountVars, Account!rules
  <1>0. ~NoOrder.sent /\ NoOrder.side # "buy" /\ NoOrder.side # "sell"
    BY DEF NoOrder
  <1>1. CASE RecordKept
    <2>1. Held' = Held /\ HeldIn(overnight)' = HeldIn(overnight)
      BY <1>1 DEF RecordKept, Held, HeldIn, IsHeld
    <2>2. OnBook' = OnBook /\ SectorsEntered' = SectorsEntered
      <3>1. CASE ~order.sent /\ ~order'.sent
        BY <1>1, <2>1, <3>1 DEF RecordKept, RecordInv
      <3>2. CASE order' = order
        BY <1>1, <3>2 DEF RecordKept, OnBook, Recorded, InFlight, IsHeld,
                          SectorsEntered, SectorsOf
      <3> QED
        BY <1>1, <3>1, <3>2 DEF RecordKept
    <2>3. CASE phase = "off"
      BY <1>1, <2>2, <2>3 DEF RecordKept, Stopped
    <2>4. CASE phase # "off"
      <3>1. Account!Tighten
        BY <1>1, <2>2, <2>4 DEF RecordKept, Stopped, Account!Tighten
      <3> QED
        BY <3>1 DEF Account!AccountNext
    <2> QED
      BY <2>3, <2>4
  <1>2. CASE StartSession
    <2>1. /\ phase = "off" /\ phase' # "off" /\ order' = order
          /\ UNCHANGED <<sectors, stopBuy, drawdown, blacklist, holdings>>
      BY <1>2 DEF StartSession, riskVars
    <2>2. ~order.sent
      BY <2>1 DEF RecordInv
    <2>3. /\ OnBook = HeldIn(overnight) /\ OnBook' = Held'
          /\ SectorsEntered' = SectorsEntered
      BY <2>1, <2>2 DEF RecordInv
    <2>4. /\ Held' \subseteq HeldIn(overnight)
          /\ lost' \in {lost \cup (HeldIn(overnight) \ Held'),
                       lost \cup HeldIn(overnight)}
      BY <1>2, LoadedOrLost DEF StartSession
    <2>5. Account!Open
      BY <2>1, <2>3, <2>4 DEF Account!Open, Stopped
    <2> QED
      BY <2>5 DEF Account!AccountNext
  <1>3. CASE BrokerAccepts
    <2> DEFINE s == order.sym
    <2>1. /\ order # NoOrder /\ ~order.sent /\ order'.sent
          /\ order'.side = order.side /\ order'.sym = s
          /\ UNCHANGED <<phase, positions, sectors, stopBuy, drawdown,
                         blacklist, overnight, lost>>
      BY <1>3, OrderTyped
      DEF BrokerAccepts, Orders, sessionVars, bookVars, riskVars
    <2>2. Held' = Held
      BY <2>1 DEF Held, HeldIn, IsHeld
    <2>3. SectorsOf({s})' = Account!SectorOf(s)
      BY <2>1 DEF SectorsOf, Account!SectorOf
    <2>4. CASE order.side = "buy"
      <3>1. holdings' = [holdings EXCEPT ![s] = @ + 1]
        BY <1>3, <2>4 DEF BrokerAccepts
      <3>2. /\ OnBook = Held /\ SectorsEntered = sectors
            /\ OnBook' = Held \cup {s}
            /\ SectorsEntered' = sectors \cup Account!SectorOf(s)
        BY <2>1, <2>2, <2>3, <2>4, BuyKeepsRules DEF RecordInv
      <3>3. Account!Buy(s)
        BY <2>1, <2>4, <3>1, <3>2, BuyKeepsRules DEF Account!Buy, Stopped
      <3> QED
        BY <2>1, <2>4, <3>3, BuyKeepsRules DEF Account!AccountNext
    <2>5. CASE order.side = "sell"
      <3>1. /\ holdings' = [holdings EXCEPT ![s] = @ - 1]
            /\ holdings[s] > 0
        BY <1>3, <2>5 DEF BrokerAccepts, Executable
      <3>2. /\ s \in Symbols /\ s \in Held /\ phase # "off"
            /\ OnBook = Held /\ SectorsEntered = sectors
            /\ OnBook' = Held \ {s} /\ SectorsEntered' = sectors
        BY <2>1, <2>2, <2>5 DEF RecordInv
      <3>3. Account!Sell(s)
        BY <2>1, <3>1, <3>2 DEF Account!Sell, Stopped
      <3> QED
        BY <3>2, <3>3 DEF Account!AccountNext
    <2> QED
      BY <2>1, <2>4, <2>5 DEF RecordInv
  <1>4. CASE ExecuteBuy
    <2>1. /\ order.sent /\ order.side = "buy" /\ order' = NoOrder
          /\ phase # "off" /\ Held' = Held \cup {order.sym}
          /\ sectors' = SectorTaken(order.sym)
          /\ UNCHANGED <<phase, stopBuy, drawdown, blacklist, holdings, lost>>
      BY <1>4, BoughtIsHeld
      DEF ExecuteBuy, sessionVars, riskVars, worldVars
    <2>2. sectors' = sectors \cup SectorsOf({order.sym})
      BY <2>1 DEF SectorTaken, SectorsOf
    <2>3. OnBook' = OnBook /\ SectorsEntered' = SectorsEntered
      BY <1>0, <2>1, <2>2 DEF RecordInv
    <2> QED
      BY <2>1, <2>3 DEF Stopped
  <1>5. CASE ExecuteSell
    <2>1. /\ order.sent /\ order.side = "sell" /\ order' = NoOrder
          /\ phase # "off" /\ Held' = Held \ {order.sym}
          /\ order.sym \in Symbols
          /\ UNCHANGED <<phase, sectors, holdings, lost>>
      BY <1>5, SoldIsNotHeld DEF ExecuteSell, sessionVars, worldVars
    <2>2. /\ OnBook' = OnBook /\ SectorsEntered' = SectorsEntered
          /\ order.sym \notin OnBook
      BY <1>0, <2>1 DEF RecordInv
    <2>3. /\ Stopped => Stopped'
          /\ blacklist' = blacklist \/ blacklist' = blacklist \cup {order.sym}
      <3>1. CASE UNCHANGED riskVars
        BY <3>1 DEF riskVars, Stopped
      <3>2. CASE \E loss \in BOOLEAN, action \in DrawdownActions :
                    /\ UpdateRiskAfterTrade(order.sym, loss)
                    /\ UpdateDrawdown(action)
        BY <3>2 DEF UpdateRiskAfterTrade, UpdateDrawdown, StopBuyAfter,
                    Stopped, EntryStopInv
      <3> QED
        BY <1>5, <3>1, <3>2 DEF ExecuteSell
    <2>4. Account!Tighten
      BY <2>1, <2>2, <2>3 DEF Account!Tighten
    <2> QED
      BY <2>4 DEF Account!AccountNext
  <1>6. CASE CutOff
    <2> DEFINE s == order.sym
    <2>1. /\ order.sent /\ order' = NoOrder /\ lost' = lost \cup {s}
          /\ phase # "off" /\ phase' # "off" /\ s \in Symbols
          /\ UNCHANGED <<sectors, stopBuy, drawdown, blacklist, holdings>>
      BY <1>6 DEF CutOff, RecordInv, riskVars
    <2>2. Held' = Held
      BY <1>6 DEF CutOff, Held, HeldIn, IsHeld
    <2>3. OnBook' = Held /\ SectorsEntered' = sectors
      BY <1>0, <2>1, <2>2 DEF RecordInv
    <2>4. SectorsOf({s}) = Account!SectorOf(s)
      BY DEF SectorsOf, Account!SectorOf
    <2>5. CASE order.side = "buy"
      <3>1. /\ OnBook = Held \cup {s} /\ s \notin Held
            /\ SectorsEntered = sectors \cup Account!SectorOf(s)
        BY <2>1, <2>4, <2>5 DEF RecordInv
      <3>2. Account!SectorOf(s) \cap sectors = {}
        BY <2>5 DEF SectorInv, Account!SectorOf
      <3>3. /\ s \in OnBook /\ OnBook' = OnBook \ {s}
            /\ SectorsEntered' = SectorsEntered \ Account!SectorOf(s)
        BY <2>3, <3>1, <3>2
      <3> QED
        BY <2>1, <3>3 DEF Account!Mislay, Stopped, Account!AccountNext
    <2>6. CASE order.side = "sell"
      <3>1. /\ s \notin OnBook /\ OnBook' = OnBook \cup {s}
            /\ SectorsEntered' = SectorsEntered
        BY <2>1, <2>3, <2>6 DEF RecordInv
      <3> QED
        BY <2>1, <3>1 DEF Account!Mislay, Stopped, Account!AccountNext
    <2> QED
      BY <2>1, <2>5, <2>6 DEF RecordInv
  <1>7. ASSUME ProcessGone
        PROVE  Account!Forget /\ phase' = "off" /\ ~order'.sent
    <2>1. /\ phase' = "off" /\ ~order'.sent /\ sectors' = {}
          /\ stopBuy' = FALSE /\ drawdown' = "unset" /\ blacklist' = {}
      BY <1>0, <1>7 DEF ProcessGone
    <2>2. SectorsEntered' = {}
      BY <2>1 DEF RecordInv
    <2> QED
      BY <2>1, <2>2 DEF Account!Forget, Stopped
  <1>8. CASE SaveOvernightPositions
    <2>1. /\ phase # "off" /\ ~order.sent /\ ProcessGone
          /\ UNCHANGED <<holdings, lost>>
      BY <1>0, <1>8 DEF SaveOvernightPositions
    <2>2. HeldIn(overnight)' = Held
      BY <1>8
      DEF SaveOvernightPositions, Held, HeldIn, IsHeld, TypeOK, Position
    <2>3. OnBook' = OnBook
      BY <1>7, <2>1, <2>2 DEF RecordInv
    <2>4. Account!Close
      BY <1>7, <2>1, <2>3 DEF Account!Close
    <2> QED
      BY <2>4 DEF Account!AccountNext
  <1>9. CASE FailureExit \/ Killed
    <2>1. /\ phase # "off" /\ ProcessGone
          /\ UNCHANGED <<overnight, holdings>>
          /\ lost' = lost \cup Held
                       \cup (IF order.sent THEN {order.sym} ELSE {})
      BY <1>0, <1>9 DEF FailureExit, Killed
    <2>2. HeldIn(overnight)' \subseteq lost
      BY <2>1 DEF RecordInv, HeldIn, IsHeld
    <2>3. OnBook' \subseteq lost
      BY <1>7, <2>1, <2>2 DEF RecordInv
    <2>4. \/ lost' = lost \cup OnBook
          \/ \E s \in Symbols : lost' = lost \cup OnBook \cup {s}
      <3>1. CASE ~order.sent
        BY <2>1, <3>1 DEF RecordInv
      <3>2. CASE order.sent /\ order.side = "buy"
        BY <2>1, <3>2 DEF RecordInv
      <3>3. CASE order.sent /\ order.side = "sell"
        <4>1. OnBook = Held \ {order.sym} /\ order.sym \in Symbols
          BY <3>3 DEF RecordInv
        <4>2. lost' = lost \cup OnBook \cup {order.sym}
          BY <2>1, <3>3, <4>1
        <4> QED
          BY <4>1, <4>2
      <3> QED
        BY <3>1, <3>2, <3>3 DEF RecordInv
    <2>5. Account!Fail
      BY <1>7, <2>1, <2>3, <2>4 DEF Account!Fail
    <2> QED
      BY <2>5 DEF Account!AccountNext
  <1> QED
    BY <1>1, <1>2, <1>3, <1>4, <1>5, <1>6, <1>8, <1>9, AccountShapes

\* The trading process implements an account whose trades happen in one
\* instant: when the broker executes a purchase, the stock is not held, not
\* blacklisted, its sector is free, its strategy has room and no stop was
\* given, all tested before execute_buy's await; and neither the replies,
\* nor the end of a session and the start of the next one, nor a fault that
\* is not in `lost' part the record from the account.
THEOREM ActsOnAccount == Spec => ImplementsAccount
  <1>1. ASSUME Init PROVE Account!AccountInit
    <2>1. /\ OnBook = {} /\ SectorsEntered = {}
      <3>1. \A s \in Symbols : ~Recorded(s) /\ ~InFlight(s)
        BY <1>1, EmptyBookHoldsNothing DEF Init, Recorded, InFlight, NoOrder
      <3> QED
        BY <1>1, <3>1 DEF Init, OnBook, SectorsEntered, SectorsOf
    <2> QED
      BY <1>1, <2>1 DEF Init, Account!AccountInit, Stopped
  <1>2. Spec => [](TypeOK /\ BookInv /\ RecordInv)
    BY RecordIs, TypeCorrect, BookInvariant, PTL
  <1>3. /\ TypeOK /\ BookInv /\ RecordInv /\ RecordInv'
        /\ LimitInv /\ SectorInv /\ EntryStopInv /\ [Next]_vars
        => [Account!AccountNext]_Account!accountVars
    BY StepIsAccountStep
  <1> QED
    BY <1>1, <1>2, <1>3, LimitInvariant, SectorInvariant, EntryStopInvariant,
       PTL
    DEF Spec, ImplementsAccount, Account!AccountSpec

(***************************************************************************)
(* What follows from TradingAccount alone, whoever implements it.  The     *)
(* account may misplace records, so everything is said of the stocks that  *)
(* are not among the lost ones.                                            *)
(***************************************************************************)

AccountInv ==
    /\ Account!OnRecord /\ Account!NoneBarred
    /\ holdings \in [Symbols -> Nat]
    /\ IsFiniteSet(OnBook) /\ IsFiniteSet(lost)
    /\ WithinLimit(OnBook \ lost)

LEMMA AccountCounts ==
    ASSUME NEW S PROVE Account!Cardinality(S) = Cardinality(S)
  BY DEF Account!Cardinality, Cardinality

LEMMA LimitCounts ==
    ASSUME NEW S, WithinLimit(S), NEW s \in Symbols
    PROVE  Account!Cardinality(Account!SameStrategy(S, s))
             <= MaxPositions[Classified[s]]
  <1>1. Account!SameStrategy(S, s) = OfStrategy(S, Classified[s])
    BY DEF Account!SameStrategy, OfStrategy
  <1>2. Classified[s] \in Strategies
    BY ClassifiedAssumption DEF ClassifiedAssumption
  <1> QED
    BY <1>1, <1>2, AccountCounts DEF WithinLimit

\* A purchase that finds room leaves every strategy within its limit.
LEMMA BuyWithinLimit ==
    ASSUME AccountInv, NEW s \in Symbols, s \notin OnBook, Account!Room(s)
    PROVE  IsFiniteSet(OnBook \cup {s}) /\ WithinLimit((OnBook \cup {s}) \ lost)
  <1> DEFINE st == Classified[s]
  <1>1. IsFiniteSet(OnBook) /\ WithinLimit(OnBook \ lost)
    BY DEF AccountInv
  <1>2. IsFiniteSet(OnBook \cup {s})
    BY <1>1, FS_AddElement
  <1>3. CASE s \in lost
    <2>1. (OnBook \cup {s}) \ lost = OnBook \ lost
      BY <1>3
    <2> QED
      BY <1>1, <1>2, <2>1
  <1>4. CASE s \notin lost
    <2>1. Cardinality(OfStrategy(OnBook, st)) < MaxPositions[st]
      <3>1. Account!SameStrategy(OnBook, s) = OfStrategy(OnBook, st)
        BY DEF Account!SameStrategy, OfStrategy
      <3> QED
        BY <3>1, AccountCounts DEF Account!Room
    <2>2. OfStrategy(OnBook \ lost, st) \subseteq OfStrategy(OnBook, st)
      BY DEF OfStrategy
    <2>3. /\ IsFiniteSet(OfStrategy(OnBook, st))
          /\ Cardinality(OfStrategy(OnBook, st)) \in Nat
      BY <1>1, CountTyped
    <2>4. /\ Cardinality(OfStrategy(OnBook \ lost, st))
               <= Cardinality(OfStrategy(OnBook, st))
          /\ IsFiniteSet(OfStrategy(OnBook \ lost, st))
      BY <2>2, <2>3, FS_Subset
    <2>5. /\ MaxPositions[st] \in Nat
          /\ Cardinality(OfStrategy(OnBook \ lost, st)) \in Nat
      BY <2>4, FS_CardinalityType, StrategyAssumption, ClassifiedAssumption
      DEF StrategyAssumption, ClassifiedAssumption
    <2>6. Cardinality(OfStrategy(OnBook \ lost, st)) < MaxPositions[st]
      BY <2>1, <2>3, <2>4, <2>5
    <2>7. s \notin OnBook \ lost
      OBVIOUS
    <2>8. WithinLimit((OnBook \ lost) \cup {s})
      BY <1>1, <2>6, <2>7, OneMoreWithinLimit
    <2>9. (OnBook \cup {s}) \ lost = (OnBook \ lost) \cup {s}
      BY <1>4
    <2> QED
      BY <1>2, <2>8, <2>9
  <1> QED
    BY <1>3, <1>4

\* Every other step leaves at most fewer stocks on record that are not lost.
LEMMA FewerOnRecord ==
    ASSUME AccountInv, (OnBook \ lost)' \subseteq OnBook \ lost,
           NEW S, IsFiniteSet(S), OnBook' \subseteq OnBook \cup S,
           lost' \subseteq lost \cup OnBook \cup S
    PROVE  /\ IsFiniteSet(OnBook') /\ IsFiniteSet(lost')
           /\ WithinLimit(OnBook \ lost)'
  <1>1. IsFiniteSet(OnBook') /\ IsFiniteSet(lost')
    BY FS_Union, FS_Subset DEF AccountInv
  <1>2. WithinLimit(OnBook' \ lost')
    BY FewerWithinLimit DEF AccountInv
  <1> QED
    BY <1>1, <1>2 DEF WithinLimit, OfStrategy

LEMMA AccountStep ==
    ASSUME AccountInv, [Account!AccountNext]_Account!accountVars
    PROVE  AccountInv'
  <1> USE DEF Account!OnRecord, Account!NoneBarred, Account!rules
  <1> DEFINE Finite == IsFiniteSet(OnBook) /\ IsFiniteSet(lost)
  <1>0. IsFiniteSet({}) /\ \A s : IsFiniteSet({s})
    BY FS_EmptySet, FS_Singleton
  <1>1. ASSUME NEW s \in Symbols, Account!Buy(s) PROVE AccountInv'
    <2>1. Finite' /\ WithinLimit(OnBook \ lost)'
      <3>1. OnBook' = OnBook \cup {s} /\ lost' = lost
        BY <1>1 DEF Account!Buy
      <3>2. IsFiniteSet(OnBook') /\ WithinLimit(OnBook' \ lost')
        BY <1>1, <3>1, BuyWithinLimit DEF Account!Buy
      <3> QED
        BY <3>1, <3>2 DEF WithinLimit, OfStrategy, AccountInv
    <2>2. Account!OnRecord' /\ Account!NoneBarred' /\ holdings' \in [Symbols -> Nat]
      BY <1>1 DEF Account!Buy, AccountInv
    <2> QED
      BY <2>1, <2>2 DEF AccountInv
  <1>2. ASSUME NEW s \in Symbols, Account!Sell(s) PROVE AccountInv'
    <2>1. Finite' /\ WithinLimit(OnBook \ lost)'
      BY <1>0, <1>2, FewerOnRecord DEF Account!Sell
    <2>2. Account!OnRecord' /\ Account!NoneBarred' /\ holdings' \in [Symbols -> Nat]
      BY <1>2 DEF Account!Sell, AccountInv
    <2> QED
      BY <2>1, <2>2 DEF AccountInv
  <1>3. ASSUME NEW s \in Symbols, Account!Mislay(s) PROVE AccountInv'
    <2>1. /\ (OnBook \ lost)' \subseteq OnBook \ lost
          /\ OnBook' \subseteq OnBook \cup {s}
          /\ lost' \subseteq lost \cup OnBook \cup {s}
      BY <1>3 DEF Account!Mislay
    <2>2. Finite' /\ WithinLimit(OnBook \ lost)'
      BY <1>0, <2>1, FewerOnRecord
    <2>3. Account!OnRecord' /\ Account!NoneBarred' /\ holdings' \in [Symbols -> Nat]
      BY <1>3 DEF Account!Mislay, AccountInv
    <2> QED
      BY <2>2, <2>3 DEF AccountInv
  <1>4. CASE Account!Fail
    <2>1. PICK S : /\ IsFiniteSet(S)
                   /\ lost' = lost \cup OnBook \cup S
      <3>1. CASE lost' = lost \cup OnBook
        BY <1>0, <3>1
      <3>2. CASE \E s \in Symbols : lost' = lost \cup OnBook \cup {s}
        BY <1>0, <3>2
      <3> QED
        BY <1>4, <3>1, <3>2 DEF Account!Fail
    <2>2. /\ OnBook' \subseteq lost
          /\ (OnBook \ lost)' = {}
      BY <1>4, <2>1 DEF Account!Fail
    <2>3. IsFiniteSet(S \cup lost)
      BY <2>1, FS_Union DEF AccountInv
    <2>4. Finite' /\ WithinLimit(OnBook \ lost)'
      BY <2>1, <2>2, <2>3, FewerOnRecord
    <2>5. Account!OnRecord' /\ Account!NoneBarred' /\ holdings' \in [Symbols -> Nat]
      BY <1>4, <2>1, <2>2 DEF Account!Fail, Account!Forget, AccountInv
    <2> QED
      BY <2>4, <2>5 DEF AccountInv
  <1>5. CASE Account!Open
    <2>1. /\ OnBook' \subseteq OnBook /\ OnBook \ lost' \subseteq OnBook'
          /\ lost \subseteq lost' /\ lost' \subseteq lost \cup OnBook
          /\ UNCHANGED <<holdings, blacklist>>
      BY <1>5 DEF Account!Open
    <2>2. Finite' /\ WithinLimit(OnBook \ lost)'
      BY <1>0, <2>1, FewerOnRecord
    <2>3. Account!OnRecord' /\ Account!NoneBarred' /\ holdings' \in [Symbols -> Nat]
      BY <2>1 DEF AccountInv
    <2> QED
      BY <2>2, <2>3 DEF AccountInv
  <1>6. CASE Account!Close \/ Account!Tighten
             \/ UNCHANGED Account!accountVars
    <2>1. OnBook' = OnBook /\ lost' = lost /\ holdings' = holdings
      BY <1>6 DEF Account!Close, Account!Tighten, Account!accountVars
    <2>2. Finite' /\ WithinLimit(OnBook \ lost)'
      BY <1>0, <2>1, FewerOnRecord
    <2>3. Account!NoneBarred'
      BY <1>6, <2>1 DEF Account!Close, Account!Tighten,
                        Account!Forget, Account!accountVars, AccountInv
    <2> QED
      BY <2>1, <2>2, <2>3 DEF AccountInv
  <1> QED
    BY <1>1, <1>2, <1>3, <1>4, <1>5, <1>6 DEF Account!AccountNext

\* An account that is traded by these rules holds one lot of exactly the
\* stocks on record, within every strategy's limit and none of them
\* blacklisted, save the lost ones: TradingAccount is strong enough for what
\* execute_buy, execute_sell and the overnight file are there for.
THEOREM AccountKeepsPromises == ImplementsAccount => []Account!Promises
  <1>1. ASSUME Account!AccountInit PROVE AccountInv
    <2>1. OnBook = {} /\ OnBook \ lost = {}
      BY <1>1 DEF Account!AccountInit
    <2>2. /\ IsFiniteSet(OnBook) /\ IsFiniteSet(lost)
          /\ WithinLimit(OnBook \ lost)
      BY <1>1, <2>1, FS_EmptySet, NothingWithinLimit
      DEF Account!AccountInit
    <2> QED
      BY <1>1, <2>1, <2>2
      DEF Account!AccountInit, AccountInv, Account!OnRecord,
          Account!NoneBarred
  <1>2. AccountInv /\ [Account!AccountNext]_Account!accountVars => AccountInv'
    BY AccountStep
  <1>3. AccountInv => Account!Promises
    BY LimitCounts DEF AccountInv, Account!Promises, Account!Counted
  <1> QED
    BY <1>1, <1>2, <1>3, PTL DEF ImplementsAccount, Account!AccountSpec

(***************************************************************************)
(* Momentum positions.  The close at the end of the day has every one of   *)
(* them among its targets or under way until it is sold; when nothing      *)
(* fails, the account has what the book has, so no sale is refused, and    *)
(* the loop's end is the only way out of a session.                        *)
(***************************************************************************)

ToBeSold(s) == s \in targets \/ (order # NoOrder /\ order.sym = s)

MomentumInv ==
    /\ lost = {}
    /\ phase # "failing"
    /\ phase = "off" => OfStrategy(HeldIn(overnight), "momentum") = {}
    /\ phase = "endday" =>
            /\ order # NoOrder => order.side = "sell"
            /\ \A s \in OfStrategy(Held, "momentum") : ToBeSold(s)

\* A sale at the end of the day is not refused.
LEMMA SaleAccepted ==
    ASSUME TypeOK, BookInv, MomentumInv, Faults = {}, OrderFails
    PROVE  phase # "endday" /\ UNCHANGED lost
  <1>1. /\ order # NoOrder /\ order \in Orders /\ order.sym \in Symbols
        /\ ~order.sent /\ ~Executable(order) /\ UNCHANGED lost
    BY OrderTyped DEF OrderFails, Orders
  <1>2. CASE phase = "endday"
    <2>1. order.side = "sell" /\ IsHeld(positions, order.sym)
      BY <1>1, <1>2 DEF MomentumInv, BookInv, OrderInv
    <2>2. holdings[order.sym] = 1
      BY <1>1, <1>2, <2>1
      DEF BookInv, BookMatchesBroker, Recorded, InFlight, MomentumInv
    <2> QED
      BY <1>1, <2>1, <2>2 DEF Executable
  <1> QED
    BY <1>1, <1>2

LEMMA MomentumStep ==
    ASSUME TypeOK, BookInv, MomentumInv, Faults = {}, [Next]_vars
    PROVE  MomentumInv'
  <1> USE DEF sessionVars, bookVars, riskVars, walkVars, worldVars
  <1> DEFINE Momentum == OfStrategy(Held, "momentum")
  <1>0. NoOrder.sent = FALSE
    BY DEF NoOrder
  <1>1. CASE StartSession
    BY <1>1 DEF StartSession, LoadOvernightPositions, MomentumInv
  <1>2. CASE RestoreBudget
    BY <1>2 DEF RestoreBudget, MomentumInv
  <1>3. CASE StartupPhaseDone
    BY <1>3, ModeAssumption DEF StartupPhaseDone, MomentumInv
  <1>4. CASE Loop
    <2>1. phase \notin {"off", "endday"} \/ UNCHANGED <<positions, order,
                                            targets, phase, overnight, lost>>
      BY <1>4
      DEF Loop, HandleTick, PollCycle, CycleDone, WaitOver, VisitNothing,
          VisitSell, VisitBuy, MayExit, Trading
    <2>2. phase' \notin {"off", "endday", "failing"}
          \/ UNCHANGED <<positions, order, targets, phase, overnight, lost>>
      BY <1>4, <2>1
      DEF Loop, HandleTick, PollCycle, CycleDone, WaitOver, VisitNothing,
          VisitSell, VisitBuy, MomentumInv
    <2>3. UNCHANGED lost
      BY <1>4
      DEF Loop, HandleTick, PollCycle, CycleDone, WaitOver, VisitNothing,
          VisitSell, VisitBuy
    <2> QED
      BY <2>2, <2>3
      DEF MomentumInv, OfStrategy, Held, HeldIn, IsHeld, ToBeSold
  <1>5. CASE BrokerAccepts
    <2>1. /\ order' # NoOrder /\ order'.sym = order.sym
          /\ order'.side = order.side
          /\ UNCHANGED <<positions, targets, phase, overnight, lost>>
      BY <1>0, <1>5, OrderTyped DEF BrokerAccepts, Orders
    <2> QED
      BY <1>5, <2>1
      DEF BrokerAccepts, MomentumInv, OfStrategy, Held, HeldIn, IsHeld,
          ToBeSold
  <1>6. CASE OrderFails
    <2>1. phase # "off"
      BY <1>6 DEF OrderFails, BookInv, PhaseInv
    <2> QED
      BY <1>6, <2>1, SaleAccepted DEF OrderFails, MomentumInv
  <1>7. CASE ExecuteBuy
    <2>1. phase \notin {"off", "endday"}
      BY <1>7, SideNotNone DEF ExecuteBuy, BookInv, PhaseInv, MomentumInv
    <2> QED
      BY <1>7, <2>1 DEF ExecuteBuy, MomentumInv
  <1>8. CASE ExecuteSell
    <2>1. /\ Held' = Held \ {order.sym}
          /\ phase # "off" /\ phase' = phase /\ order' = NoOrder
      BY <1>8, SoldIsNotHeld
    <2>2. UNCHANGED targets \/ targets' = Held'
      BY <1>8 DEF ExecuteSell, UpdateDrawdown, Held
    <2> QED
      BY <1>8, <2>1, <2>2
      DEF ExecuteSell, MomentumInv, OfStrategy, ToBeSold
  <1>9. CASE ForceCloseNext
    <2>1. PICK s \in targets :
            /\ targets' = targets \ {s}
            /\ Submit("sell", s, positions[s].cost, "sweep")
      BY <1>9 DEF ForceCloseNext
    <2>2. order' # NoOrder /\ order'.sym = s /\ order'.side = "sell"
      BY <2>1 DEF Submit, NoOrder
    <2> QED
      BY <1>9, <2>1, <2>2
      DEF ForceCloseNext, MomentumInv, OfStrategy, Held, HeldIn, IsHeld,
          ToBeSold
  <1>10. CASE ForceCloseDone
    BY <1>10 DEF ForceCloseDone, Trading, MomentumInv
  <1>11. CASE PollingEnds \/ LiquidationDone \/ WebSocketEnds
    <2>1. EnterEndOfDay /\ UNCHANGED lost
      BY <1>0, <1>11
      DEF PollingEnds, LiquidationDone, WebSocketEnds, Idle
    <2> QED
      BY <2>1
      DEF EnterEndOfDay, EndOfDayTargets, MomentumInv, OfStrategy, Held,
          HeldIn, IsHeld, ToBeSold
  <1>12. CASE SaveOvernightPositions
    <2>1. HeldIn(overnight)' = Held
      BY <1>12
      DEF SaveOvernightPositions, Held, HeldIn, IsHeld, TypeOK, Position
    <2>2. Momentum = {}
      BY <1>12 DEF SaveOvernightPositions, MomentumInv, ToBeSold
    <2>3. phase' = "off" /\ UNCHANGED lost
      BY <1>12 DEF SaveOvernightPositions, ProcessGone
    <2> QED
      BY <2>1, <2>2, <2>3 DEF MomentumInv, OfStrategy
  <1>13. CASE FailureExit \/ MainFails \/ Killed
    BY <1>13 DEF FailureExit, MainFails, Killed, MomentumInv
  <1>14. CASE Rescreen \/ ForceCloseTime \/ TouchKillFile \/ UNCHANGED vars
    BY <1>14
    DEF Rescreen, ForceCloseTime, TouchKillFile, vars, MomentumInv,
        OfStrategy, Held, HeldIn, IsHeld, ToBeSold
  <1> QED
    BY <1>1, <1>2, <1>3, <1>4, <1>5, <1>6, <1>7, <1>8, <1>9, <1>10, <1>11,
       <1>12, <1>13, <1>14
    DEF Next, Startup, Replies, Closing

LEMMA MomentumInvariant == Faults = {} => (Spec => []MomentumInv)
  <1> SUFFICES ASSUME Faults = {} PROVE Spec => []MomentumInv
    OBVIOUS
  <1>1. ASSUME Init PROVE MomentumInv
    <2>1. HeldIn(overnight) = {}
      BY <1>1, EmptyBookHoldsNothing DEF Init
    <2> QED
      BY <1>1, <2>1 DEF Init, MomentumInv, OfStrategy
  <1>2. TypeOK /\ BookInv /\ MomentumInv /\ [Next]_vars => MomentumInv'
    BY MomentumStep
  <1> QED
    BY <1>1, <1>2, TypeCorrect, BookInvariant, PTL DEF Spec

\* When nothing fails, no momentum position is saved for the next day: the
\* force_close_all(force_all=False) after the loop finds every one of them
\* and each of its sales goes through.
THEOREM MomentumHolds == Faults = {} => (Spec => []MomentumIsIntraday)
  <1> SUFFICES ASSUME Faults = {} PROVE Spec => []MomentumIsIntraday
    OBVIOUS
  <1>1. MomentumInv => MomentumIsIntraday
    BY DEF MomentumInv, MomentumIsIntraday
  <1> QED
    BY <1>1, MomentumInvariant, PTL

(***************************************************************************)
(* Closing everything: the kill file in polling mode and a drawdown of -3% *)
(* start a sweep over all positions, while no order is under way; until it *)
(* is through, nothing is bought.                                          *)
(***************************************************************************)

WholeSweepInv ==
    /\ phase = "liquidate" => sweep = "all"
    /\ sweep = "all" =>
            /\ phase # "off"
            /\ order # NoOrder => order.side = "sell"
            /\ \A s \in Held : ToBeSold(s)

\* force_close_all(force_all=True) has asked for every position and has all
\* answers.
WholeSweepDone == sweep = "all" /\ targets = {} /\ order = NoOrder

SweepEmptiesAccount == WholeSweepDone => \A s \in Symbols : holdings[s] = 0

\* What is held is in the account, so its sale is not refused.
LEMMA NoSaleFails ==
    ASSUME TypeOK, BookInv, lost = {}, Faults = {}, OrderFails
    PROVE  order.side = "buy"
  <1>1. /\ order # NoOrder /\ order \in Orders /\ order.sym \in Symbols
        /\ ~order.sent /\ ~Executable(order)
    BY OrderTyped DEF OrderFails, Orders
  <1>2. SUFFICES ASSUME order.side = "sell" PROVE FALSE
    BY <1>1 DEF Orders
  <1>3. IsHeld(positions, order.sym) /\ phase # "off"
    BY <1>1, <1>2 DEF BookInv, OrderInv, PhaseInv
  <1>4. holdings[order.sym] = 1
    BY <1>1, <1>3 DEF BookInv, BookMatchesBroker, Recorded, InFlight
  <1> QED
    BY <1>1, <1>2, <1>4 DEF Executable

LEMMA WholeSweepStep ==
    ASSUME TypeOK, BookInv, MomentumInv, WholeSweepInv, Faults = {}, [Next]_vars
    PROVE  WholeSweepInv'
  <1> USE DEF sessionVars, bookVars, riskVars, walkVars, worldVars, WholeSweepInv
  <1> USE DEF BookInv, SweepInv, PhaseInv
  <1>0. NoOrder.sent = FALSE /\ NoOrder.side = "none"
    BY DEF NoOrder
  <1>1. CASE Startup
    BY <1>1, ModeAssumption
    DEF Startup, StartSession, RestoreBudget, StartupPhaseDone, Idle
  <1>2. CASE HandleTick \/ PollCycle \/ CycleDone \/ VisitNothing \/ VisitSell
             \/ VisitBuy
    <2>1. sweep = "none" /\ sweep' = "none" /\ phase' # "liquidate"
      BY <1>2
      DEF HandleTick, PollCycle, CycleDone, VisitNothing, VisitSell, VisitBuy,
          Idle, Trading
    <2> QED
      BY <2>1
  <1>3. CASE WaitOver
    <2>1. order = NoOrder /\ UNCHANGED <<positions, order>> /\ sweep = "none"
      BY <1>3 DEF WaitOver
    <2>2. CASE phase' = "poll"
      BY <1>3, <2>1, <2>2 DEF WaitOver
    <2>3. CASE phase' = "liquidate"
      BY <1>3, <2>1, <2>3 DEF WaitOver, Held, HeldIn, IsHeld, ToBeSold
    <2> QED
      BY <1>3, <2>2, <2>3 DEF WaitOver
  <1>4. CASE BrokerAccepts
    <2>1. /\ order' # NoOrder /\ order'.sym = order.sym
          /\ order'.side = order.side
          /\ UNCHANGED <<positions, targets, sweep, phase>>
      BY <1>0, <1>4, OrderTyped DEF BrokerAccepts, Orders
    <2> QED
      BY <1>4, <2>1 DEF BrokerAccepts, Held, HeldIn, IsHeld, ToBeSold
  <1>5. CASE OrderFails
    <2>1. order.side = "buy" /\ order # NoOrder
      BY <1>5, NoSaleFails DEF MomentumInv, OrderFails
    <2> QED
      BY <1>5, <2>1 DEF OrderFails
  <1>6. CASE ExecuteBuy
    BY <1>0, <1>6 DEF ExecuteBuy
  <1>7. CASE ExecuteSell
    <2>1. /\ Held' = Held \ {order.sym}
          /\ phase # "off" /\ phase' = phase /\ order' = NoOrder
      BY <1>7, SoldIsNotHeld
    <2>2. \/ UNCHANGED <<targets, sweep>>
          \/ targets' = Held' /\ sweep' = "all"
      BY <1>7 DEF ExecuteSell, UpdateDrawdown, Held
    <2> QED
      BY <1>7, <2>1, <2>2 DEF ToBeSold
  <1>8. CASE ForceCloseNext
    <2>1. PICK s \in targets :
            /\ targets' = targets \ {s}
            /\ Submit("sell", s, positions[s].cost, "sweep")
      BY <1>8 DEF ForceCloseNext
    <2>2. order' # NoOrder /\ order'.sym = s /\ order'.side = "sell"
      BY <2>1 DEF Submit, NoOrder
    <2> QED
      BY <1>8, <2>1, <2>2
      DEF ForceCloseNext, Held, HeldIn, IsHeld, ToBeSold
  <1>9. CASE ForceCloseDone
    BY <1>9 DEF ForceCloseDone, Trading
  <1>10. CASE PollingEnds \/ LiquidationDone \/ WebSocketEnds
    BY <1>10 DEF PollingEnds, LiquidationDone, WebSocketEnds, EnterEndOfDay
  <1>11. CASE SaveOvernightPositions \/ FailureExit
    BY <1>11 DEF SaveOvernightPositions, FailureExit, ProcessGone
  <1>12. CASE MainFails \/ Killed
    BY <1>12 DEF MainFails, Killed
  <1>13. CASE Rescreen \/ ForceCloseTime \/ TouchKillFile \/ UNCHANGED vars
    BY <1>13
    DEF Rescreen, ForceCloseTime, TouchKillFile, vars, Held, HeldIn, IsHeld,
        ToBeSold
  <1> QED
    BY <1>1, <1>2, <1>3, <1>4, <1>5, <1>6, <1>7, <1>8, <1>9, <1>10, <1>11,
       <1>12, <1>13
    DEF Next, Loop, Replies, Closing

\* When nothing fails, a sweep over all positions leaves nothing in the
\* account: what is held and not yet asked for is among its targets, no sale
\* is refused, and the ticks that could buy wait for it.  It is the safety
\* part of KillFileClosesHoldings, and holds of the drawdown guard's forced
\* close, too.
THEOREM SweepsEmptyTheAccount ==
    Faults = {} => (Spec => []SweepEmptiesAccount)
  <1> SUFFICES ASSUME Faults = {} PROVE Spec => []SweepEmptiesAccount
    OBVIOUS
  <1>1. Init => WholeSweepInv
    BY DEF Init, WholeSweepInv
  <1>2. TypeOK /\ BookInv /\ MomentumInv /\ WholeSweepInv /\ [Next]_vars
            => WholeSweepInv'
    BY WholeSweepStep
  <1>3. ASSUME TypeOK, BookInv, MomentumInv, WholeSweepInv
        PROVE  SweepEmptiesAccount
    <2> SUFFICES ASSUME WholeSweepDone, NEW s \in Symbols PROVE holdings[s] = 0
      BY DEF SweepEmptiesAccount
    <2>1. ~IsHeld(positions, s) /\ phase # "off" /\ lost = {}
      BY <1>3
      DEF WholeSweepDone, WholeSweepInv, ToBeSold, Held, HeldIn, MomentumInv
    <2>2. ~InFlight(s)
      BY DEF WholeSweepDone, InFlight, NoOrder
    <2> QED
      BY <1>3, <2>1, <2>2 DEF BookInv, BookMatchesBroker, Recorded
  <1>4. TypeOK /\ BookInv /\ MomentumInv /\ WholeSweepInv => SweepEmptiesAccount
    BY <1>3
  <1> QED
    BY <1>1, <1>2, <1>4, MomentumInvariant, TypeCorrect, BookInvariant, PTL
    DEF Spec

(***************************************************************************)
(* The money buckets.  While the restored positions are being counted, a   *)
(* bucket covers those that have been visited; a sale releases what the    *)
(* position cost because the order carries that amount.                    *)
(***************************************************************************)

Costs    == [s \in Symbols |-> positions[s].cost]
Counted  == IF phase = "restore" THEN Held \ todo ELSE Held
Spent(st) == SumFunctionOnSet(Costs, OfStrategy(Counted, st))

\* What the sums rest on: which positions are still to be counted, and what
\* an order carries.
MoneyInv ==
    /\ phase = "off" => used = NoUse
    /\ phase = "restore" => todo \subseteq Held
    /\ order.side = "sell" => order.cost = positions[order.sym].cost

NotMore == \A st \in Strategies : used[st] <= Spent(st)

LEMMA CostsTyped ==
    ASSUME TypeOK
    PROVE  \A s \in Symbols : Costs[s] \in Nat /\ Costs[s] = positions[s].cost
  BY PositionTyped DEF TypeOK, Costs

LEMMA CountedIsFinite ==
    ASSUME LimitInv, NEW st
    PROVE  /\ IsFiniteSet(OfStrategy(Counted, st))
           /\ IsFiniteSet(OfStrategy(Held, st))
           /\ OfStrategy(Counted, st) \subseteq OfStrategy(Held, st)
           /\ OfStrategy(Held, st) \subseteq Symbols
  BY FS_Subset DEF LimitInv, WithinLimit, OfStrategy, Counted, Held, HeldIn

LEMMA SpentTyped ==
    ASSUME TypeOK, LimitInv, NEW st
    PROVE  Spent(st) \in Nat /\ Exposure(st) \in Nat /\ Spent(st) <= Exposure(st)
  <1>1. Exposure(st) = SumFunctionOnSet(Costs, OfStrategy(Held, st))
    BY DEF Exposure, Costs
  <1> DEFINE T == OfStrategy(Counted, st)
             S == OfStrategy(Held, st)
  <1>2. /\ IsFiniteSet(S) /\ IsFiniteSet(T) /\ T \in SUBSET S
        /\ \A s \in S : Costs[s] \in Nat
    BY CostsTyped, CountedIsFinite
  <1>3. Spent(st) = SumFunctionOnSet(Costs, T)
    BY DEF Spent
  <1> HIDE DEF S, T
  <1> QED
    BY <1>1, <1>2, <1>3, SumTyped, SumOfPart DEF S

\* A set of positions that keeps its members and their costs keeps its sum.
LEMMA SameSpent ==
    ASSUME LimitInv, NEW st, OfStrategy(Counted, st)' = OfStrategy(Counted, st),
           \A s \in OfStrategy(Counted, st) : positions'[s].cost = positions[s].cost
    PROVE  Spent(st)' = Spent(st)
  <1> DEFINE T == OfStrategy(Counted, st)
             D == Costs'
  <1>1. IsFiniteSet(T) /\ \A s \in T : Costs[s] = D[s]
    BY CountedIsFinite DEF Costs
  <1>2. Spent(st) = SumFunctionOnSet(Costs, T)
    BY DEF Spent
  <1>3. Spent(st)' = SumFunctionOnSet(D, T)
    BY DEF Spent
  <1> HIDE DEF T, D
  <1> QED
    BY <1>1, <1>2, <1>3, SumOfSameValues

(***************************************************************************)
(* Every step seen from the buckets: most change neither what is counted   *)
(* nor the amounts.                                                        *)
(***************************************************************************)

OrderKept ==
    \/ order'.side = "none"
    \/ /\ order'.side = order.side /\ order'.sym = order.sym
       /\ order'.cost = order.cost
    \/ /\ order'.side = "sell" /\ order'.sym \in Symbols
       /\ order'.cost = positions[order'.sym].cost
    \/ VisitBuy

Quiet ==
    /\ UNCHANGED <<positions, used, overnight, regime, balance>>
    /\ (phase # "off" /\ phase' # "off") \/ UNCHANGED phase
    /\ \/ phase' # "restore" /\ (phase = "restore" => todo = {})
       \/ UNCHANGED <<phase, todo>>
    /\ OrderKept

LEMMA MoneyShapes ==
    ASSUME TypeOK, BookInv, [Next]_vars
    PROVE  Quiet \/ StartSession \/ RestoreBudget \/ ExecuteBuy \/ ExecuteSell
           \/ Gone
  <1> USE DEF sessionVars, bookVars, riskVars, walkVars, worldVars
  <1>0. NoOrder.side = "none"
    BY DEF NoOrder
  <1>2. CASE StartupPhaseDone
    BY <1>0, <1>2, ModeAssumption DEF StartupPhaseDone, Idle, Quiet, OrderKept
  <1>3. CASE HandleTick
    BY <1>3 DEF HandleTick, Quiet, OrderKept
  <1>4. CASE PollCycle
    BY <1>4 DEF PollCycle, Quiet, OrderKept
  <1>5. CASE CycleDone \/ WaitOver
    BY <1>5 DEF CycleDone, WaitOver, Quiet, OrderKept
  <1>6. CASE VisitNothing
    BY <1>6 DEF VisitNothing, Quiet, OrderKept
  <1>7. CASE VisitSell
    <2>1. phase # "restore" /\ phase # "off"
      BY <1>7 DEF VisitSell, MayExit, Trading
    <2> QED
      BY <1>7, <2>1 DEF VisitSell, Submit, Quiet, OrderKept, TypeOK
  <1>8. CASE VisitBuy
    BY <1>8 DEF VisitBuy, Trading, Quiet, OrderKept
  <1>9. CASE BrokerAccepts
    BY <1>9, OrderTyped
    DEF BrokerAccepts, Orders, Quiet, OrderKept, BookInv, PhaseInv
  <1>10. CASE OrderFails
    BY <1>0, <1>10 DEF OrderFails, Quiet, OrderKept, BookInv, PhaseInv
  <1>11. CASE ForceCloseNext
    <2>1. phase # "restore" /\ phase # "off"
      BY <1>11 DEF ForceCloseNext, BookInv, PhaseInv
    <2> QED
      BY <1>11, <2>1 DEF ForceCloseNext, Submit, Quiet, OrderKept, TypeOK
  <1>12. CASE ForceCloseDone
    BY <1>12 DEF ForceCloseDone, Trading, Quiet, OrderKept
  <1>13. CASE PollingEnds \/ LiquidationDone \/ WebSocketEnds
    BY <1>0, <1>13
    DEF PollingEnds, LiquidationDone, WebSocketEnds, EnterEndOfDay, Quiet,
        OrderKept
  <1>14. CASE SaveOvernightPositions
    BY <1>14 DEF SaveOvernightPositions, Gone
  <1>15. CASE FailureExit \/ Killed
    BY <1>15 DEF FailureExit, Killed, Gone
  <1>16. CASE Rescreen \/ ForceCloseTime \/ MainFails
    BY <1>16 DEF Rescreen, ForceCloseTime, MainFails, Quiet, OrderKept
  <1>17. CASE TouchKillFile \/ UNCHANGED vars
    BY <1>17 DEF TouchKillFile, vars, Quiet, OrderKept
  <1> QED
    BY <1>2, <1>3, <1>4, <1>5, <1>6, <1>7, <1>8, <1>9, <1>10, <1>11, <1>12,
       <1>13, <1>14, <1>15, <1>16, <1>17
    DEF Next, Startup, Loop, Replies, Closing

LEMMA MoneyStep ==
    ASSUME TypeOK, BookInv, MoneyInv, [Next]_vars
    PROVE  MoneyInv'
  <1>0. NoOrder.side = "none"
    BY DEF NoOrder
  <1>1. CASE Quiet
    <2>1. CASE VisitBuy
      BY <1>1, <2>1 DEF VisitBuy, Submit, Trading, MoneyInv, Quiet, Held, HeldIn, IsHeld
    <2>2. CASE ~VisitBuy
      BY <1>1, <2>2 DEF MoneyInv, Quiet, OrderKept, Held, HeldIn, IsHeld
    <2> QED
      BY <2>1, <2>2
  <1>2. CASE StartSession
    <2>1. /\ phase' = "restore" /\ todo' = HeldIn(positions')
          /\ order' = NoOrder
      BY <1>2 DEF StartSession, BookInv, PhaseInv
    <2> QED
      BY <1>0, <2>1 DEF MoneyInv, Held, HeldIn, IsHeld
  <1>3. CASE RestoreBudget
    <2>1. /\ phase' = "restore" /\ todo' \subseteq todo
          /\ UNCHANGED <<positions, order>> /\ phase = "restore"
      BY <1>3 DEF RestoreBudget, sessionVars
    <2> QED
      BY <2>1 DEF MoneyInv, Held, HeldIn, IsHeld
  <1>4. CASE ExecuteBuy
    <2>1. phase # "off" /\ phase # "restore" /\ phase' = phase /\ order' = NoOrder
      BY <1>4, SideNotNone DEF ExecuteBuy, BookInv, PhaseInv, sessionVars
    <2> QED
      BY <1>0, <2>1 DEF MoneyInv
  <1>5. CASE ExecuteSell
    <2>1. phase # "off" /\ phase # "restore" /\ phase' = phase /\ order' = NoOrder
      BY <1>5, SideNotNone DEF ExecuteSell, BookInv, PhaseInv, sessionVars
    <2> QED
      BY <1>0, <2>1 DEF MoneyInv
  <1>6. CASE Gone
    BY <1>0, <1>6 DEF Gone, ProcessGone, MoneyInv
  <1> QED
    BY <1>1, <1>2, <1>3, <1>4, <1>5, <1>6, MoneyShapes

(***************************************************************************)
(* What each step does to the sums.                                        *)
(***************************************************************************)

LEMMA QuietSpent ==
    ASSUME TypeOK, LimitInv, Quiet, NEW st \in Strategies
    PROVE  Spent(st)' = Spent(st) /\ used'[st] = used[st]
  <1>1. Counted' = Counted
    BY DEF Quiet, Counted, Held, HeldIn, IsHeld
  <1> QED
    BY <1>1, SameSpent DEF Quiet, OfStrategy

LEMMA NothingSpent ==
    ASSUME NEW st, Counted' = {}
    PROVE  Spent(st)' = 0
  <1> DEFINE D == Costs'
  <1>1. Spent(st)' = SumFunctionOnSet(D, OfStrategy(Counted, st)')
    BY DEF Spent
  <1>2. OfStrategy(Counted, st)' = {}
    BY DEF OfStrategy
  <1> HIDE DEF D
  <1> QED
    BY <1>1, <1>2, SumOfNothing

LEMMA StartSpent ==
    ASSUME TypeOK, BookInv, MoneyInv, StartSession, NEW st \in Strategies
    PROVE  Spent(st)' = 0 /\ used'[st] = 0
  <1>1. /\ phase' = "restore" /\ todo' = HeldIn(positions')
        /\ used' = used /\ phase = "off"
    BY DEF StartSession
  <1>2. Counted' = {}
    BY <1>1 DEF Counted, Held, HeldIn, IsHeld
  <1> QED
    BY <1>1, <1>2, NothingSpent DEF MoneyInv, NoUse

LEMMA GoneSpent ==
    ASSUME Gone, NEW st \in Strategies
    PROVE  Spent(st)' = 0 /\ used'[st] = 0
  <1>1. Held' = {} /\ used' = NoUse
    BY EmptyBookHoldsNothing DEF Gone, ProcessGone, Held
  <1>2. Counted' = {}
    BY <1>1 DEF Counted
  <1> QED
    BY <1>1, <1>2, NothingSpent DEF NoUse

\* One position more is counted, at what it cost.
LEMMA OneMoreSpent ==
    ASSUME TypeOK, LimitInv, NEW a \in Symbols, a \notin Counted,
           Counted' = Counted \cup {a},
           positions'[a].cost \in Nat,
           \A s \in Symbols \ {a} : positions'[s] = positions[s]
    PROVE  \A st \in Strategies :
              Spent(st)' = IF st = Classified[a]
                           THEN positions'[a].cost + Spent(st)
                           ELSE Spent(st)
  <1> SUFFICES ASSUME NEW st \in Strategies
               PROVE  Spent(st)' = IF st = Classified[a]
                                   THEN positions'[a].cost + Spent(st)
                                   ELSE Spent(st)
    OBVIOUS
  <1> DEFINE T == OfStrategy(Counted, st)
             D == Costs'
  <1>1. /\ IsFiniteSet(T) /\ a \notin T /\ T \subseteq Symbols
        /\ \A s \in T : Costs[s] \in Nat /\ D[s] = Costs[s]
        /\ D[a] = positions'[a].cost
    BY CountedIsFinite, CostsTyped DEF Costs, OfStrategy
  <1>2. Spent(st) = SumFunctionOnSet(Costs, T)
    BY DEF Spent
  <1>3. CASE st # Classified[a]
    <2>1. OfStrategy(Counted, st)' = T
      BY <1>3 DEF OfStrategy
    <2> QED
      BY <1>1, <1>3, <2>1, SameSpent DEF Costs, OfStrategy
  <1>4. CASE st = Classified[a]
    <2>1. OfStrategy(Counted, st)' = T \cup {a}
      BY <1>4 DEF OfStrategy
    <2>2. Spent(st)' = SumFunctionOnSet(D, T \cup {a})
      BY <2>1 DEF Spent
    <2>3. D[a] \in Nat /\ \A s \in T : D[s] \in Nat
      BY <1>1
    <2> HIDE DEF T, D
    <2>4. SumFunctionOnSet(D, T \cup {a}) = D[a] + SumFunctionOnSet(D, T)
      BY <1>1, <2>3, SumWith
    <2>5. SumFunctionOnSet(D, T) = SumFunctionOnSet(Costs, T)
      BY <1>1, SumOfSameValues
    <2> QED
      BY <1>1, <1>2, <1>4, <2>2, <2>4, <2>5
  <1> QED
    BY <1>3, <1>4

\* One position less is counted.
LEMMA OneLessSpent ==
    ASSUME TypeOK, LimitInv, NEW a \in Counted,
           Counted' = Counted \ {a},
           \A s \in Symbols \ {a} : positions'[s] = positions[s]
    PROVE  \A st \in Strategies :
              /\ st = Classified[a] => Spent(st) = positions[a].cost + Spent(st)'
              /\ st # Classified[a] => Spent(st)' = Spent(st)
  <1> SUFFICES ASSUME NEW st \in Strategies
               PROVE  /\ st = Classified[a] =>
                            Spent(st) = positions[a].cost + Spent(st)'
                      /\ st # Classified[a] => Spent(st)' = Spent(st)
    OBVIOUS
  <1> DEFINE T == OfStrategy(Counted, st)
             D == Costs'
  <1>1. /\ IsFiniteSet(T) /\ T \subseteq Symbols
        /\ \A s \in T : Costs[s] \in Nat
        /\ \A s \in T \ {a} : D[s] = Costs[s]
    BY CountedIsFinite, CostsTyped DEF Costs, OfStrategy
  <1>2. Spent(st) = SumFunctionOnSet(Costs, T)
    BY DEF Spent
  <1>3. ASSUME st # Classified[a] PROVE Spent(st)' = Spent(st)
    <2>1. OfStrategy(Counted, st)' = T /\ a \notin T
      BY <1>3 DEF OfStrategy
    <2> QED
      BY <1>1, <2>1, SameSpent DEF Costs, OfStrategy
  <1>4. ASSUME st = Classified[a]
        PROVE  Spent(st) = positions[a].cost + Spent(st)'
    <2>1. OfStrategy(Counted, st)' = T \ {a}
      BY DEF OfStrategy
    <2>2. Spent(st)' = SumFunctionOnSet(D, T \ {a})
      BY <2>1 DEF Spent
    <2>3. a \in T /\ IsFiniteSet(T \ {a})
      BY <1>1, <1>4, FS_Subset DEF OfStrategy, Counted, Held, HeldIn
    <2>4. Costs[a] = positions[a].cost
      BY <1>1, <2>3 DEF Costs
    <2> HIDE DEF T, D
    <2>5. SumFunctionOnSet(Costs, T) = Costs[a] + SumFunctionOnSet(Costs, T \ {a})
      BY <1>1, <2>3, SumWithout
    <2> DEFINE U == T \ {a}
    <2>6. IsFiniteSet(U) /\ \A s \in U : Costs[s] = D[s]
      BY <1>1, <2>3
    <2> HIDE DEF U
    <2>7. SumFunctionOnSet(D, U) = SumFunctionOnSet(Costs, U)
      BY <2>6, SumOfSameValues
    <2> QED
      BY <1>2, <2>2, <2>4, <2>5, <2>7 DEF U
  <1> QED
    BY <1>3, <1>4

LEMMA RestoreSpent ==
    ASSUME TypeOK, BookInv, LimitInv, MoneyInv, RestoreBudget
    PROVE  \E a \in Held :
              /\ Counted' = Counted \cup {a} /\ a \notin Counted
              /\ used' = Allocate(balance, regime, used, Classified[a],
                                  positions[a].cost)
              /\ UNCHANGED positions
  <1>1. /\ phase = "restore" /\ phase' = "restore" /\ positions' = positions
        /\ todo \subseteq Held
    BY DEF RestoreBudget, sessionVars, MoneyInv
  <1>2. PICK a \in todo :
              /\ used' = Allocate(balance, regime, used, Classified[a],
                                  positions[a].cost)
              /\ todo' = todo \ {a}
    BY DEF RestoreBudget
  <1>3. Held' = Held
    BY <1>1 DEF Held, HeldIn, IsHeld
  <1>4. Counted = Held \ todo /\ Counted' = Held \ (todo \ {a})
    BY <1>1, <1>2, <1>3 DEF Counted
  <1> QED
    BY <1>1, <1>2, <1>4

\* allocate never counts more than it was given, release never less.
LEMMA AllocateAdds ==
    ASSUME NEW u \in [Strategies -> Nat], NEW a \in Strategies,
           NEW amount \in Nat, NEW b, NEW r, NEW st \in Strategies
    PROVE  Allocate(b, r, u, a, amount)[st] <=
              (IF st = a THEN amount + u[st] ELSE u[st])
  BY DEF Allocate

LEMMA ReleaseTakes ==
    ASSUME NEW u \in [Strategies -> Nat], NEW a \in Strategies,
           NEW amount \in Nat, NEW st \in Strategies
    PROVE  Release(u, a, amount)[st] =
              IF st # a THEN u[st]
              ELSE IF u[st] > amount THEN u[st] - amount ELSE 0
  BY DEF Release

LEMMA BuySpent ==
    ASSUME TypeOK, BookInv, LimitInv, ExecuteBuy
    PROVE  /\ order.sym \in Symbols /\ Classified[order.sym] \in Strategies
           /\ order.cost \in Nat
           /\ used' = Allocate(balance, regime, used, Classified[order.sym],
                               order.cost)
           /\ \A st \in Strategies :
                 Spent(st)' = IF st = Classified[order.sym]
                              THEN order.cost + Spent(st) ELSE Spent(st)
  <1>1. /\ order # NoOrder /\ order.sym \in Symbols /\ order.cost \in Nat
        /\ phase # "restore" /\ phase' = phase
    BY SideNotNone, OrderTyped, AmountTyped
    DEF ExecuteBuy, Orders, BookInv, PhaseInv, sessionVars
  <1>2. /\ Held' = Held \cup {order.sym} /\ order.sym \notin Held
        /\ \A s \in Symbols \ {order.sym} : positions'[s] = positions[s]
    BY BoughtIsHeld DEF Held, HeldIn
  <1>3. positions'[order.sym].cost = order.cost
    BY <1>1 DEF ExecuteBuy, TypeOK
  <1>4. Counted' = Counted \cup {order.sym} /\ order.sym \notin Counted
    BY <1>1, <1>2 DEF Counted
  <1>5. \A st \in Strategies :
           Spent(st)' = IF st = Classified[order.sym]
                        THEN positions'[order.sym].cost + Spent(st)
                        ELSE Spent(st)
    <2> DEFINE a == order.sym
    <2>1. /\ a \in Symbols /\ a \notin Counted /\ Counted' = Counted \cup {a}
          /\ positions'[a].cost \in Nat
          /\ \A s \in Symbols \ {a} : positions'[s] = positions[s]
      BY <1>1, <1>2, <1>3, <1>4
    <2> HIDE DEF a
    <2>2. \A st \in Strategies :
             Spent(st)' = IF st = Classified[a]
                          THEN positions'[a].cost + Spent(st)
                          ELSE Spent(st)
      BY <2>1, OneMoreSpent
    <2> QED
      BY <2>2 DEF a
  <1> QED
    BY <1>1, <1>3, <1>5, ClassifiedAssumption
    DEF ExecuteBuy, ClassifiedAssumption

LEMMA SellSpent ==
    ASSUME TypeOK, BookInv, LimitInv, MoneyInv, ExecuteSell
    PROVE  /\ order.sym \in Symbols /\ Classified[order.sym] \in Strategies
           /\ order.cost \in Nat
           /\ used' = Release(used, Classified[order.sym], order.cost)
           /\ \A st \in Strategies :
                 /\ st = Classified[order.sym] =>
                        Spent(st) = order.cost + Spent(st)'
                 /\ st # Classified[order.sym] => Spent(st)' = Spent(st)
  <1>1. /\ order # NoOrder /\ order.sym \in Symbols /\ order.cost \in Nat
        /\ phase # "restore" /\ phase' = phase
        /\ order.cost = positions[order.sym].cost /\ order.sym \in Held
    BY SideNotNone, OrderTyped, AmountTyped
    DEF ExecuteSell, Orders, BookInv, PhaseInv, OrderInv, sessionVars, MoneyInv,
        Held, HeldIn
  <1>2. /\ Held' = Held \ {order.sym}
        /\ \A s \in Symbols \ {order.sym} : positions'[s] = positions[s]
    BY SoldIsNotHeld
  <1>3. \A st \in Strategies :
           /\ st = Classified[order.sym] =>
                  Spent(st) = positions[order.sym].cost + Spent(st)'
           /\ st # Classified[order.sym] => Spent(st)' = Spent(st)
    <2> DEFINE a == order.sym
    <2>1. /\ a \in Counted /\ Counted' = Counted \ {a}
          /\ \A s \in Symbols \ {a} : positions'[s] = positions[s]
      BY <1>1, <1>2 DEF Counted
    <2> HIDE DEF a
    <2>2. \A st \in Strategies :
             /\ st = Classified[a] => Spent(st) = positions[a].cost + Spent(st)'
             /\ st # Classified[a] => Spent(st)' = Spent(st)
      BY <2>1, OneLessSpent
    <2> QED
      BY <2>2 DEF a
  <1> QED
    BY <1>1, <1>3, ClassifiedAssumption
    DEF ExecuteSell, ClassifiedAssumption

\* The sums of the next state are numbers as well.
LEMMA SpentTypedNext ==
    ASSUME TypeOK, BookInv, LimitInv, [Next]_vars, NEW st \in Strategies
    PROVE  Spent(st)' \in Nat
  <1> DEFINE D == Costs'
             T == OfStrategy(Counted, st)'
  <1>1. TypeOK' /\ LimitInv'
    BY TypeStep, LimitStep
  <1>2. IsFiniteSet(T) /\ T \subseteq Symbols
    BY <1>1, FS_Subset
    DEF LimitInv, WithinLimit, OfStrategy, Counted, Held, HeldIn
  <1>3. \A s \in Symbols : positions'[s].cost \in Nat
    BY <1>1, PositionTyped DEF TypeOK
  <1>4. \A s \in T : D[s] \in Nat
    BY <1>2, <1>3 DEF Costs
  <1>5. Spent(st)' = SumFunctionOnSet(D, T)
    BY DEF Spent
  <1> HIDE DEF D, T
  <1> QED
    BY <1>2, <1>4, <1>5, SumTyped

LEMMA NotMoreStep ==
    ASSUME TypeOK, BookInv, LimitInv, MoneyInv, NotMore, [Next]_vars
    PROVE  NotMore'
  <1> SUFFICES ASSUME NEW st \in Strategies PROVE used'[st] <= Spent(st)'
    BY DEF NotMore
  <1>0. /\ Spent(st) \in Nat /\ used \in [Strategies -> Nat]
        /\ used[st] <= Spent(st) /\ Spent(st)' \in Nat
    BY SpentTyped, SpentTypedNext DEF TypeOK, NotMore
  <1>1. CASE Quiet
    BY <1>0, <1>1, QuietSpent
  <1>2. CASE StartSession \/ Gone
    BY <1>2, StartSpent, GoneSpent
  <1>3. CASE RestoreBudget
    <2>1. PICK a \in Held :
              /\ Counted' = Counted \cup {a} /\ a \notin Counted
              /\ used' = Allocate(balance, regime, used, Classified[a],
                                  positions[a].cost)
              /\ UNCHANGED positions
      BY <1>3, RestoreSpent
    <2>2. /\ a \in Symbols /\ Classified[a] \in Strategies
          /\ positions[a].cost \in Nat /\ positions'[a] = positions[a]
      BY <2>1, PositionTyped, ClassifiedAssumption
      DEF Held, HeldIn, TypeOK, ClassifiedAssumption
    <2>3. Spent(st)' = IF st = Classified[a]
                       THEN positions[a].cost + Spent(st) ELSE Spent(st)
      BY <2>1, <2>2, OneMoreSpent
    <2>4. used'[st] <= (IF st = Classified[a]
                        THEN positions[a].cost + used[st] ELSE used[st])
      BY <1>0, <2>1, <2>2, AllocateAdds
    <2>5. used'[st] \in Nat
      BY <1>0, <2>1, <2>2, AllocateTyped
    <2> QED
      BY <1>0, <2>2, <2>3, <2>4, <2>5
  <1>4. CASE ExecuteBuy
    <2>1. /\ Classified[order.sym] \in Strategies /\ order.cost \in Nat
          /\ used' = Allocate(balance, regime, used, Classified[order.sym],
                              order.cost)
          /\ Spent(st)' = IF st = Classified[order.sym]
                          THEN order.cost + Spent(st) ELSE Spent(st)
      BY <1>4, BuySpent
    <2>2. used'[st] <= (IF st = Classified[order.sym]
                        THEN order.cost + used[st] ELSE used[st])
      BY <1>0, <2>1, AllocateAdds
    <2>3. used'[st] \in Nat
      BY <1>0, <2>1, AllocateTyped
    <2> QED
      BY <1>0, <2>1, <2>2, <2>3
  <1>5. CASE ExecuteSell
    <2>1. /\ Classified[order.sym] \in Strategies /\ order.cost \in Nat
          /\ used' = Release(used, Classified[order.sym], order.cost)
          /\ st = Classified[order.sym] => Spent(st) = order.cost + Spent(st)'
          /\ st # Classified[order.sym] => Spent(st)' = Spent(st)
      BY <1>5, SellSpent
    <2>2. used'[st] = IF st # Classified[order.sym] THEN used[st]
                      ELSE IF used[st] > order.cost THEN used[st] - order.cost
                      ELSE 0
      BY <1>0, <2>1, ReleaseTakes
    <2> QED
      BY <1>0, <2>1, <2>2
  <1> QED
    BY <1>1, <1>2, <1>3, <1>4, <1>5, MoneyShapes

MoneyAll == TypeOK /\ BookInv /\ LimitInv /\ MoneyInv /\ NotMore

LEMMA MoneyInvariant == Spec => []MoneyAll
  <1>1. TypeOK /\ LimitInv /\ Init => MoneyInv /\ NotMore
    <2> SUFFICES ASSUME TypeOK, LimitInv, Init PROVE MoneyInv /\ NotMore
      OBVIOUS
    <2>1. MoneyInv
      BY DEF Init, MoneyInv, NoOrder
    <2>2. \A st \in Strategies : used[st] = 0 /\ Spent(st) \in Nat
      BY SpentTyped DEF Init, NoUse
    <2> QED
      BY <2>1, <2>2 DEF NotMore
  <1>2. TypeOK /\ BookInv /\ LimitInv /\ MoneyInv /\ NotMore /\ [Next]_vars
            => MoneyInv' /\ NotMore'
    BY MoneyStep, NotMoreStep
  <1> QED
    BY <1>1, <1>2, TypeCorrect, BookInvariant, LimitInvariant, PTL
    DEF Spec, MoneyAll

\* Whatever balances and regimes sessions start with, and whatever restores,
\* failed orders, forced closes and crashes happen in between, execute_buy,
\* execute_sell and the restore never leave a bucket that counts more money
\* than the positions it stands for have cost.
THEOREM BucketsNeverLeak == Spec => []NoLeakedBudget
  <1>1. MoneyAll => NoLeakedBudget
    <2> USE DEF MoneyAll
    <2> SUFFICES ASSUME MoneyAll, NEW st \in Strategies
                 PROVE  used[st] <= Exposure(st)
      BY DEF NoLeakedBudget
    <2>1. used[st] \in Nat /\ used[st] <= Spent(st)
      BY DEF TypeOK, NotMore
    <2> QED
      BY <2>1, SpentTyped
  <1> QED
    BY <1>1, MoneyInvariant, PTL

(***************************************************************************)
(* The same, exactly, when the account balance does not change and the     *)
(* largest positions max_positions allows fit the bucket of every regime   *)
(* that trades.  allocate is then never refused: an entry costs at most a  *)
(* tenth of what is available when it is sent, and nothing is allocated    *)
(* until its reply; a restored position was once such an entry, under      *)
(* whatever regime its day had.                                            *)
(***************************************************************************)

SameBalance == \A b, c \in Balances : b = c

\* The regime that gives the strategy most.
BestRegime(st) == IF st = "momentum" THEN "aggressive" ELSE "defensive"

LargestOrder(b, st) == BudgetFor(b, BestRegime(st), st) \div 10

RestoresFit ==
    \A b \in Balances, st \in Strategies, r \in Regimes \ {"crisis"} :
        MaxPositions[st] * LargestOrder(b, st) <= BudgetFor(b, r, st)

SmallCost(st, c) == \A b \in Balances : c <= LargestOrder(b, st)

ExactInv ==
    /\ \A st \in Strategies : used[st] = Spent(st)
    /\ regime # "crisis"
    /\ phase # "off" => balance \in Balances
    /\ \A s \in Symbols : /\ SmallCost(Classified[s], positions[s].cost)
                          /\ SmallCost(Classified[s], overnight[s].cost)
    /\ order.side = "buy" =>
            10 * order.cost <= Available(balance, regime, used,
                                         Classified[order.sym])

\* The code's own limits (three momentum positions, five of mean reversion)
\* meet the condition for every balance from 50 up.
LEMMA DefaultsFit ==
    ASSUME NEW b \in Nat, b >= 50, NEW r \in Regimes \ {"crisis"}
    PROVE  /\ 3 * LargestOrder(b, "momentum") <= BudgetFor(b, r, "momentum")
           /\ 5 * LargestOrder(b, "mean_reversion")
                <= BudgetFor(b, r, "mean_reversion")
  <1>1. CASE r = "aggressive"
    BY <1>1 DEF LargestOrder, BestRegime, BudgetFor, RegimeAllocation, Regimes
  <1>2. CASE r = "neutral"
    BY <1>2 DEF LargestOrder, BestRegime, BudgetFor, RegimeAllocation, Regimes
  <1>3. CASE r = "defensive"
    BY <1>3 DEF LargestOrder, BestRegime, BudgetFor, RegimeAllocation, Regimes
  <1> QED
    BY <1>1, <1>2, <1>3 DEF Regimes

LEMMA BucketTyped ==
    ASSUME NEW b \in Nat, NEW r \in Regimes, NEW st \in Strategies
    PROVE  /\ BudgetFor(b, r, st) \in Nat
           /\ BudgetFor(b, r, st) <= BudgetFor(b, BestRegime(st), st)
           /\ LargestOrder(b, st) \in Nat
           /\ \A c \in Nat : 10 * c <= BudgetFor(b, r, st)
                                => c <= LargestOrder(b, st)
  <1> DEFINE share == RegimeAllocation[r][st]
             best == RegimeAllocation[BestRegime(st)][st]
  <1>1. share \in {0, 20, 30, 40, 50, 60} /\ best \in {50, 60} /\ share <= best
    BY DEF RegimeAllocation, Regimes, Strategies, BestRegime
  <1>2. BudgetFor(b, r, st) = (b * share) \div 100
    BY DEF BudgetFor
  <1>3. BudgetFor(b, BestRegime(st), st) = (b * best) \div 100
    BY DEF BudgetFor
  <1> HIDE DEF share, best
  <1>4. b * share \in Nat /\ b * best \in Nat /\ b * share <= b * best
    BY <1>1
  <1>5. \A m, n \in Nat : m <= n => /\ m \div 100 <= n \div 100
                                    /\ m \div 100 \in Nat /\ n \div 100 \in Nat
    OBVIOUS
  <1>6. /\ BudgetFor(b, r, st) \in Nat
        /\ BudgetFor(b, BestRegime(st), st) \in Nat
        /\ BudgetFor(b, r, st) <= BudgetFor(b, BestRegime(st), st)
    BY <1>2, <1>3, <1>4, <1>5
  <1>7. \A m, c \in Nat : /\ m \div 10 \in Nat
                          /\ 10 * c <= m => c <= m \div 10
    OBVIOUS
  <1> QED
    BY <1>6, <1>7 DEF LargestOrder

\* What fits is allocated.
LEMMA AllocateFits ==
    ASSUME NEW u \in [Strategies -> Nat], NEW a \in Strategies,
           NEW amount \in Nat, NEW b, NEW r, amount <= Available(b, r, u, a),
           Available(b, r, u, a) \in Nat, NEW st \in Strategies
    PROVE  Allocate(b, r, u, a, amount)[st] =
              IF st = a THEN amount + u[st] ELSE u[st]
  BY DEF Allocate

LEMMA AvailableTyped ==
    ASSUME NEW b \in Nat, NEW r \in Regimes, NEW st \in Strategies,
           NEW u \in [Strategies -> Nat]
    PROVE  /\ Available(b, r, u, st) \in Nat
           /\ Available(b, r, u, st) <= BudgetFor(b, r, st)
           /\ Available(b, r, u, st) >= BudgetFor(b, r, st) - u[st]
  BY BucketTyped DEF Available

\* A restored position fits beside those that have been counted.
LEMMA RestoreFits ==
    ASSUME TypeOK, BookInv, LimitInv, MoneyInv, ExactInv, SameBalance,
           RestoresFit, phase = "restore",
           NEW a \in Held, a \notin Counted
    PROVE  positions[a].cost <= Available(balance, regime, used, Classified[a])
  <1> DEFINE st == Classified[a]
             T == OfStrategy(Counted, st)
             U == T \cup {a}
             c == LargestOrder(balance, st)
  <1>1. /\ balance \in Balances /\ balance \in Nat /\ st \in Strategies
        /\ regime \in Regimes \ {"crisis"} /\ a \in Symbols
    BY ClassifiedAssumption
    DEF ClassifiedAssumption, ExactInv, TypeOK, Held, HeldIn
  <1>2. c \in Nat /\ BudgetFor(balance, regime, st) \in Nat
    BY <1>1, BucketTyped
  <1>3. MaxPositions[st] * c <= BudgetFor(balance, regime, st)
    BY <1>1 DEF RestoresFit
  <1>4. /\ IsFiniteSet(OfStrategy(Held, st)) /\ U \subseteq OfStrategy(Held, st)
        /\ Cardinality(OfStrategy(Held, st)) <= MaxPositions[st]
        /\ MaxPositions[st] \in Nat
    BY <1>1, CountedIsFinite, StrategyAssumption
    DEF OfStrategy, LimitInv, WithinLimit, Counted, StrategyAssumption
  <1>5. IsFiniteSet(U) /\ IsFiniteSet(T) /\ a \notin T
    BY <1>4, FS_Subset, CountedIsFinite DEF OfStrategy
  <1>6. Cardinality(U) \in Nat /\ Cardinality(U) <= MaxPositions[st]
    BY <1>4, <1>5, FS_Subset, FS_CardinalityType
  <1>7. \A s \in U : /\ s \in Symbols
                     /\ Costs[s] \in Nat /\ Costs[s] <= c
    <2>1. \A s \in U : s \in Symbols /\ Classified[s] = st
      BY <1>4 DEF OfStrategy, Held, HeldIn
    <2> QED
      BY <1>1, <2>1, CostsTyped DEF ExactInv, SmallCost
  <1>8. SumFunctionOnSet(Costs, T) = used[st] /\ Costs[a] = positions[a].cost
    BY <1>1, CostsTyped DEF ExactInv, Spent
  <1> HIDE DEF T, c, st
  <1>9. SumFunctionOnSet(Costs, U) = Costs[a] + SumFunctionOnSet(Costs, T)
    <2>1. Costs[a] \in Nat /\ \A s \in T : Costs[s] \in Nat
      BY <1>7
    <2> QED
      BY <1>5, <2>1, SumWith
  <1> HIDE DEF U
  <1>10. SumFunctionOnSet(Costs, U) <= Cardinality(U) * c
    BY <1>2, <1>5, <1>7, SumAtMost
  <1>11. Cardinality(U) * c <= MaxPositions[st] * c
    BY <1>2, <1>4, <1>6
  <1>12. Cardinality(U) * c \in Nat /\ MaxPositions[st] * c \in Nat
    BY <1>2, <1>4, <1>6
  <1>13. /\ used[st] \in Nat /\ positions[a].cost \in Nat
         /\ positions[a].cost + used[st] <= BudgetFor(balance, regime, st)
    <2>1. used[st] \in Nat /\ positions[a].cost \in Nat
      BY <1>1, PositionTyped DEF TypeOK
    <2> QED
      BY <1>2, <1>3, <1>8, <1>9, <1>10, <1>11, <1>12, <2>1
  <1>14. /\ Available(balance, regime, used, st) \in Nat
         /\ Available(balance, regime, used, st)
              >= BudgetFor(balance, regime, st) - used[st]
    BY <1>1, AvailableTyped DEF TypeOK
  <1> QED
    BY <1>2, <1>13, <1>14 DEF st

\* An entry that may be sent is small, in the bucket it was measured by and
\* in every other.
LEMMA EntryIsSmall ==
    ASSUME TypeOK, ExactInv, SameBalance, NEW st \in Strategies,
           NEW c \in Nat, 10 * c <= Available(balance, regime, used, st),
           phase # "off"
    PROVE  c <= Available(balance, regime, used, st) /\ SmallCost(st, c)
  <1>1. balance \in Balances /\ balance \in Nat /\ regime \in Regimes
    BY DEF ExactInv, TypeOK
  <1>2. /\ Available(balance, regime, used, st) \in Nat
        /\ Available(balance, regime, used, st) <= BudgetFor(balance, regime, st)
        /\ BudgetFor(balance, regime, st) \in Nat
    BY <1>1, AvailableTyped, BucketTyped DEF TypeOK
  <1>3. 10 * c <= BudgetFor(balance, regime, st)
    BY <1>2
  <1>4. c <= LargestOrder(balance, st)
    BY <1>1, <1>3, BucketTyped
  <1>5. \A b \in Balances : b = balance
    BY <1>1 DEF SameBalance
  <1> QED
    BY <1>2, <1>4, <1>5 DEF SmallCost

LEMMA NothingIsSmall == \A st \in Strategies : SmallCost(st, 0)
  <1> SUFFICES ASSUME NEW st \in Strategies, NEW b \in Balances
               PROVE  LargestOrder(b, st) \in Nat
    BY DEF SmallCost
  <1>1. b \in Nat /\ "neutral" \in Regimes
    BY MoneyAssumption DEF MoneyAssumption, Regimes
  <1> QED
    BY <1>1, BucketTyped

LEMMA VisitBuySmall ==
    ASSUME TypeOK, VisitBuy
    PROVE  /\ order'.side = "buy" => 10 * order'.cost <=
                  Available(balance, regime, used, Classified[order'.sym])
           /\ UNCHANGED <<balance, regime, used>>
  <1>1. PICK s \in todo, cost \in OrderAmounts :
            /\ Affordable(balance, regime, used, Classified[s], cost,
                          SymbolScale(s))
            /\ Submit("buy", s, cost, "entry")
    BY DEF VisitBuy
  <1>2. /\ cost \in Nat /\ s \in Symbols /\ SymbolScale(s) \in {1, 2}
        /\ Classified[s] \in Strategies
    BY MoneyAssumption, ClassifiedAssumption
    DEF TypeOK, SymbolScale, MoneyAssumption, ClassifiedAssumption
  <1>3. Available(balance, regime, used, Classified[s]) \in Nat
    BY <1>2, AvailableTyped DEF TypeOK
  <1>4. 10 * SymbolScale(s) * cost
          <= Available(balance, regime, used, Classified[s])
    BY <1>1 DEF Affordable
  <1>5. 10 * cost <= Available(balance, regime, used, Classified[s])
    <2>1. CASE SymbolScale(s) = 1
      BY <1>2, <1>3, <1>4, <2>1
    <2>2. CASE SymbolScale(s) = 2
      BY <1>2, <1>3, <1>4, <2>2
    <2> QED
      BY <1>2, <2>1, <2>2
  <1> QED
    BY <1>1, <1>5 DEF VisitBuy, Submit, sessionVars, bookVars

LEMMA ExactStep ==
    ASSUME MoneyAll, ExactInv, SameBalance, RestoresFit, [Next]_vars
    PROVE  ExactInv'
  <1> USE DEF MoneyAll
  <1>0. NoOrder.side = "none"
    BY DEF NoOrder
  <1>1. CASE Quiet
    <2>1. \A st \in Strategies : used'[st] = Spent(st)'
      BY <1>1, QuietSpent DEF ExactInv
    <2>2. ASSUME order'.side = "buy"
          PROVE  10 * order'.cost <= Available(balance, regime, used,
                                               Classified[order'.sym])
      BY <1>1, <2>2, VisitBuySmall DEF Quiet, OrderKept, ExactInv
    <2> QED
      BY <1>1, <2>1, <2>2 DEF ExactInv, Quiet, SmallCost
  <1>2. CASE StartSession
    <2>1. /\ regime' # "crisis" /\ balance' \in Balances
          /\ Loaded /\ order' = order /\ order = NoOrder
      BY <1>2, Loading DEF StartSession, BookInv, PhaseInv
    <2>2. \A st \in Strategies : used'[st] = Spent(st)'
      BY <1>2, StartSpent
    <2>3. \A s \in Symbols :
            /\ positions'[s].cost \in {overnight[s].cost, 0}
            /\ overnight'[s].cost \in {overnight[s].cost, 0}
      BY <2>1 DEF Loaded, EmptyBook, NoPosition
    <2> QED
      BY <1>0, <2>1, <2>2, <2>3, NothingIsSmall, ClassifiedAssumption
      DEF ExactInv, SmallCost, ClassifiedAssumption
  <1>3. CASE RestoreBudget
    <2>1. PICK a \in Held :
              /\ Counted' = Counted \cup {a} /\ a \notin Counted
              /\ used' = Allocate(balance, regime, used, Classified[a],
                                  positions[a].cost)
              /\ UNCHANGED positions
      BY <1>3, RestoreSpent
    <2>2. /\ a \in Symbols /\ Classified[a] \in Strategies
          /\ positions[a].cost \in Nat /\ positions'[a] = positions[a]
      BY <2>1, PositionTyped, ClassifiedAssumption
      DEF Held, HeldIn, TypeOK, ClassifiedAssumption
    <2>3. /\ UNCHANGED <<regime, balance, overnight, order, phase>>
          /\ phase = "restore" /\ order = NoOrder
      BY <1>3 DEF RestoreBudget, sessionVars, worldVars, BookInv, PhaseInv
    <2>4. /\ positions[a].cost
               <= Available(balance, regime, used, Classified[a])
          /\ Available(balance, regime, used, Classified[a]) \in Nat
      BY <2>1, <2>2, <2>3, RestoreFits, AvailableTyped DEF TypeOK
    <2>5. ASSUME NEW st \in Strategies PROVE used'[st] = Spent(st)'
      <3>1. Spent(st)' = IF st = Classified[a]
                         THEN positions[a].cost + Spent(st) ELSE Spent(st)
        BY <2>1, <2>2, OneMoreSpent
      <3>2. used'[st] = IF st = Classified[a]
                        THEN positions[a].cost + used[st] ELSE used[st]
        BY <2>1, <2>2, <2>4, AllocateFits DEF TypeOK
      <3> QED
        BY <3>1, <3>2 DEF ExactInv
    <2> QED
      BY <1>0, <2>1, <2>3, <2>5 DEF ExactInv, SmallCost
  <1>4. CASE ExecuteBuy
    <2>1. /\ order.sym \in Symbols /\ Classified[order.sym] \in Strategies
          /\ order.cost \in Nat
          /\ used' = Allocate(balance, regime, used, Classified[order.sym],
                              order.cost)
          /\ \A st \in Strategies :
                Spent(st)' = IF st = Classified[order.sym]
                             THEN order.cost + Spent(st) ELSE Spent(st)
      BY <1>4, BuySpent
    <2>2. /\ UNCHANGED <<regime, balance, overnight, phase>>
          /\ order' = NoOrder /\ order.side = "buy" /\ phase # "off"
          /\ positions' = [positions EXCEPT ![order.sym] =
                               [cost |-> order.cost, today |-> TRUE]]
      BY <1>4, BoughtIsHeld DEF ExecuteBuy, sessionVars, worldVars
    <2>3. /\ order.cost <= Available(balance, regime, used,
                                     Classified[order.sym])
          /\ SmallCost(Classified[order.sym], order.cost)
          /\ Available(balance, regime, used, Classified[order.sym]) \in Nat
      BY <2>1, <2>2, EntryIsSmall, AvailableTyped DEF ExactInv, TypeOK
    <2>4. ASSUME NEW st \in Strategies PROVE used'[st] = Spent(st)'
      <3>1. used'[st] = IF st = Classified[order.sym]
                        THEN order.cost + used[st] ELSE used[st]
        BY <2>1, <2>3, AllocateFits DEF TypeOK
      <3> QED
        BY <2>1, <3>1 DEF ExactInv
    <2>5. \A s \in Symbols : positions'[s].cost =
              IF s = order.sym THEN order.cost ELSE positions[s].cost
      BY <2>1, <2>2 DEF TypeOK
    <2> QED
      BY <1>0, <2>2, <2>3, <2>4, <2>5 DEF ExactInv, SmallCost
  <1>5. CASE ExecuteSell
    <2>1. /\ order.sym \in Symbols /\ Classified[order.sym] \in Strategies
          /\ order.cost \in Nat
          /\ used' = Release(used, Classified[order.sym], order.cost)
          /\ \A st \in Strategies :
                /\ st = Classified[order.sym] =>
                       Spent(st) = order.cost + Spent(st)'
                /\ st # Classified[order.sym] => Spent(st)' = Spent(st)
      BY <1>5, SellSpent
    <2>2. /\ UNCHANGED <<regime, balance, overnight, phase>>
          /\ order' = NoOrder
          /\ positions' = [positions EXCEPT ![order.sym] = NoPosition]
      BY <1>5 DEF ExecuteSell, sessionVars, worldVars
    <2>3. ASSUME NEW st \in Strategies PROVE used'[st] = Spent(st)'
      <3>1. used'[st] = IF st # Classified[order.sym] THEN used[st]
                        ELSE IF used[st] > order.cost
                        THEN used[st] - order.cost ELSE 0
        BY <2>1, ReleaseTakes DEF TypeOK
      <3>2. /\ used[st] = Spent(st) /\ used[st] \in Nat
            /\ Spent(st)' \in Nat
        BY SpentTypedNext DEF ExactInv, TypeOK
      <3> QED
        BY <2>1, <3>1, <3>2
    <2>4. \A s \in Symbols : positions'[s].cost =
              IF s = order.sym THEN 0 ELSE positions[s].cost
      BY <2>1, <2>2 DEF TypeOK, NoPosition
    <2> QED
      BY <1>0, <2>1, <2>2, <2>3, <2>4, NothingIsSmall DEF ExactInv, SmallCost
  <1>6. CASE Gone
    <2>1. \A st \in Strategies : used'[st] = Spent(st)'
      BY <1>6, GoneSpent
    <2>2. /\ regime' = "neutral" /\ phase' = "off" /\ order' = NoOrder
          /\ positions' = EmptyBook
      BY <1>6 DEF Gone, ProcessGone
    <2>3. \A s \in Symbols : /\ positions'[s].cost = 0
                             /\ \/ overnight'[s].cost = overnight[s].cost
                                \/ overnight'[s].cost = positions[s].cost
      BY <1>6, <2>2
      DEF Gone, SaveOvernightPositions, EmptyBook, NoPosition, TypeOK, Position
    <2> QED
      BY <1>0, <2>1, <2>2, <2>3, NothingIsSmall, ClassifiedAssumption
      DEF ExactInv, SmallCost, ClassifiedAssumption
  <1> QED
    BY <1>1, <1>2, <1>3, <1>4, <1>5, <1>6, MoneyShapes

\* With one account balance, every bucket counts exactly what the open
\* positions of its strategy cost once the restore is over, whatever regimes
\* the days had: neither execute_buy nor the restore is ever refused its
\* allocation, although both drop the answer.
THEOREM BucketsExact ==
    SameBalance /\ RestoresFit => (Spec => []BudgetExact)
  <1> SUFFICES ASSUME SameBalance, RestoresFit PROVE Spec => []BudgetExact
    OBVIOUS
  <1>1. MoneyAll /\ Init => ExactInv
    <2> SUFFICES ASSUME MoneyAll, Init PROVE ExactInv
      OBVIOUS
    <2>1. \A s \in Symbols : positions[s].cost = 0 /\ overnight[s].cost = 0
      BY DEF Init, EmptyBook, NoPosition
    <2>2. \A st \in Strategies : used[st] = 0 /\ Spent(st) = 0
      <3>1. Counted = {}
        BY EmptyBookHoldsNothing DEF Init, Counted, Held
      <3>2. \A st \in Strategies : OfStrategy(Counted, st) = {}
        BY <3>1 DEF OfStrategy
      <3> QED
        BY <3>2, SumOfNothing DEF Spent, Init, NoUse
    <2> QED
      BY <2>1, <2>2, NothingIsSmall, ClassifiedAssumption
      DEF Init, ExactInv, SmallCost, ClassifiedAssumption, NoOrder
  <1>2. MoneyAll /\ ExactInv /\ [Next]_vars => ExactInv'
    BY ExactStep
  <1>3. ExactInv => BudgetExact
    BY DEF ExactInv, BudgetExact, Spent, Exposure, Costs, Counted
  <1> QED
    BY <1>1, <1>2, <1>3, MoneyInvariant, PTL DEF Spec
=============================================================================
