--------------------------- MODULE StrategyBudget ---------------------------
(***************************************************************************)
(* The per-strategy money buckets of src/ai/signal/position_sizer.py       *)
(* (StrategyBudget) and the capital split of each market regime            *)
(* (src/trading/market_regime.py).  Everything here is a pure operator on  *)
(* a balance, a regime and the amount already used; LiveTrader keeps the   *)
(* `used' amounts in its state.                                            *)
(***************************************************************************)
EXTENDS Integers

Strategies == {"momentum", "mean_reversion"}

Regimes == {"aggressive", "neutral", "defensive", "crisis"}

\* Per cent of the total balance given to each strategy (pool_a, pool_b);
\* what is left is the cash buffer.
RegimeAllocation ==
    [aggressive |-> [momentum |-> 60, mean_reversion |-> 30],
     neutral    |-> [momentum |-> 40, mean_reversion |-> 40],
     defensive  |-> [momentum |-> 20, mean_reversion |-> 50],
     crisis     |-> [momentum |-> 0,  mean_reversion |-> 0]]

BudgetFor(balance, regime, st) ==
    (balance * RegimeAllocation[regime][st]) \div 100

\* max(0, budget - used), as the code writes it.
Available(balance, regime, used, st) ==
    LET left == BudgetFor(balance, regime, st) - used[st]
    IN  IF left > 0 THEN left ELSE 0

\* allocate returns False and changes nothing when the amount does not fit;
\* both callers drop the result.
Allocate(balance, regime, used, st, amount) ==
    IF amount > Available(balance, regime, used, st)
    THEN used
    ELSE [used EXCEPT ![st] = @ + amount]

ReleaseUnclamped(used, st, amount) == [used EXCEPT ![st] = @ - amount]
ReleaseNotToZero(used, st, amount) ==
    [used EXCEPT ![st] = IF @ > amount THEN @ - amount ELSE @]

Release(used, st, amount) ==
    [used EXCEPT ![st] = IF @ > amount THEN @ - amount ELSE 0]

AffordableWholeBudget(balance, regime, used, st, amount, scale) ==
    /\ amount > 0
    /\ scale * amount <= BudgetFor(balance, regime, st)

\* calc_dynamic_position_size: an order costs at most a tenth of what is
\* available, halved (scale) after two losses in a row on the symbol.  The
\* ATR term only makes it smaller, down to nothing.
Affordable(balance, regime, used, st, amount, scale) ==
    /\ amount > 0
    /\ 10 * scale * amount <= Available(balance, regime, used, st)
=============================================================================
