--------------------------- MODULE OrderServiceMC ---------------------------
(***************************************************************************)
(* Instances of OrderService for TLC: one user and a limit that one order  *)
(* of the strategy leaves room in, though not for another one, and a       *)
(* default limit that an order without a strategy finds used up by it.     *)
(***************************************************************************)
EXTENDS OrderService, TLC

MCLimit == [swing |-> 3]

AskFor(strategy, side, amount, origin) ==
    [user |-> "kim", side |-> side, strategy |-> strategy, amount |-> amount,
     origin |-> origin]
Ask(side, amount, origin) == AskFor("swing", side, amount, origin)

BuysAndSells == {Ask("buy", 1, "api"), Ask("sell", 1, "api")}
MixedBuys    == {Ask("buy", 2, "api"), Ask("buy", 2, "ai"), Ask("buy", 3, "api"),
                 AskFor(NoStrategy, "buy", 1, "api")}

OrderSymmetry == Permutations(Orders)
=============================================================================
