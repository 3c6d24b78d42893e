---------------------------- MODULE LiveTraderMC ----------------------------
(***************************************************************************)
(* Instances of LiveTrader for TLC.  Two stocks are enough for what        *)
(* concerns one position next to another; three where a bucket must hold   *)
(* two positions beside an intraday one; four, three of them of one        *)
(* strategy and two of one sector, for limits that compare positions.  An  *)
(* order of 4 out of a balance of 100 is a tenth of the neutral bucket, an *)
(* order of 2 is one the halved size still admits after two losses, and an *)
(* order of 25 is one the sizing rule must never let through.              *)
(***************************************************************************)
EXTENDS LiveTrader

MCSymbols    == {"hynix", "samsung", "kakao", "naver"}
MCClassified == [hynix |-> "mean_reversion", samsung |-> "mean_reversion",
                 kakao |-> "mean_reversion", naver |-> "momentum"]
MCSector     == [hynix |-> "chips", samsung |-> "chips", kakao |-> "other",
                 naver |-> "other"]
WholeList    == {MCSymbols}

Trio           == {"hynix", "kakao", "samsung"}
TrioClassified == [hynix |-> "momentum", kakao |-> "mean_reversion",
                   samsung |-> "mean_reversion"]
TrioSector     == [hynix |-> "chips", kakao |-> "other", samsung |-> "makers"]
TrioWatchlists == {Trio, {"kakao"}}

Pair           == {"hynix", "kakao"}
PairClassified == [hynix |-> "momentum", kakao |-> "mean_reversion"]
PairSector     == [hynix |-> "chips", kakao |-> "other"]
PairWatchlists == {Pair, {"hynix"}}

TwoAndOne      == [mean_reversion |-> 2, momentum |-> 1]
TwoPerStrategy == [st \in Strategies |-> 2]
=============================================================================
