----------------------------- MODULE ResearchMC -----------------------------
(***************************************************************************)
(* An instance of Research for TLC.  Windows of two and three days, pages  *)
(* of three.  Three stocks: one that rises on growing volume, one that     *)
(* falls (and has a row that cannot be read), and one that hardly moves;   *)
(* or one that is newly listed and one that moves by 2.5% a day.  The      *)
(* minute bars rise, jump and fall by more than a stop.                    *)
(***************************************************************************)
EXTENDS Research

Day(o, h, l, c, v) == [open |-> o, high |-> h, low |-> l, close |-> c, volume |-> v]
Rising  == <<Day(860, 900, 850, 890, 20), Day(890, 930, 880, 920, 20),
             Day(920, 960, 910, 950, 20), Day(950, 990, 940, 980, 20),
             Day(980, 1015, 970, 1010, 50)>>
Falling == <<Day(1300, 1300, 1250, 1250, 20), Day(1250, 1250, 1180, 1190, 20),
             Unreadable, Day(1110, 1110, 1030, 1040, 24)>>
Quiet   == <<Day(1000, 1001, 999, 1000, 20), Day(1000, 1001, 999, 1000, 20),
             Day(1000, 1001, 999, 1000, 20), Day(1000, 1001, 998, 999, 20)>>
Calm    == <<Day(1050, 1080, 1040, 1050, 20), Day(1000, 1012, 987, 1000, 20),
             Day(1000, 1012, 988, 1000, 20), Day(1000, 1013, 988, 1000, 24)>>
NewlyListed == <<Day(1000, 1050, 990, 1040, 40)>>

MCQuotes == {[price |-> 990, volume |-> 40, dayOpen |-> 985],
             [price |-> 950, volume |-> 30, dayOpen |-> 940],
             [price |-> 700, volume |-> 30, dayOpen |-> 720]}
MCSymbols == <<"hynix", "kakao", "samsung">>
MCMarkets == {[hynix |-> Rising, kakao |-> Falling, samsung |-> Quiet],
              [hynix |-> NewlyListed, kakao |-> Falling, samsung |-> Calm]}
MCPages   == [screen |-> 2, rescreen |-> 1, trader |-> 2, backtest |-> 2]
MCDefault == <<"samsung">>
MCThreshold   == <<75, 100>>
MCVolumeRatio == <<8, 10>>

Bar(o, h, c, v) == [open |-> o, high |-> h, close |-> c, volume |-> v]
MCBars == {Bar(1000, 1012, 1010, 30), Bar(1010, 1032, 1028, 20), Bar(1010, 1011, 1002, 10)}

Plain == [entryStart |-> 905, entryEnd |-> 1300, forceClose |-> 1515, bullish |-> TRUE,
          volume |-> <<3, 2>>, high52 |-> <<0, 1>>, change |-> 3, rsiMin |-> None,
          stop |-> 5, takeProfit |-> 15, trailing |-> None, atrStop |-> None,
          atrGain |-> None, maxPositions |-> 2]
Trailing == [Plain EXCEPT !.trailing = 10, !.bullish = FALSE, !.change = 0,
                          !.volume = <<1, 2>>]
Dynamic  == [Plain EXCEPT !.atrStop = 2, !.rsiMin = 50, !.high52 = <<95, 100>>,
                          !.maxPositions = 1]
MCGrids  == [day_trade |-> <<Plain, Dynamic>>, swing |-> <<Trailing, Dynamic>>]

\* The defaults; multipliers at the other ends of what the tuner may propose,
\* and a session that ends before noon; and times and thresholds that overlap.
Defaults == [atrStop |-> <<6, 5>>, atrGain |-> <<3, 1>>, minAtr |-> <<7, 2000>>,
             minStop |-> <<1, 200>>, maxLoss |-> <<1, 50>>, forceClose |-> 1515,
             oversold |-> <<40, 1>>, bandWidth |-> <<3, 2>>, volume |-> <<4, 5>>,
             stop |-> <<3, 200>>, gain |-> <<3, 200>>]
Tuned    == [Defaults EXCEPT !.atrStop = <<3, 1>>, !.atrGain = <<2, 1>>,
                             !.maxLoss = <<1, 10>>, !.minAtr = <<0, 1>>, !.forceClose = 1100,
                             !.oversold = <<60, 1>>, !.bandWidth = <<1, 2>>]
Overlapping == [Tuned EXCEPT !.forceClose = 930, !.oversold = <<101, 1>>, !.minStop = <<0, 1>>]
MCArgs == {Defaults, Tuned, Overlapping}

\* Months that rise on growing volume, the same for a stock that is listed
\* for three or four of them, months that fall, and a rise after falling.
Months == <<Day(100, 110, 95, 105, 10), Day(105, 125, 100, 120, 10),
            Day(120, 150, 115, 140, 10), Day(140, 170, 135, 160, 12),
            Day(160, 200, 155, 190, 40)>>
Falls  == <<Day(200, 205, 180, 185, 10), Day(185, 190, 160, 165, 10),
            Day(165, 170, 140, 150, 12), Day(150, 155, 120, 130, 12),
            Day(130, 140, 100, 105, 30)>>
MCHistories == {Months, SubSeq(Months, 3, 5), SubSeq(Months, 2, 5), Falls,
                SubSeq(Falls, 1, 4) \o <<Day(130, 260, 130, 250, 40)>>}
MCPool == <<"hynix", "kakao">>
=============================================================================
