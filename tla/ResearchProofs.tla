--------------------------- MODULE ResearchProofs ---------------------------
(***************************************************************************)
(* What Research promises holds for every list of stocks, every listing    *)
(* and every parameter.                                                    *)
(***************************************************************************)
EXTENDS Research, DataLemmas, SequenceTheorems, TLAPS

(***************************************************************************)
(* Windows, the larger of two numbers and the sum of a list.               *)
(***************************************************************************)

LEMMA MaxOfTwo ==
    ASSUME NEW a \in Int, NEW b \in Int
    PROVE  /\ Max({a, b}) = IF a >= b THEN a ELSE b
           /\ Min({a, b}) = IF a <= b THEN a ELSE b
BY DEF Max, Min

LEMMA UptoIs ==
    ASSUME NEW S, NEW s \in Seq(S), NEW n \in Nat
    PROVE  /\ Upto(s, n) \in Seq(S)
           /\ Len(Upto(s, n)) = IF n <= Len(s) THEN n ELSE Len(s)
           /\ \A i \in 1..Len(Upto(s, n)) : i \in 1..Len(s) /\ Upto(s, n)[i] = s[i]
           /\ n >= Len(s) => Upto(s, n) = s
<1> DEFINE L == Len(s)
           m == Min({n, L})
<1>1. L \in Nat /\ \A i \in 1..L : s[i] \in S
  OBVIOUS
<1>2. SubSeq(s, 1, L) = s
  BY SubSeqFull
<1> HIDE DEF L
<1>3. m = (IF n <= L THEN n ELSE L)
  <2>1. n \in Int /\ L \in Int
    BY <1>1
  <2> QED
    BY <2>1, MaxOfTwo
<1> HIDE DEF m
<1>4. m \in Nat /\ m <= L
  BY <1>1, <1>3
<1>5. /\ SubSeq(s, 1, m) \in Seq(S)
      /\ Len(SubSeq(s, 1, m)) = IF 1 <= m THEN m - 1 + 1 ELSE 0
      /\ \A i \in 1..(m - 1 + 1) : SubSeq(s, 1, m)[i] = s[1 + i - 1]
  BY <1>1, <1>4, SubSeqProperties
<1>6. Upto(s, n) = SubSeq(s, 1, m)
  BY DEF Upto, m, L
<1> DEFINE u == SubSeq(s, 1, m)
<1> HIDE DEF u
<1>7. /\ u \in Seq(S) /\ Len(u) = m
      /\ \A i \in 1..m : i \in 1..L /\ u[i] = s[i]
  BY <1>1, <1>4, <1>5 DEF u
<1>8. n >= L => m = L
  BY <1>1, <1>3
<1> QED
  BY <1>1, <1>2, <1>3, <1>6, <1>7, <1>8 DEF u, L

LEMMA RecentIs ==
    ASSUME NEW S, NEW s \in Seq(S), NEW n \in Nat
    PROVE  /\ Recent(s, n) \in Seq(S)
           /\ Len(Recent(s, n)) = IF n <= Len(s) THEN n ELSE Len(s)
           /\ \A i \in 1..Len(Recent(s, n)) :
                 /\ i + (Len(s) - Len(Recent(s, n))) \in 1..Len(s)
                 /\ Recent(s, n)[i] = s[i + (Len(s) - Len(Recent(s, n)))]
<1> DEFINE L == Len(s)
           m == Max({1, L - n + 1})
<1>1. L \in Nat /\ \A i \in 1..L : s[i] \in S
  OBVIOUS
<1> HIDE DEF L
<1>3. m = IF n <= L THEN L - n + 1 ELSE 1
  BY <1>1, MaxOfTwo
<1> HIDE DEF m
<1>4. m \in 1..(L + 1)
  BY <1>1, <1>3
<1>5. /\ SubSeq(s, m, L) \in Seq(S)
      /\ Len(SubSeq(s, m, L)) = IF m <= L THEN L - m + 1 ELSE 0
      /\ \A i \in 1..(L - m + 1) : SubSeq(s, m, L)[i] = s[m + i - 1]
  BY <1>1, <1>4, SubSeqProperties
<1>6. Recent(s, n) = SubSeq(s, m, L)
  BY DEF Recent, m, L
<1> DEFINE u == SubSeq(s, m, L)
<1> HIDE DEF u
<1>7. Len(u) = L - m + 1
  BY <1>1, <1>4, <1>5 DEF u
<1>8. Len(u) = IF n <= L THEN n ELSE L
  BY <1>1, <1>3, <1>7
<1>9. ASSUME NEW i \in 1..Len(u)
      PROVE  i + (L - Len(u)) \in 1..L /\ u[i] = s[i + (L - Len(u))]
  <2>1. /\ i \in 1..(L - m + 1) /\ i + (L - Len(u)) = m + i - 1
        /\ m + i - 1 \in 1..L
    BY <1>1, <1>4, <1>7
  <2> QED
    BY <1>5, <2>1 DEF u
<1> QED
  BY <1>5, <1>6, <1>8, <1>9 DEF u, L

LEMMA SumOfNumbers ==
    ASSUME NEW s \in Seq(Nat)
    PROVE  /\ SumOf(s) \in Nat
           /\ \A c \in Nat : (\A i \in 1..Len(s) : s[i] <= c) => SumOf(s) <= Len(s) * c
<1>1. DOMAIN s = 1..Len(s) /\ Len(s) \in Nat /\ \A i \in 1..Len(s) : s[i] \in Nat
  OBVIOUS
<1>2. IsFiniteSet(1..Len(s)) /\ Cardinality(1..Len(s)) = Len(s)
  BY <1>1, FS_Interval
<1> QED
  BY <1>1, <1>2, SumTyped, SumAtMost DEF SumOf

-----------------------------------------------------------------------------
(***************************************************************************)
(* The trend index: the recursive function under a smoothing exists, and   *)
(* its values are numbers.                                                 *)
(***************************************************************************)

Next1(moves, k, last) ==
    LET den == last[2] * AdxPeriod
    IN  <<last[1] * (AdxPeriod - 1) + moves[k] * den, den>>
IsSmoothing(g, moves, n) ==
    g = [k \in AdxPeriod..n |->
           IF k = AdxPeriod THEN <<SumOf(Upto(moves, AdxPeriod)), 1>>
           ELSE Next1(moves, k, g[k - 1])]

LEMMA SmoothedIsChosen ==
    ASSUME NEW moves
    PROVE  Smoothed(moves) = CHOOSE g : IsSmoothing(g, moves, Len(moves))
BY DEF Smoothed, IsSmoothing, Next1

LEMMA SmoothingExists ==
    ASSUME NEW moves
    PROVE  \A n \in Nat : \E g : IsSmoothing(g, moves, AdxPeriod + n)
<1> DEFINE Q == {n \in Nat : \E g : IsSmoothing(g, moves, AdxPeriod + n)}
           First == <<SumOf(Upto(moves, AdxPeriod)), 1>>
<1>0. AdxPeriod \in Nat
  BY StrategiesAssumption DEF StrategiesAssumption
<1>1. 0 \in Q
  <2> DEFINE g == [k \in AdxPeriod..(AdxPeriod + 0) |-> First]
  <2>1. \A k \in AdxPeriod..(AdxPeriod + 0) : k = AdxPeriod
    BY <1>0
  <2>2. IsSmoothing(g, moves, AdxPeriod + 0)
    BY <2>1 DEF IsSmoothing
  <2> QED
    BY <2>2
<1>2. ASSUME NEW n \in Nat, n \in Q PROVE n + 1 \in Q
  <2>1. PICK g : IsSmoothing(g, moves, AdxPeriod + n)
    BY <1>2
  <2> DEFINE D == AdxPeriod..(AdxPeriod + (n + 1))
             h == [k \in D |-> IF k = AdxPeriod THEN First
                               ELSE Next1(moves, k, g[k - 1])]
  <2>2. \A k \in AdxPeriod..(AdxPeriod + n) :
           k \in D /\ g[k] = IF k = AdxPeriod THEN First ELSE Next1(moves, k, g[k - 1])
    BY <1>0, <2>1 DEF IsSmoothing
  <2>3. \A k \in D : h[k] = IF k = AdxPeriod THEN First ELSE Next1(moves, k, g[k - 1])
    OBVIOUS
  <2>4. \A k \in AdxPeriod..(AdxPeriod + n) : h[k] = g[k]
    BY <2>2, <2>3
  <2>5. \A k \in D : k # AdxPeriod => k - 1 \in AdxPeriod..(AdxPeriod + n)
    BY <1>0
  <2>6. \A k \in D : k # AdxPeriod => Next1(moves, k, g[k - 1]) = Next1(moves, k, h[k - 1])
    <3> HIDE DEF h, D
    <3> QED
      BY <2>4, <2>5
  <2>7. IsSmoothing(h, moves, AdxPeriod + (n + 1))
    BY <2>6 DEF IsSmoothing
  <2> QED
    BY <2>7
<1> HIDE DEF Q
<1>3. \A n \in Nat : n \in Q
  BY <1>1, <1>2, NumbersByInduction
<1> QED
  BY <1>3 DEF Q

LEMMA SmoothedTyped ==
    ASSUME NEW moves \in Seq(Nat)
    PROVE  \A k \in AdxPeriod..Len(moves) : Smoothed(moves)[k] \in Nat \X Nat
<1> DEFINE P == AdxPeriod
           g == Smoothed(moves)
           Q == {n \in Nat : P + n <= Len(moves) => g[P + n] \in Nat \X Nat}
<1>0. P \in Nat \ {0} /\ Len(moves) \in Nat /\ \A i \in 1..Len(moves) : moves[i] \in Nat
  BY StrategiesAssumption DEF StrategiesAssumption
<1> SUFFICES ASSUME P <= Len(moves)
             PROVE  \A k \in P..Len(moves) : g[k] \in Nat \X Nat
  BY <1>0
<1>1. IsSmoothing(g, moves, Len(moves))
  <2> DEFINE n == Len(moves) - P
  <2>1. n \in Nat /\ P + n = Len(moves)
    BY <1>0
  <2>2. \E f : IsSmoothing(f, moves, Len(moves))
    BY <2>1, SmoothingExists
  <2> QED
    BY <2>2, SmoothedIsChosen
<1> HIDE DEF g
<1>2. \A k \in P..Len(moves) :
         g[k] = IF k = P THEN <<SumOf(Upto(moves, P)), 1>> ELSE Next1(moves, k, g[k - 1])
  BY <1>1 DEF IsSmoothing
<1>3. 0 \in Q
  <2>1. Upto(moves, P) \in Seq(Nat)
    BY <1>0, UptoIs
  <2>2. SumOf(Upto(moves, P)) \in Nat
    BY <2>1, SumOfNumbers
  <2>3. P \in P..Len(moves) /\ P + 0 = P
    BY <1>0
  <2> QED
    BY <1>2, <2>2, <2>3
<1>4. ASSUME NEW n \in Nat, n \in Q PROVE n + 1 \in Q
  <2> SUFFICES ASSUME P + (n + 1) <= Len(moves)
               PROVE  g[P + (n + 1)] \in Nat \X Nat
    OBVIOUS
  <2> DEFINE k == P + (n + 1)
             last == g[k - 1]
  <2>1. k \in P..Len(moves) /\ k # P /\ k - 1 = P + n /\ k \in 1..Len(moves)
    BY <1>0
  <2>2. last \in Nat \X Nat
    BY <1>0, <1>4, <2>1
  <2>3. g[k] = Next1(moves, k, last)
    BY <1>2, <2>1
  <2>4. last[1] \in Nat /\ last[2] \in Nat /\ moves[k] \in Nat /\ P - 1 \in Nat
    BY <1>0, <2>1, <2>2
  <2> HIDE DEF k, last
  <2>5. Next1(moves, k, last) \in Nat \X Nat
    <3>1. \A a, b \in Nat : a * b \in Nat /\ a + b \in Nat
      OBVIOUS
    <3>2. last[2] * P \in Nat /\ last[1] * (P - 1) \in Nat
      BY <1>0, <2>4, <3>1
    <3>3. moves[k] * (last[2] * P) \in Nat
      BY <2>4, <3>1, <3>2
    <3> QED
      BY <3>1, <3>2, <3>3 DEF Next1
  <2> QED
    BY <2>3, <2>5 DEF k
<1> HIDE DEF Q
<1>5. \A n \in Nat : n \in Q
  BY <1>3, <1>4, NumbersByInduction
<1>6. ASSUME NEW k \in P..Len(moves) PROVE g[k] \in Nat \X Nat
  <2>1. k - P \in Nat /\ P + (k - P) = k /\ k <= Len(moves)
    BY <1>0
  <2> QED
    BY <1>5, <2>1 DEF Q
<1> QED
  BY <1>6

LEMMA DayTyped ==
    ASSUME NEW h \in Seq(DailyPrice)
    PROVE  \A i \in 1..Len(h) :
              /\ h[i].open \in Nat /\ h[i].high \in Nat /\ h[i].low \in Nat
              /\ h[i].close \in Nat /\ h[i].volume \in Nat
<1>1. \A d \in DailyPrice : /\ d.open \in Nat /\ d.high \in Nat /\ d.low \in Nat
                            /\ d.close \in Nat /\ d.volume \in Nat
  BY DEF DailyPrice
<1>2. \A i \in 1..Len(h) : h[i] \in DailyPrice
  OBVIOUS
<1> QED
  BY <1>1, <1>2

LEMMA Quotient ==
    ASSUME NEW a \in Nat, NEW b \in Nat \ {0}
    PROVE  a \div b \in Nat /\ (a \div b) * b <= a /\ a < (a \div b) * b + b
OBVIOUS

LEMMA DxTyped ==
    ASSUME NEW h \in Seq(DailyPrice)
    PROVE  /\ Dx(h) \in Seq(Nat)
           /\ Len(Dx(h)) = IF Len(h) - 1 >= AdxPeriod
                           THEN Len(h) - 1 - AdxPeriod ELSE 0
<1> DEFINE up(i)    == h[i+1].high - h[i].high
           down(i)  == h[i].low - h[i+1].low
           larger(a, b) == IF a > 0 /\ a > b THEN a ELSE 0
           moves    == Len(h) - 1
           risesOf  == [i \in 1..moves |-> larger(up(i), down(i))]
           fallsOf  == [i \in 1..moves |-> larger(down(i), up(i))]
           of(r, f) == IF r + f = 0 THEN 0 ELSE (100000 * Magnitude(r - f)) \div (r + f)
           rises    == Smoothed(risesOf)
           falls    == Smoothed(fallsOf)
           dx       == [i \in 1..(moves - AdxPeriod) |->
                          of(rises[i + AdxPeriod][1], falls[i + AdxPeriod][1])]
<1>0. /\ AdxPeriod \in Nat \ {0} /\ Len(h) \in Nat
      /\ \A i \in 1..Len(h) : h[i].high \in Nat /\ h[i].low \in Nat
  BY StrategiesAssumption, DayTyped DEF StrategiesAssumption
<1>1. Dx(h) = dx
  BY DEF Dx
<1>2. CASE moves - AdxPeriod <= 0
  <2>1. 1..(moves - AdxPeriod) = {}
    BY <1>0, <1>2
  <2> HIDE DEF of, rises, falls
  <2>2. dx = <<>>
    BY <2>1
  <2> HIDE DEF dx
  <2> QED
    BY <1>0, <1>1, <1>2, <2>2
<1>3. CASE moves - AdxPeriod > 0
  <2>1. \A i \in 1..moves : up(i) \in Int /\ down(i) \in Int
    BY <1>0
  <2>2. risesOf \in Seq(Nat) /\ fallsOf \in Seq(Nat) /\ Len(risesOf) = moves /\ Len(fallsOf) = moves
    <3> HIDE DEF up, down
    <3>1. \A i \in 1..moves : /\ larger(up(i), down(i)) \in Nat
                              /\ larger(down(i), up(i)) \in Nat
      BY <2>1
    <3>2. moves \in Nat
      BY <1>0, <1>3
    <3> HIDE DEF larger, moves
    <3> QED
      BY <3>1, <3>2
  <2> HIDE DEF risesOf, fallsOf
  <2>3. \A i \in 1..(moves - AdxPeriod) : i + AdxPeriod \in AdxPeriod..moves
    BY <1>0
  <2>4. \A k \in AdxPeriod..moves : rises[k] \in Nat \X Nat /\ falls[k] \in Nat \X Nat
    BY <2>2, SmoothedTyped
  <2> HIDE DEF rises, falls
  <2>5. ASSUME NEW r \in Nat, NEW f \in Nat PROVE of(r, f) \in Nat
    <3>1. CASE r + f = 0
      BY <3>1
    <3>2. CASE r + f # 0
      <4>1. r + f \in Nat \ {0} /\ 100000 * Magnitude(r - f) \in Nat
        BY <3>2 DEF Magnitude
      <4>2. (100000 * Magnitude(r - f)) \div (r + f) \in Nat
        BY <4>1, Quotient
      <4> QED
        BY <3>2, <4>2
    <3> QED
      BY <3>1, <3>2
  <2> HIDE DEF of
  <2>6. \A i \in 1..(moves - AdxPeriod) :
           of(rises[i + AdxPeriod][1], falls[i + AdxPeriod][1]) \in Nat
    BY <2>3, <2>4, <2>5
  <2>7. moves - AdxPeriod \in Nat
    BY <1>0, <1>3
  <2>8. dx \in Seq(Nat) /\ Len(dx) = moves - AdxPeriod
    BY <2>6, <2>7
  <2> QED
    BY <1>0, <1>1, <1>3, <2>8
<1> QED
  BY <1>0, <1>2, <1>3

LEMMA TimesOrder ==
    /\ \A x, y \in Int, z \in Nat : x <= y => x * z <= y * z
    /\ \A x, y \in Int, z \in Nat \ {0} : x * z <= y * z => x <= y
<1>1. ASSUME NEW x \in Int, NEW y \in Int, NEW z \in Nat, x <= y
      PROVE  x * z <= y * z
  <2>1. y - x \in Nat /\ (y - x) * z \in Nat
    BY <1>1
  <2>2. (y - x) * z = y * z - x * z
    OBVIOUS
  <2> QED
    BY <2>1, <2>2
<1>2. ASSUME NEW x \in Int, NEW y \in Int, NEW z \in Nat \ {0}, x * z <= y * z
      PROVE  x <= y
  <2> SUFFICES ASSUME y < x PROVE FALSE
    OBVIOUS
  <2>1. x - y - 1 \in Nat /\ (x - y - 1) * z \in Nat
    OBVIOUS
  <2>2. (x - y - 1) * z = x * z - y * z - z
    OBVIOUS
  <2> QED
    BY <1>2, <2>1, <2>2
<1> QED
  BY <1>1, <1>2

NextDx(dx, k, last) == (last * (AdxPeriod - 1)) \div AdxPeriod + dx[k]
IsDxSmoothing(g, dx, n) ==
    g = [k \in AdxPeriod..n |->
           IF k = AdxPeriod THEN SumOf(Upto(dx, AdxPeriod)) ELSE NextDx(dx, k, g[k - 1])]

LEMMA DxSmoothingExists ==
    ASSUME NEW dx
    PROVE  \A n \in Nat : \E g : IsDxSmoothing(g, dx, AdxPeriod + n)
<1> DEFINE Q == {n \in Nat : \E g : IsDxSmoothing(g, dx, AdxPeriod + n)}
           First == SumOf(Upto(dx, AdxPeriod))
<1>0. AdxPeriod \in Nat
  BY StrategiesAssumption DEF StrategiesAssumption
<1>1. 0 \in Q
  <2> DEFINE g == [k \in AdxPeriod..(AdxPeriod + 0) |-> First]
  <2>1. \A k \in AdxPeriod..(AdxPeriod + 0) : k = AdxPeriod
    BY <1>0
  <2>2. IsDxSmoothing(g, dx, AdxPeriod + 0)
    BY <2>1 DEF IsDxSmoothing
  <2> QED
    BY <2>2
<1>2. ASSUME NEW n \in Nat, n \in Q PROVE n + 1 \in Q
  <2>1. PICK g : IsDxSmoothing(g, dx, AdxPeriod + n)
    BY <1>2
  <2> DEFINE D == AdxPeriod..(AdxPeriod + (n + 1))
             h == [k \in D |-> IF k = AdxPeriod THEN First ELSE NextDx(dx, k, g[k - 1])]
  <2>2. \A k \in AdxPeriod..(AdxPeriod + n) :
           k \in D /\ g[k] = IF k = AdxPeriod THEN First ELSE NextDx(dx, k, g[k - 1])
    BY <1>0, <2>1 DEF IsDxSmoothing
  <2>3. \A k \in D : h[k] = IF k = AdxPeriod THEN First ELSE NextDx(dx, k, g[k - 1])
    OBVIOUS
  <2>4. \A k \in AdxPeriod..(AdxPeriod + n) : h[k] = g[k]
    BY <2>2, <2>3
  <2>5. \A k \in D : k # AdxPeriod => k - 1 \in AdxPeriod..(AdxPeriod + n)
    BY <1>0
  <2>6. \A k \in D : k # AdxPeriod => NextDx(dx, k, g[k - 1]) = NextDx(dx, k, h[k - 1])
    <3> HIDE DEF h, D
    <3> QED
      BY <2>4, <2>5
  <2>7. IsDxSmoothing(h, dx, AdxPeriod + (n + 1))
    BY <2>6 DEF IsDxSmoothing
  <2> QED
    BY <2>7
<1> HIDE DEF Q
<1>3. \A n \in Nat : n \in Q
  BY <1>1, <1>2, NumbersByInduction
<1> QED
  BY <1>3 DEF Q

LEMMA SmoothedDxTyped ==
    ASSUME NEW dx \in Seq(Nat)
    PROVE  SmoothedDx(dx) \in Nat
<1> DEFINE P == AdxPeriod
           top == Max({P, Len(dx)})
           g == CHOOSE f : IsDxSmoothing(f, dx, top)
           Q == {n \in Nat : P + n <= top => g[P + n] \in Nat}
<1>0. /\ P \in Nat \ {0} /\ Len(dx) \in Nat /\ \A i \in 1..Len(dx) : dx[i] \in Nat
      /\ top \in Nat /\ top >= P /\ (top > P => top = Len(dx))
  <2>1. P \in Nat \ {0} /\ Len(dx) \in Nat /\ \A i \in 1..Len(dx) : dx[i] \in Nat
    BY StrategiesAssumption DEF StrategiesAssumption
  <2>2. top = IF P >= Len(dx) THEN P ELSE Len(dx)
    BY <2>1, MaxOfTwo
  <2> QED
    BY <2>1, <2>2
<1>a. SmoothedDx(dx) = g[top]
  BY DEF SmoothedDx, IsDxSmoothing, NextDx
<1> HIDE DEF top
<1>1. IsDxSmoothing(g, dx, top)
  <2> DEFINE n == top - P
  <2>1. n \in Nat /\ P + n = top
    BY <1>0
  <2>2. \E f : IsDxSmoothing(f, dx, top)
    BY <2>1, DxSmoothingExists
  <2> QED
    BY <2>2
<1> HIDE DEF g
<1>2. \A k \in P..top :
         g[k] = IF k = P THEN SumOf(Upto(dx, P)) ELSE NextDx(dx, k, g[k - 1])
  BY <1>1 DEF IsDxSmoothing
<1>3. 0 \in Q
  <2>1. Upto(dx, P) \in Seq(Nat)
    BY <1>0, UptoIs
  <2>2. SumOf(Upto(dx, P)) \in Nat
    BY <2>1, SumOfNumbers
  <2>3. P \in P..top /\ P + 0 = P
    BY <1>0
  <2> QED
    BY <1>2, <2>2, <2>3
<1>4. ASSUME NEW n \in Nat, n \in Q PROVE n + 1 \in Q
  <2> SUFFICES ASSUME P + (n + 1) <= top PROVE g[P + (n + 1)] \in Nat
    OBVIOUS
  <2> DEFINE k == P + (n + 1)
             last == g[k - 1]
  <2>1. k \in P..top /\ k # P /\ k - 1 = P + n /\ k \in 1..Len(dx)
    BY <1>0
  <2>2. last \in Nat
    BY <1>0, <1>4, <2>1
  <2>3. g[k] = NextDx(dx, k, last)
    BY <1>2, <2>1
  <2>4. dx[k] \in Nat /\ P - 1 \in Nat
    BY <1>0, <2>1
  <2> HIDE DEF k, last
  <2>5. NextDx(dx, k, last) \in Nat
    <3>1. \A a, b \in Nat : a * b \in Nat /\ a + b \in Nat
      OBVIOUS
    <3>2. last * (P - 1) \in Nat
      BY <2>2, <2>4, <3>1
    <3>3. (last * (P - 1)) \div P \in Nat
      BY <1>0, <3>2, Quotient
    <3> QED
      BY <2>4, <3>1, <3>3 DEF NextDx
  <2> QED
    BY <2>3, <2>5 DEF k
<1> HIDE DEF Q
<1>5. \A n \in Nat : n \in Q
  BY <1>3, <1>4, NumbersByInduction
<1>6. top - P \in Nat /\ P + (top - P) = top /\ top <= top
  BY <1>0
<1>7. g[top] \in Nat
  BY <1>5, <1>6 DEF Q
<1> QED
  BY <1>a, <1>7

\* What is more than a whole number of hundredths after rounding is more than
\* it before: 25.00 is such a number.
LEMMA RoundedAbove ==
    ASSUME NEW s \in Nat, NEW d \in Nat \ {0}, NEW n \in Nat, Rounded(s, 10 * d) > n
    PROVE  s >= (10 * n + 5) * d
<1> DEFINE a == 2 * s + 10 * d
           b == 2 * (10 * d)
           q == a \div b
<1>1. a \in Nat /\ b \in Nat \ {0}
  OBVIOUS
<1>2. q \in Nat /\ q >= n + 1
  <2>1. q = Rounded(s, 10 * d)
    BY DEF Rounded
  <2>2. q \in Nat
    BY <1>1, Quotient
  <2> QED
    BY <2>1, <2>2
<1>3. q * b <= a
  BY <1>1, Quotient
<1> HIDE DEF q
<1>4. (n + 1) * b <= q * b
  BY <1>1, <1>2, TimesOrder
<1>5. (n + 1) * b = 20 * (n * d) + 20 * d /\ (10 * n + 5) * d = 10 * (n * d) + 5 * d
      /\ n * d \in Nat /\ q * b \in Nat
  BY <1>2
<1> DEFINE m == n * d
           c == q * b
<1>6. m \in Nat /\ c \in Nat /\ 20 * m + 20 * d <= c /\ c <= 2 * s + 10 * d
  BY <1>3, <1>4, <1>5
<1> HIDE DEF m, c
<1>7. s >= 10 * m + 5 * d
  BY <1>6
<1> QED
  BY <1>5, <1>7 DEF m

\* A signal to buy rests on months enough for each of its measures, and its
\* trend is no stronger than the mean of what there is.
LEMMA BuyIsMeasured ==
    ASSUME NEW h \in Seq(DailyPrice), MonthlySignal(h) = "buy"
    PROVE  /\ Len(h) >= MaMonths + SlopeMonths
           /\ Len(h) > VolumeMonths
           /\ IF Len(Dx(h)) < AdxPeriod THEN SumOf(Dx(h)) > 25000 * Len(Dx(h))
              ELSE Adx(h) > 25000
<1> DEFINE dx == Dx(h)
<1>0. /\ AdxPeriod \in Nat \ {0} /\ Len(h) \in Nat
      /\ MaMonths \in Nat /\ SlopeMonths \in Nat /\ VolumeMonths \in Nat
  BY StrategiesAssumption, MonthlyAssumption DEF StrategiesAssumption, MonthlyAssumption
<1>1. /\ SlopeUp(Closes(h)) /\ VolumeRise(h) >= 15000
      /\ MonthlyAdx(h) > 2500
  BY DEF MonthlySignal
<1>2. Len(h) >= MaMonths + SlopeMonths
  <2>1. Len(Closes(h)) = Len(h)
    BY DEF Closes
  <2> QED
    BY <1>1, <2>1 DEF SlopeUp
<1>3. Len(h) > VolumeMonths
  <2> SUFFICES ASSUME ~(Len(h) > VolumeMonths) PROVE FALSE
    OBVIOUS
  <2>1. VolumeRise(h) = 10000
    BY DEF VolumeRise
  <2> QED
    BY <1>1, <2>1
<1>4. dx \in Seq(Nat) /\ Len(dx) \in Nat /\ dx # <<>> /\ Len(h) >= AdxPeriod + 1
      /\ Len(dx) = Len(h) - 1 - AdxPeriod
  <2>1. ~(Len(h) < AdxPeriod + 1 \/ dx = <<>>)
    BY <1>1 DEF MonthlyAdx
  <2>2. dx \in Seq(Nat) /\ Len(dx) = IF Len(h) - 1 >= AdxPeriod
                           THEN Len(h) - 1 - AdxPeriod ELSE 0
    BY DxTyped
  <2> QED
    BY <1>0, <2>1, <2>2
<1>5. SmoothedDx(dx) \in Nat /\ SmoothedDx(dx) >= 25005 * AdxPeriod
  <2>1. SmoothedDx(dx) \in Nat
    BY <1>4, SmoothedDxTyped
  <2>2. Rounded(SmoothedDx(dx), 10 * AdxPeriod) > 2500
    BY <1>1, <1>4 DEF MonthlyAdx
  <2> HIDE DEF dx
  <2>3. SmoothedDx(dx) >= (10 * 2500 + 5) * AdxPeriod
    BY <1>0, <2>1, <2>2, RoundedAbove
  <2> QED
    BY <2>1, <2>3
<1>6. ASSUME Len(dx) < AdxPeriod PROVE SumOf(dx) > 25000 * Len(dx)
  <2> HIDE DEF dx
  <2>1. Max({AdxPeriod, Len(dx)}) = AdxPeriod
    <3>1. AdxPeriod \in Int /\ Len(dx) \in Int
      BY <1>0, <1>4
    <3> QED
      BY <1>6, <3>1, MaxOfTwo
  <2>2. Upto(dx, AdxPeriod) = dx
    BY <1>0, <1>4, <1>6, UptoIs
  <2>3. SmoothedDx(dx) = SumOf(dx)
    <3> DEFINE P == AdxPeriod
               Only(g) == g = [k \in P..P |-> IF k = P THEN SumOf(dx)
                               ELSE (g[k-1] * (P - 1)) \div P + dx[k]]
               f == [k \in P..P |-> SumOf(dx)]
    <3>1. SmoothedDx(dx) = (CHOOSE g : Only(g))[P]
      BY <2>1, <2>2 DEF SmoothedDx
    <3>2. \A k \in P..P : k = P
      BY <1>0
    <3>3. Only(f)
      BY <3>2
    <3>4. \A g : Only(g) => g[P] = SumOf(dx)
      BY <1>0
    <3> HIDE DEF Only, f
    <3> QED
      BY <3>1, <3>3, <3>4
  <2>4. 25000 * Len(dx) < 25005 * AdxPeriod
    BY <1>0, <1>4, <1>6
  <2> QED
    BY <1>0, <1>4, <1>5, <2>3, <2>4 DEF dx
<1>7. ASSUME ~(Len(dx) < AdxPeriod) PROVE Adx(h) > 25000
  <2>1. ~(Len(h) < 2 * AdxPeriod \/ Len(dx) < AdxPeriod)
    BY <1>0, <1>4, <1>7
  <2>2. Adx(h) = SmoothedDx(dx) \div AdxPeriod
    BY <2>1 DEF Adx
  <2> DEFINE s == SmoothedDx(dx)
             n == s \div AdxPeriod
  <2>3. s \in Nat /\ s >= 25005 * AdxPeriod
    BY <1>5
  <2> HIDE DEF s
  <2>4. n \in Nat /\ s < n * AdxPeriod + AdxPeriod
    BY <1>0, <2>3, Quotient
  <2>5. n >= 25005
    <3> SUFFICES ASSUME n <= 25004 PROVE FALSE
      BY <2>4
    <3> HIDE DEF n
    <3>1. n * AdxPeriod <= 25004 * AdxPeriod
      BY <1>0, <2>4, TimesOrder
    <3>2. n * AdxPeriod \in Nat
      BY <1>0, <2>4
    <3> QED
      BY <1>0, <2>3, <2>4, <3>1, <3>2
  <2>6. Adx(h) = n
    BY <2>2 DEF s
  <2> HIDE DEF n
  <2> QED
    BY <2>4, <2>5, <2>6
<1> QED
  BY <1>2, <1>3, <1>6, <1>7

\* The months are answers of KRX, one stock after the other; the signals are
\* those of the months, and none is there before all months are.
MonthsInv ==
    /\ \E S : months \in Seq(S \X Histories)
    /\ \A i \in DOMAIN signals :
          i \in DOMAIN months /\ signals[i][2] = MonthlySignal(months[i][2])
    /\ pool # <<>> \/ months = <<>> => DOMAIN signals = {}

LEMMA MonthsInvInit == Init => MonthsInv
BY DEF Init, MonthlyInit, MonthsInv

LEMMA MonthsInvStep == MonthsInv /\ [Next]_vars => MonthsInv'
<1> SUFFICES ASSUME MonthsInv, [Next]_vars PROVE MonthsInv'
  OBVIOUS
<1> USE DEF MonthsInv
<1>1. CASE UNCHANGED monthVars
  BY <1>1 DEF monthVars
<1>2. CASE LoadUniverse
  BY <1>2 DEF LoadUniverse, MonthlyIdle
<1>3. CASE FetchMonths
  <2>1. DOMAIN signals = {} /\ UNCHANGED signals
    BY <1>3 DEF FetchMonths
  <2>2. \E S : months' \in Seq(S \X Histories)
    <3>1. PICK S : months \in Seq(S \X Histories)
      OBVIOUS
    <3>2. CASE UNCHANGED months
      BY <3>1, <3>2
    <3>3. CASE \E h \in Histories : months' = Append(months, <<Head(pool), h>>)
      <4>1. PICK h \in Histories : months' = Append(months, <<Head(pool), h>>)
        BY <3>3
      <4> DEFINE T == S \cup {Head(pool)}
                 e == <<Head(pool), h>>
      <4>2. S \X Histories \subseteq T \X Histories /\ e \in T \X Histories
        OBVIOUS
      <4> HIDE DEF T, e
      <4>3. months \in Seq(T \X Histories)
        BY <3>1, <4>2
      <4>4. Append(months, e) \in Seq(T \X Histories)
        BY <4>2, <4>3
      <4> QED
        BY <4>1, <4>4 DEF e
    <3> QED
      BY <1>3, <3>2, <3>3 DEF FetchMonths
  <2> QED
    BY <2>1, <2>2
<1>4. CASE GenerateSignals
  BY <1>4 DEF GenerateSignals
<1>5. CASE MonthlyEnds
  <2>1. months' = <<>> /\ signals' = <<>>
    BY <1>5 DEF MonthlyEnds
  <2>2. months' \in Seq({} \X Histories) /\ DOMAIN signals' = {}
    BY <2>1
  <2> QED
    BY <2>1, <2>2
<1> QED
  BY <1>1, <1>2, <1>3, <1>4, <1>5 DEF Next, MonthlyStep, vars

\* A monthly buy rests on what was measured, never on the default of a measure
\* that a short history lacks.
THEOREM MonthlyBuysMeasured == Spec => []BuysWhatItMeasured
<1>1. MonthsInv => BuysWhatItMeasured
  <2> SUFFICES ASSUME MonthsInv, NEW i \in DOMAIN signals, signals[i][2] = "buy"
               PROVE  LET history == months[i][2]
                          dx      == Dx(history)
                      IN  /\ Len(history) >= MaMonths + SlopeMonths
                          /\ Len(history) > VolumeMonths
                          /\ IF Len(dx) < AdxPeriod THEN SumOf(dx) > 25000 * Len(dx)
                             ELSE Adx(history) > 25000
    BY DEF BuysWhatItMeasured
  <2>1. PICK S : months \in Seq(S \X Histories)
    BY DEF MonthsInv
  <2>2. i \in DOMAIN months /\ MonthlySignal(months[i][2]) = "buy"
    BY DEF MonthsInv
  <2>3. months[i] \in S \X Histories
    BY <2>1, <2>2
  <2>4. months[i][2] \in Seq(DailyPrice)
    BY <2>3, ResearchAssumption DEF ResearchAssumption
  <2> QED
    BY <2>2, <2>4, BuyIsMeasured
<1> QED
  BY <1>1, MonthsInvInit, MonthsInvStep, PTL DEF Spec

-----------------------------------------------------------------------------
(***************************************************************************)
(* Fractions are ordered, and so is a list of judged stocks.               *)
(***************************************************************************)

Fractions == Int \X (Nat \ {0})

LEMMA FractionsOrdered ==
    ASSUME NEW p \in Fractions, NEW q \in Fractions
    PROVE  /\ Less(p, q) <=> ~ AtMost(q, p)
           /\ AtMost(p, q) \/ AtMost(q, p)
           /\ \A r \in Fractions : AtMost(p, q) /\ AtMost(q, r) => AtMost(p, r)
<1>0. \A f \in Fractions : f[1] \in Int /\ f[2] \in Nat \ {0}
  BY DEF Fractions
<1>1. ASSUME NEW r \in Fractions, AtMost(p, q), AtMost(q, r) PROVE AtMost(p, r)
  <2> DEFINE a == p[1]  b == p[2]  c == q[1]  d == q[2]  e == r[1]  f == r[2]
  <2>1. /\ a \in Int /\ c \in Int /\ e \in Int
        /\ b \in Nat \ {0} /\ d \in Nat \ {0} /\ f \in Nat \ {0}
    BY <1>0
  <2>2. a * d <= c * b /\ c * f <= e * d
    BY <1>1 DEF AtMost
  <2> HIDE DEF a, b, c, d, e, f
  <2>3. (a * d) * f <= (c * b) * f /\ (c * f) * b <= (e * d) * b
    <3>1. a * d \in Int /\ c * b \in Int /\ c * f \in Int /\ e * d \in Int
      BY <2>1
    <3> QED
      BY <2>1, <2>2, <3>1, TimesOrder
  <2>4. /\ (a * d) * f = (a * f) * d /\ (c * b) * f = (c * f) * b
        /\ (e * d) * b = (e * b) * d
        /\ a * f \in Int /\ e * b \in Int
    BY <2>1
  <2>5. (a * f) * d \in Int /\ (e * b) * d \in Int /\ (c * f) * b \in Int
    BY <2>1
  <2>6. (a * f) * d <= (e * b) * d
    <3> DEFINE x == (a * f) * d  y == (c * f) * b  z == (e * b) * d
    <3>1. x \in Int /\ y \in Int /\ z \in Int /\ x <= y /\ y <= z
      BY <2>3, <2>4, <2>5
    <3> HIDE DEF x, y, z
    <3>2. x <= z
      BY <3>1
    <3> QED
      BY <3>2 DEF x, z
  <2>7. a * f <= e * b
    BY <2>1, <2>4, <2>6, TimesOrder
  <2> QED
    BY <2>7 DEF AtMost, a, b, e, f
<1>2. \A f, g \in Fractions : f[1] * g[2] \in Int
  BY <1>0
<1>3. (Less(p, q) <=> ~ AtMost(q, p)) /\ (AtMost(p, q) \/ AtMost(q, p))
  BY <1>2 DEF Less, AtMost
<1> QED
  BY <1>1, <1>3

\* What the ranking needs to know of a judgement.
Comparable(e) == e.bonus \in Nat /\ e.ratio \in Nat

\* The order of the sort keys (bonus_score, price_ratio), descending.
NotWorse(d, e) == \/ d.bonus > e.bonus
                  \/ d.bonus = e.bonus /\ d.ratio >= e.ratio
BestFirst(list) == \A i, j \in 1..Len(list) : i < j => NotWorse(list[i], list[j])

LEMMA RankedIs ==
    ASSUME NEW G, \A e \in G : Comparable(e), NEW list \in Seq(G)
    PROVE  /\ Ranked(list) \in Seq(G) /\ Len(Ranked(list)) = Len(list)
           /\ \E order \in [1..Len(list) -> 1..Len(list)] :
                 /\ \A i, j \in 1..Len(list) : order[i] = order[j] => i = j
                 /\ \A i \in 1..Len(list) : \E k \in 1..Len(list) : order[k] = i
                 /\ \A i \in 1..Len(list) : Ranked(list)[i] = list[order[i]]
           /\ BestFirst(Ranked(list))
<1> DEFINE n == Len(list)
           AtLeast(i, j) == list[i].ratio >= list[j].ratio
           Before(i, j) ==
             \/ list[i].bonus > list[j].bonus
             \/ /\ list[i].bonus = list[j].bonus
                /\ \/ list[i].ratio > list[j].ratio
                   \/ list[i].ratio = list[j].ratio /\ i < j
           before == {p \in (1..n) \X (1..n) : Before(p[1], p[2])}
           order  == Sorted(n, before)
<1>0. n \in Nat /\ \A i \in 1..n : list[i] \in G
  OBVIOUS
<1>1. \A i \in 1..n : list[i].bonus \in Nat /\ list[i].ratio \in Nat
  BY <1>0 DEF Comparable
<1>2. Ranked(list) = [i \in 1..n |-> list[order[i]]]
  BY DEF Ranked
<1>3. \A i, j \in 1..n : /\ AtLeast(i, j) \/ AtLeast(j, i)
                         /\ \A k \in 1..n : AtLeast(i, j) /\ AtLeast(j, k) => AtLeast(i, k)
  BY <1>1
<1>4. \A i, j \in 1..n : Before(i, j) <=>
         \/ list[i].bonus > list[j].bonus
         \/ /\ list[i].bonus = list[j].bonus
            /\ ~ AtLeast(j, i) \/ (AtLeast(i, j) /\ i < j)
  BY <1>1
<1>5. \A i, j \in 1..n : <<i, j>> \in before <=> Before(i, j)
  OBVIOUS
<1> HIDE DEF AtLeast, Before
<1>6. /\ \A i \in 1..n : ~ Before(i, i)
      /\ \A i, j \in 1..n : i # j => Before(i, j) \/ Before(j, i)
  BY <1>0, <1>1, <1>3, <1>4, SMTT(20)
<1>7. \A i, j, k \in 1..n : Before(i, j) /\ Before(j, k) => Before(i, k)
  <2>1. TAKE i, j, k \in 1..n
  <2>2. HAVE Before(i, j) /\ Before(j, k)
  <2>3. {list[i].bonus, list[j].bonus, list[k].bonus} \subseteq Nat
    BY <1>1
  <2>4. CASE list[i].bonus > list[k].bonus
    BY <1>4, <2>4
  <2>5. CASE ~ (list[i].bonus > list[k].bonus)
    <3>1. list[i].bonus = list[j].bonus /\ list[j].bonus = list[k].bonus
      BY <1>4, <2>2, <2>3, <2>5
    <3>2. /\ ~ AtLeast(j, i) \/ (AtLeast(i, j) /\ i < j)
          /\ ~ AtLeast(k, j) \/ (AtLeast(j, k) /\ j < k)
      BY <1>4, <2>2, <2>3, <3>1
    <3>3. ~ AtLeast(k, i) \/ (AtLeast(i, k) /\ i < k)
      BY <1>3, <3>2
    <3> QED
      BY <1>4, <3>1, <3>3
  <2> QED
    BY <2>4, <2>5
<1>8. before \in SUBSET ((1..n) \X (1..n))
  OBVIOUS
<1> HIDE DEF before
<1>9. /\ order \in [1..n -> 1..n]
      /\ \A k, l \in 1..n : order[k] = order[l] => k = l
      /\ \A i \in 1..n : \E k \in 1..n : order[k] = i
      /\ \A k, l \in 1..n : k < l => <<order[k], order[l]>> \in before
  <2> HIDE DEF n
  <2> QED
    BY <1>0, <1>5, <1>6, <1>7, <1>8, SortedIs
<1> HIDE DEF order
<1>10. \A i \in 1..n : list[order[i]] \in G
  BY <1>0, <1>9
<1>11. Ranked(list) \in Seq(G) /\ Len(Ranked(list)) = n
  <2> DEFINE r == [i \in 1..n |-> list[order[i]]]
  <2>1. r \in Seq(G) /\ Len(r) = n
    BY <1>0, <1>10
  <2> QED
    BY <1>2, <2>1
<1>12. ASSUME NEW k \in 1..n, NEW l \in 1..n, k < l
       PROVE  NotWorse(Ranked(list)[k], Ranked(list)[l])
  <2> DEFINE i == order[k]
             j == order[l]
  <2>1. i \in 1..n /\ j \in 1..n /\ Before(i, j)
    BY <1>5, <1>9, <1>12
  <2>2. Ranked(list)[k] = list[i] /\ Ranked(list)[l] = list[j]
    BY <1>2
  <2> HIDE DEF i, j
  <2>3. \/ list[i].bonus > list[j].bonus
        \/ list[i].bonus = list[j].bonus /\ AtLeast(i, j)
    BY <1>3, <1>4, <2>1
  <2>4. NotWorse(list[i], list[j])
    BY <2>3 DEF NotWorse, AtLeast
  <2> QED
    BY <2>2, <2>4
<1>13. BestFirst(Ranked(list))
  BY <1>11, <1>12 DEF BestFirst
<1> QED
  BY <1>2, <1>9, <1>11, <1>13

SymbolsDiffer(list) ==
    \A i, j \in 1..Len(list) : list[i].symbol = list[j].symbol => i = j
Distinct(list) == \A i, j \in DOMAIN list : list[i] = list[j] => i = j

MembersAt(list, positions) == {list[i] : i \in positions \cap (1..Len(list))}
IsRankingOf(r, some) ==
    /\ SymbolsDiffer(r) /\ BestFirst(r)
    /\ \A i \in 1..Len(r) : r[i] \in some
    /\ \A e \in some : \E k \in 1..Len(r) : r[k] = e

\* A part of a list in another order.
LEMMA RankedPart ==
    ASSUME NEW G, \A e \in G : Comparable(e),
           NEW list \in Seq(G), SymbolsDiffer(list), NEW positions
    PROVE  /\ Ranked(Picked(list, positions)) \in Seq(G)
           /\ IsRankingOf(Ranked(Picked(list, positions)), MembersAt(list, positions))
<1> DEFINE p    == Picked(list, positions)
           r    == Ranked(p)
           some == {list[i] : i \in positions \cap (1..Len(list))}
<1>0. Len(list) \in Nat /\ DOMAIN list = 1..Len(list) /\ \A i \in 1..Len(list) : list[i] \in G
  OBVIOUS
<1>1. p \in Seq(some)
  <2>1. \A i \in 1..Len(list) : i \in positions => list[i] \in some
    OBVIOUS
  <2> HIDE DEF some
  <2> QED
    BY <1>0, <2>1, PickedFrom
<1>2. some \subseteq G
  BY <1>0
<1>3. SymbolsDiffer(p)
  <2>1. \A i, j \in DOMAIN p : p[i] = p[j] => i = j
    <3>1. \A i, j \in 1..Len(list) : list[i] = list[j] => i = j
      BY DEF SymbolsDiffer
    <3> QED
      BY <1>0, <3>1, PickedDistinct
  <2>2. \A i \in 1..Len(p) : p[i] \in some /\ i \in DOMAIN p
    BY <1>1
  <2>3. ASSUME NEW d \in some, NEW e \in some, d.symbol = e.symbol PROVE d = e
    BY <2>3 DEF SymbolsDiffer
  <2> HIDE DEF p, some
  <2> QED
    BY <2>1, <2>2, <2>3 DEF SymbolsDiffer
<1> HIDE DEF p, some
<1>4. p \in Seq(G)
  BY <1>1, <1>2
<1>5. PICK order \in [1..Len(p) -> 1..Len(p)] :
         /\ \A i, j \in 1..Len(p) : order[i] = order[j] => i = j
         /\ \A i \in 1..Len(p) : \E k \in 1..Len(p) : order[k] = i
         /\ \A i \in 1..Len(p) : r[i] = p[order[i]]
  BY <1>4, RankedIs
<1>6. r \in Seq(G) /\ Len(r) = Len(p) /\ BestFirst(r)
  BY <1>4, RankedIs
<1> HIDE DEF r
<1>7. SymbolsDiffer(r)
  <2> SUFFICES ASSUME NEW i \in 1..Len(p), NEW j \in 1..Len(p), r[i].symbol = r[j].symbol
               PROVE  i = j
    BY <1>6 DEF SymbolsDiffer
  <2>1. order[i] \in 1..Len(p) /\ order[j] \in 1..Len(p)
    OBVIOUS
  <2>2. p[order[i]].symbol = p[order[j]].symbol
    BY <1>5
  <2>3. order[i] = order[j]
    BY <1>3, <2>1, <2>2 DEF SymbolsDiffer
  <2> QED
    BY <1>5, <2>3
<1>8. \A i \in 1..Len(r) : r[i] \in some
  <2>1. \A i \in 1..Len(p) : p[i] \in some
    BY <1>1
  <2>2. \A i \in 1..Len(p) : order[i] \in 1..Len(p)
    OBVIOUS
  <2>3. \A i \in 1..Len(p) : r[i] = p[order[i]]
    BY <1>5
  <2> QED
    BY <1>6, <2>1, <2>2, <2>3
<1>9. ASSUME NEW e \in some PROVE \E k \in 1..Len(r) : r[k] = e
  <2>1. PICK i \in DOMAIN p : p[i] = e
    <3>1. PICK i \in 1..Len(list) : i \in positions /\ list[i] = e
      BY DEF some
    <3> QED
      BY <1>0, <3>1, PickedAll DEF p
  <2>2. i \in 1..Len(p)
    BY <1>4
  <2>3. PICK k \in 1..Len(p) : order[k] = i
    BY <1>5, <2>2
  <2>4. r[k] = e /\ k \in 1..Len(r)
    BY <1>5, <1>6, <2>1, <2>3
  <2> QED
    BY <2>4
<1> QED
  BY <1>6, <1>7, <1>8, <1>9 DEF r, p, some, IsRankingOf, MembersAt

\* What a screening writes is the first part of all that were judged in the
\* order of preference: who passed, then who did not, each the best first.
Prefers(d, e) == IF d.passed THEN e.passed => NotWorse(d, e)
                             ELSE ~ e.passed /\ NotWorse(d, e)

FirstOf(list, whole, m) ==
    /\ SymbolsDiffer(whole)
    /\ \A k \in 1..Len(whole) : \E i \in 1..Len(list) : whole[k] = list[i]
    /\ \A i \in 1..Len(list) : \E k \in 1..Len(whole) : whole[k] = list[i]
    /\ \A k, l \in 1..Len(whole) : k < l => Prefers(whole[k], whole[l])
    /\ \A k \in 1..Len(whole) : whole[k].passed => k <= m
    /\ m < Len(whole) => m >= MinStocks
    /\ \A k \in 1..m : whole[k].passed \/ m <= MinStocks
    /\ Picks(list) = [k \in 1..m |-> whole[k].symbol]

LEMMA PicksParts ==
    ASSUME NEW G, \A e \in G : Comparable(e), NEW list \in Seq(G), SymbolsDiffer(list)
    PROVE  \E whole \in Seq(G) : \E m \in 0..Len(whole) : FirstOf(list, whole, m)
<1> DEFINE good   == {i \in DOMAIN list : list[i].passed}
           bad    == DOMAIN list \ good
           passed == Ranked(Picked(list, good))
           others == Ranked(Picked(list, bad))
           fill   == Min({Len(others), Max({0, MinStocks - Len(passed)})})
           rest   == SubSeq(others, 1, fill)
           all    == passed \o rest
<1>1. Picks(list) = [i \in DOMAIN all |-> all[i].symbol]
  BY DEF Picks
<1>2. /\ good \cap bad = {}
      /\ \A i \in 1..Len(list) : /\ (i \in good) <=> list[i].passed
                                 /\ (i \in bad) <=> (i \notin good)
  OBVIOUS
<1> HIDE DEF good, bad
<1>3. /\ passed \in Seq(G) /\ SymbolsDiffer(passed) /\ BestFirst(passed)
      /\ \A i \in 1..Len(passed) : \E k \in good \cap (1..Len(list)) : passed[i] = list[k]
      /\ \A k \in good \cap (1..Len(list)) : \E i \in 1..Len(passed) : passed[i] = list[k]
  <2>1. passed \in Seq(G) /\ IsRankingOf(passed, MembersAt(list, good))
    BY RankedPart
  <2> HIDE DEF passed
  <2>2. \A k \in good \cap (1..Len(list)) : list[k] \in MembersAt(list, good)
    BY DEF MembersAt
  <2>3. \A e \in MembersAt(list, good) : \E k \in good \cap (1..Len(list)) : e = list[k]
    BY DEF MembersAt
  <2> QED
    BY <2>1, <2>2, <2>3 DEF IsRankingOf
<1>4. /\ others \in Seq(G) /\ SymbolsDiffer(others) /\ BestFirst(others)
      /\ \A i \in 1..Len(others) : \E k \in bad \cap (1..Len(list)) : others[i] = list[k]
      /\ \A k \in bad \cap (1..Len(list)) : \E i \in 1..Len(others) : others[i] = list[k]
  <2>1. others \in Seq(G) /\ IsRankingOf(others, MembersAt(list, bad))
    BY RankedPart
  <2> HIDE DEF others
  <2>2. \A k \in bad \cap (1..Len(list)) : list[k] \in MembersAt(list, bad)
    BY DEF MembersAt
  <2>3. \A e \in MembersAt(list, bad) : \E k \in bad \cap (1..Len(list)) : e = list[k]
    BY DEF MembersAt
  <2> QED
    BY <2>1, <2>2, <2>3 DEF IsRankingOf
<1> HIDE DEF passed, others
<1>5. /\ fill \in 0..Len(others)
      /\ fill < Len(others) => Len(passed) + fill >= MinStocks
      /\ fill > 0 => Len(passed) + fill <= MinStocks
  <2> DEFINE a == Len(others)
             b == MinStocks - Len(passed)
             c == Max({0, b})
  <2>1. a \in Nat /\ b \in Int
    BY <1>3, <1>4, ScreeningAssumption DEF ScreeningAssumption
  <2> HIDE DEF a, b
  <2>2. c = IF 0 >= b THEN 0 ELSE b
    BY <2>1, MaxOfTwo
  <2> HIDE DEF c
  <2>3. c \in Nat /\ a \in Int /\ c \in Int
    BY <2>1, <2>2
  <2>4. Min({a, c}) = IF a <= c THEN a ELSE c
    BY <2>3, MaxOfTwo
  <2>5. /\ Min({a, c}) \in 0..a
        /\ Min({a, c}) < a => Min({a, c}) >= b
        /\ Min({a, c}) > 0 => Min({a, c}) <= b
    BY <2>1, <2>2, <2>3, <2>4
  <2>6. /\ fill \in 0..Len(others)
        /\ fill < Len(others) => fill >= MinStocks - Len(passed)
        /\ fill > 0 => fill <= MinStocks - Len(passed)
    BY <2>5 DEF a, b, c
  <2> HIDE DEF fill
  <2> QED
    BY <1>3, <1>4, <2>6, ScreeningAssumption DEF ScreeningAssumption
<1> HIDE DEF fill
<1>6. /\ rest \in Seq(G) /\ Len(rest) = fill
      /\ \A i \in 1..fill : rest[i] = others[i] /\ i \in 1..Len(others)
  <2>1. \A i \in 1..fill : others[i] \in G /\ i \in 1..Len(others)
    BY <1>4, <1>5
  <2>2. fill \in Int /\ 1 \in Int
    BY <1>4, <1>5
  <2>3. /\ rest \in Seq(G)
        /\ Len(rest) = IF 1 <= fill THEN fill - 1 + 1 ELSE 0
        /\ \A i \in 1..(fill - 1 + 1) : rest[i] = others[1 + i - 1]
    BY <2>1, <2>2, SubSeqProperties
  <2> HIDE DEF rest
  <2> QED
    BY <1>4, <1>5, <2>1, <2>3
<1> HIDE DEF rest
<1>7. /\ all \in Seq(G) /\ Len(all) = Len(passed) + fill
      /\ \A i \in 1..Len(passed) : all[i] = passed[i]
      /\ \A i \in (Len(passed) + 1)..Len(all) :
            i - Len(passed) \in 1..fill /\ all[i] = rest[i - Len(passed)]
  <2>1. fill \in Nat /\ Len(passed) \in Nat
    BY <1>3, <1>4, <1>5
  <2>2. /\ all \in Seq(G) /\ Len(all) = Len(passed) + Len(rest)
        /\ \A i \in 1..(Len(passed) + Len(rest)) :
              all[i] = IF i <= Len(passed) THEN passed[i] ELSE rest[i - Len(passed)]
    <3>1. passed \in Seq(G) /\ rest \in Seq(G)
      BY <1>3, <1>6
    <3> QED
      BY <3>1, ConcatProperties
  <2> HIDE DEF all
  <2> QED
    BY <1>6, <2>1, <2>2
<1> HIDE DEF all
<1> DEFINE whole == passed \o others
           lp    == Len(passed)
           m     == lp + fill
<1>8. /\ lp \in Nat /\ Len(others) \in Nat /\ fill \in Nat /\ m \in 0..(lp + Len(others))
      /\ m >= lp
  BY <1>3, <1>4, <1>5
<1>9. /\ whole \in Seq(G) /\ Len(whole) = lp + Len(others)
      /\ \A k \in 1..(lp + Len(others)) :
            whole[k] = IF k <= lp THEN passed[k] ELSE others[k - lp]
  BY <1>3, <1>4, ConcatProperties
<1> HIDE DEF whole
<1>10. \A k \in 1..Len(whole) :
          \/ k <= lp /\ k \in 1..lp /\ whole[k] = passed[k]
          \/ k > lp /\ k - lp \in 1..Len(others) /\ whole[k] = others[k - lp]
  BY <1>8, <1>9
<1>11. Picks(list) = [k \in 1..m |-> whole[k].symbol]
  <2>1. DOMAIN all = 1..m
    BY <1>7
  <2>2. \A k \in 1..m : all[k] = whole[k]
    <3> SUFFICES ASSUME NEW k \in 1..m PROVE all[k] = whole[k]
      OBVIOUS
    <3>1. k \in Int /\ k \in 1..Len(whole)
      BY <1>8, <1>9
    <3>2. CASE k <= lp
      BY <1>7, <1>8, <1>10, <3>1, <3>2
    <3>3. CASE k > lp
      <4>1. k \in (lp + 1)..Len(all)
        BY <1>7, <1>8, <3>1, <3>3
      <4>2. all[k] = others[k - lp]
        BY <1>6, <1>7, <4>1
      <4> QED
        BY <1>8, <1>10, <3>1, <3>3, <4>2
    <3> QED
      BY <1>8, <3>1, <3>2, <3>3
  <2> QED
    BY <1>1, <2>1, <2>2
<1> HIDE DEF lp, m
<1>12. /\ \A k \in 1..lp : \E i \in 1..Len(list) : passed[k] = list[i] /\ list[i].passed
       /\ \A k \in 1..Len(others) :
             \E i \in 1..Len(list) : others[k] = list[i] /\ ~ list[i].passed
  BY <1>2, <1>3, <1>4 DEF lp
<1>13. \A k \in 1..Len(whole) : /\ \E i \in 1..Len(list) : whole[k] = list[i]
                                /\ whole[k].passed <=> (k <= lp)
  <2> SUFFICES ASSUME NEW k \in 1..Len(whole)
               PROVE  /\ \E i \in 1..Len(list) : whole[k] = list[i]
                      /\ whole[k].passed <=> (k <= lp)
    OBVIOUS
  <2>0. k \in Int /\ lp \in Int
    BY <1>8
  <2>1. CASE k <= lp
    <3>1. k \in 1..lp /\ whole[k] = passed[k]
      BY <1>10, <2>0, <2>1
    <3> QED
      BY <1>12, <2>1, <3>1
  <2>2. CASE ~(k <= lp)
    <3>1. k - lp \in 1..Len(others) /\ whole[k] = others[k - lp]
      BY <1>10, <2>2
    <3> QED
      BY <1>12, <2>2, <3>1
  <2> QED
    BY <2>1, <2>2
<1>14. ASSUME NEW i \in 1..Len(list) PROVE \E k \in 1..Len(whole) : whole[k] = list[i]
  <2>1. CASE i \in good
    <3>1. PICK k \in 1..lp : passed[k] = list[i]
      BY <1>3, <2>1 DEF lp
    <3>2. k \in 1..Len(whole) /\ k <= lp
      BY <1>8, <1>9, <3>1
    <3> QED
      BY <1>9, <3>1, <3>2
  <2>2. CASE i \notin good
    <3>1. i \in bad
      BY <1>2, <2>2
    <3>2. PICK k \in 1..Len(others) : others[k] = list[i]
      BY <1>4, <3>1
    <3>3. lp + k \in 1..Len(whole) /\ ~(lp + k <= lp) /\ (lp + k) - lp = k
      BY <1>8, <1>9, <3>2
    <3>4. whole[lp + k] = others[k]
      BY <1>9, <3>3
    <3> QED
      BY <3>2, <3>3, <3>4
  <2> QED
    BY <2>1, <2>2
<1>15. ASSUME NEW k \in 1..Len(whole), NEW l \in 1..Len(whole), k < l
       PROVE  Prefers(whole[k], whole[l])
  <2>0. k \in Int /\ l \in Int
    BY <1>9
  <2>1. CASE l <= lp
    <3>1. k <= lp
      BY <1>8, <1>15, <2>0, <2>1
    <3>2. /\ k \in 1..lp /\ l \in 1..lp
          /\ whole[k] = passed[k] /\ whole[l] = passed[l]
      BY <1>8, <1>9, <2>0, <2>1, <3>1
    <3>3. NotWorse(passed[k], passed[l])
      BY <1>3, <1>15, <3>2 DEF BestFirst, lp
    <3> QED
      BY <1>13, <3>1, <3>2, <3>3 DEF Prefers
  <2>2. CASE k <= lp /\ ~(l <= lp)
    BY <1>13, <2>2 DEF Prefers
  <2>3. CASE ~(k <= lp)
    <3>1. ~(l <= lp)
      BY <1>8, <1>15, <2>0, <2>3
    <3> DEFINE a == k - lp
               b == l - lp
    <3>2. /\ a \in 1..Len(others) /\ b \in 1..Len(others)
          /\ whole[k] = others[a] /\ whole[l] = others[b]
      BY <1>10, <2>3, <3>1
    <3>3. a < b
      BY <1>8, <1>15, <2>0
    <3> HIDE DEF a, b
    <3>4. NotWorse(others[a], others[b])
      BY <1>4, <3>2, <3>3 DEF BestFirst
    <3> QED
      BY <1>13, <2>3, <3>1, <3>2, <3>4 DEF Prefers
  <2> QED
    BY <2>1, <2>2, <2>3
<1>16. ASSUME NEW k \in 1..Len(whole), NEW l \in 1..Len(whole),
              whole[k].symbol = whole[l].symbol
       PROVE  k = l
  <2>1. whole[k].passed <=> whole[l].passed
    <3>1. PICK i \in 1..Len(list) : whole[k] = list[i]
      BY <1>13
    <3>2. PICK j \in 1..Len(list) : whole[l] = list[j]
      BY <1>13
    <3>3. i = j
      BY <1>16, <3>1, <3>2 DEF SymbolsDiffer
    <3> QED
      BY <3>1, <3>2, <3>3
  <2>2. (k <= lp) <=> (l <= lp)
    BY <1>13, <2>1
  <2>3. CASE k <= lp
    <3>1. k \in 1..lp /\ l \in 1..lp /\ passed[k].symbol = passed[l].symbol
      <4>1. k \in Int /\ l \in Int /\ lp \in Int /\ l <= lp
        BY <1>8, <2>2, <2>3
      <4> QED
        BY <1>10, <1>16, <2>3, <4>1
    <3> QED
      BY <1>3, <3>1 DEF SymbolsDiffer, lp
  <2>4. CASE ~(k <= lp)
    <3> DEFINE a == k - lp
               b == l - lp
    <3>1. /\ a \in 1..Len(others) /\ b \in 1..Len(others)
          /\ others[a].symbol = others[b].symbol
      BY <1>10, <1>16, <2>2, <2>4
    <3> HIDE DEF a, b
    <3>2. a = b
      BY <1>4, <3>1 DEF SymbolsDiffer
    <3> HIDE <3>1
    <3>3. k - lp = l - lp /\ k \in Int /\ l \in Int
      BY <1>9, <3>2 DEF a, b
    <3> QED
      BY <1>8, <3>3
  <2> QED
    BY <2>3, <2>4
<1>17. \A k \in 1..Len(whole) : whole[k].passed => k <= m
  <2>1. \A k \in 1..Len(whole) : k \in Int
    OBVIOUS
  <2> QED
    BY <1>8, <1>13, <2>1
<1>18. m < Len(whole) => m >= MinStocks
  BY <1>5, <1>8, <1>9 DEF m, lp
<1>19. ASSUME NEW k \in 1..m, ~ whole[k].passed PROVE m <= MinStocks
  <2>1. k \in 1..Len(whole) /\ k \in Int
    BY <1>8, <1>9
  <2>2. k > lp
    BY <1>8, <1>13, <1>19, <2>1
  <2>3. fill > 0
    BY <1>8, <2>1, <2>2 DEF m
  <2> QED
    BY <1>5, <2>3 DEF m, lp
<1> QED
  <2>1. m \in 0..Len(whole) /\ SymbolsDiffer(whole)
    BY <1>8, <1>9, <1>16 DEF SymbolsDiffer
  <2>2. FirstOf(list, whole, m)
    BY <1>11, <1>13, <1>14, <1>15, <1>17, <1>18, <1>19, <2>1 DEF FirstOf
  <2> QED
    BY <1>9, <2>1, <2>2

\* The list written has no stock twice and none that was not judged.
LEMMA PicksIs ==
    ASSUME NEW U, NEW G, \A e \in G : Comparable(e) /\ e.symbol \in U,
           NEW list \in Seq(G), SymbolsDiffer(list)
    PROVE  Picks(list) \in Seq(U) /\ Distinct(Picks(list))
<1>0. PICK whole \in Seq(G) : \E m \in 0..Len(whole) : FirstOf(list, whole, m)
  BY PicksParts
<1>1. PICK m \in 0..Len(whole) :
         SymbolsDiffer(whole) /\ Picks(list) = [k \in 1..m |-> whole[k].symbol]
  BY <1>0 DEF FirstOf
<1> DEFINE result == [k \in 1..m |-> whole[k].symbol]
<1>2. Len(whole) \in Nat /\ m \in Nat /\ \A k \in 1..m : k \in 1..Len(whole)
  BY <1>1
<1>3. \A k \in 1..m : whole[k] \in G /\ whole[k].symbol \in U
  BY <1>2
<1>4. result \in Seq(U)
  BY <1>2, <1>3
<1>5. Distinct(result)
  BY <1>1, <1>2 DEF Distinct, SymbolsDiffer
<1> QED
  BY <1>1, <1>4, <1>5

\* The list written has whoever passed, and else the best of the others, as
\* many as the minimum wants and no more; it names the best first.
PicksTheBest(list, written) ==
    /\ \A k \in DOMAIN written : \E i \in DOMAIN list : list[i].symbol = written[k]
    /\ \A i \in DOMAIN list : list[i].passed => list[i].symbol \in ToSet(written)
    /\ \A i \in DOMAIN list : list[i].symbol \in ToSet(written) =>
          list[i].passed \/ Len(written) <= MinStocks
    /\ \A i \in DOMAIN list : list[i].symbol \notin ToSet(written) =>
          /\ Len(written) >= MinStocks
          /\ \A j \in DOMAIN list :
                list[j].symbol \in ToSet(written) => Prefers(list[j], list[i])
    /\ \A k, l \in DOMAIN written, i, j \in DOMAIN list :
          k < l /\ list[i].symbol = written[k] /\ list[j].symbol = written[l]
             => Prefers(list[i], list[j])

LEMMA PicksAreBest ==
    ASSUME NEW G, \A e \in G : Comparable(e), NEW list \in Seq(G), SymbolsDiffer(list)
    PROVE  PicksTheBest(list, Picks(list))
<1>0. PICK whole \in Seq(G) : \E m \in 0..Len(whole) : FirstOf(list, whole, m)
  BY PicksParts
<1>1. PICK m \in 0..Len(whole) :
         /\ SymbolsDiffer(whole)
         /\ \A k \in 1..Len(whole) : \E i \in 1..Len(list) : whole[k] = list[i]
         /\ \A i \in 1..Len(list) : \E k \in 1..Len(whole) : whole[k] = list[i]
         /\ \A k, l \in 1..Len(whole) : k < l => Prefers(whole[k], whole[l])
         /\ \A k \in 1..Len(whole) : whole[k].passed => k <= m
         /\ m < Len(whole) => m >= MinStocks
         /\ \A k \in 1..m : whole[k].passed \/ m <= MinStocks
         /\ Picks(list) = [k \in 1..m |-> whole[k].symbol]
  BY <1>0 DEF FirstOf
<1> DEFINE written == [k \in 1..m |-> whole[k].symbol]
<1>2. /\ Len(whole) \in Nat /\ m \in Nat /\ m <= Len(whole)
      /\ \A k \in 1..Len(whole) : k \in Int /\ ((k \in 1..m) <=> (k <= m))
      /\ \A k \in 1..m : k \in 1..Len(whole)
      /\ DOMAIN list = 1..Len(list)
  BY <1>1
<1>3. /\ DOMAIN written = 1..m /\ Len(written) = m
      /\ \A k \in 1..m : written[k] = whole[k].symbol
  BY <1>2
<1>4. ToSet(written) = {written[k] : k \in 1..m}
  BY <1>3 DEF ToSet
<1> HIDE DEF written
<1>5. \A i \in 1..Len(list), k \in 1..Len(whole) :
         list[i].symbol = whole[k].symbol => list[i] = whole[k]
  <2> SUFFICES ASSUME NEW i \in 1..Len(list), NEW k \in 1..Len(whole),
                      list[i].symbol = whole[k].symbol
               PROVE  list[i] = whole[k]
    OBVIOUS
  <2>1. PICK l \in 1..Len(whole) : whole[l] = list[i]
    BY <1>1
  <2>2. l = k
    BY <1>1, <2>1 DEF SymbolsDiffer
  <2> QED
    BY <2>1, <2>2
<1>6. ASSUME NEW i \in 1..Len(list), list[i].symbol \in ToSet(written)
      PROVE  \E k \in 1..m : list[i] = whole[k]
  <2>1. PICK k \in 1..m : list[i].symbol = whole[k].symbol
    BY <1>3, <1>4, <1>6
  <2> QED
    BY <1>2, <1>5, <2>1
<1>7. ASSUME NEW i \in 1..Len(list), list[i].symbol \notin ToSet(written)
      PROVE  \E k \in 1..Len(whole) : k > m /\ list[i] = whole[k]
  <2>1. PICK k \in 1..Len(whole) : whole[k] = list[i]
    BY <1>1
  <2>2. k \notin 1..m
    BY <1>3, <1>4, <1>7, <2>1
  <2> QED
    BY <1>2, <2>1, <2>2
<1>8. ASSUME NEW k \in 1..m PROVE \E i \in 1..Len(list) : list[i].symbol = written[k]
  <2>1. k \in 1..Len(whole) /\ written[k] = whole[k].symbol
    BY <1>2, <1>3
  <2>2. PICK i \in 1..Len(list) : whole[k] = list[i]
    BY <1>1, <2>1
  <2> QED
    BY <2>1, <2>2
<1>9. ASSUME NEW i \in 1..Len(list), list[i].passed
      PROVE  list[i].symbol \in ToSet(written)
  <2> SUFFICES ASSUME list[i].symbol \notin ToSet(written) PROVE FALSE
    OBVIOUS
  <2>1. PICK k \in 1..Len(whole) : k > m /\ list[i] = whole[k]
    BY <1>7
  <2>2. k <= m /\ k \in Int
    BY <1>1, <1>2, <1>9, <2>1
  <2> QED
    BY <1>2, <2>1, <2>2
<1>10. ASSUME NEW i \in 1..Len(list), list[i].symbol \notin ToSet(written)
       PROVE  /\ Len(written) >= MinStocks
              /\ \A j \in 1..Len(list) :
                    list[j].symbol \in ToSet(written) => Prefers(list[j], list[i])
  <2>1. PICK k \in 1..Len(whole) : k > m /\ list[i] = whole[k]
    BY <1>7, <1>10
  <2>2. Len(written) >= MinStocks
    <3>1. m < Len(whole)
      BY <1>2, <2>1
    <3> QED
      BY <1>1, <1>3, <3>1
  <2>3. ASSUME NEW j \in 1..Len(list), list[j].symbol \in ToSet(written)
        PROVE  Prefers(list[j], list[i])
    <3>1. PICK l \in 1..m : list[j] = whole[l]
      BY <1>6, <2>3
    <3>2. l \in 1..Len(whole) /\ l < k
      BY <1>2, <2>1, <3>1
    <3>3. Prefers(whole[l], whole[k])
      BY <1>1, <2>1, <3>2
    <3> QED
      BY <2>1, <3>1, <3>3
  <2> QED
    BY <2>2, <2>3
<1>11. ASSUME NEW k \in 1..m, NEW l \in 1..m, k < l,
              NEW i \in 1..Len(list), NEW j \in 1..Len(list),
              list[i].symbol = written[k], list[j].symbol = written[l]
       PROVE  Prefers(list[i], list[j])
  <2>0. /\ k \in 1..Len(whole) /\ written[k] = whole[k].symbol
        /\ l \in 1..Len(whole) /\ written[l] = whole[l].symbol
    BY <1>2, <1>3
  <2>1. list[i] = whole[k] /\ list[j] = whole[l]
    BY <1>5, <1>11, <2>0
  <2>2. Prefers(whole[k], whole[l])
    BY <1>1, <1>11, <2>0
  <2> QED
    BY <2>1, <2>2
<1>12. \A k, l \in 1..m, i, j \in 1..Len(list) :
          k < l /\ list[i].symbol = written[k] /\ list[j].symbol = written[l]
             => Prefers(list[i], list[j])
  BY <1>11
<1>13. ASSUME NEW i \in 1..Len(list), list[i].symbol \in ToSet(written)
       PROVE  list[i].passed \/ Len(written) <= MinStocks
  <2>1. PICK k \in 1..m : list[i] = whole[k]
    BY <1>6, <1>13
  <2> QED
    BY <1>1, <1>3, <2>1
<1>14. PicksTheBest(list, written)
  <2>1. DOMAIN written = 1..m /\ DOMAIN list = 1..Len(list)
    BY <1>2, <1>3
  <2> HIDE DEF PicksTheBest
  <2>2. /\ \A k \in DOMAIN written : \E i \in DOMAIN list : list[i].symbol = written[k]
        /\ \A i \in DOMAIN list : list[i].passed => list[i].symbol \in ToSet(written)
    BY <1>8, <1>9, <2>1
  <2>3. \A i \in DOMAIN list : list[i].symbol \notin ToSet(written) =>
           /\ Len(written) >= MinStocks
           /\ \A j \in DOMAIN list :
                 list[j].symbol \in ToSet(written) => Prefers(list[j], list[i])
    BY <1>10, <2>1
  <2>4. \A k, l \in DOMAIN written, i, j \in DOMAIN list :
           k < l /\ list[i].symbol = written[k] /\ list[j].symbol = written[l]
              => Prefers(list[i], list[j])
    BY <1>12, <2>1
  <2>5. \A i \in DOMAIN list : list[i].symbol \in ToSet(written) =>
           list[i].passed \/ Len(written) <= MinStocks
    BY <1>13, <2>1
  <2> QED
    BY <2>2, <2>3, <2>4, <2>5 DEF PicksTheBest
<1> QED
  BY <1>1, <1>14 DEF written

-----------------------------------------------------------------------------
(***************************************************************************)
(* The largest and the smallest of finitely many numbers, and what is      *)
(* found out about a stock.                                                *)
(***************************************************************************)

LEMMA ImageIsFinite ==
    ASSUME NEW S, IsFiniteSet(S), NEW f
    PROVE  /\ IsFiniteSet({f[x] : x \in S})
           /\ Cardinality({f[x] : x \in S}) <= Cardinality(S)
<1> DEFINE T == {f[x] : x \in S}
           g == [x \in S |-> f[x]]
<1>1. g \in Surjection(S, T)
  BY DEF Surjection
<1> HIDE DEF g, T
<1>2. IsFiniteSet(T) /\ Cardinality(T) <= Cardinality(S)
  BY <1>1, FS_Surjection
<1> QED
  BY <1>2 DEF T

LEMMA Extremes ==
    ASSUME NEW S, IsFiniteSet(S), S # {}, S \subseteq Int
    PROVE  /\ Max(S) \in S /\ \A x \in S : x <= Max(S)
           /\ Min(S) \in S /\ \A x \in S : Min(S) <= x
<1> DEFINE Top(T)    == \E m \in T : \A x \in T : x <= m
           Bottom(T) == \E m \in T : \A x \in T : m <= x
           P == {T \in SUBSET S : T # {} => Top(T) /\ Bottom(T)}
<1>1. ASSUME NEW T \in SUBSET S, \A x \in T : T \ {x} \in P PROVE T \in P
  <2> SUFFICES ASSUME T # {} PROVE Top(T) /\ Bottom(T)
    OBVIOUS
  <2>1. PICK y \in T : TRUE
    OBVIOUS
  <2>2. CASE T \ {y} = {}
    <3>1. \A x \in T : x = y
      BY <2>2
    <3> QED
      BY <3>1
  <2>3. CASE T \ {y} # {}
    <3>1. PICK m \in T \ {y} : \A x \in T \ {y} : x <= m
      BY <1>1, <2>1, <2>3
    <3>2. PICK l \in T \ {y} : \A x \in T \ {y} : l <= x
      BY <1>1, <2>1, <2>3
    <3>3. y \in Int /\ m \in Int /\ l \in Int /\ T \subseteq Int
      OBVIOUS
    <3>4. Top(T)
      <4>1. CASE y <= m
        BY <3>1, <4>1
      <4>2. CASE ~(y <= m)
        <5>1. \A x \in T : x <= y
          BY <3>1, <3>3, <4>2
        <5> QED
          BY <5>1
      <4> QED
        BY <4>1, <4>2
    <3>5. Bottom(T)
      <4>1. CASE l <= y
        BY <3>2, <4>1
      <4>2. CASE ~(l <= y)
        <5>1. \A x \in T : y <= x
          BY <3>2, <3>3, <4>2
        <5> QED
          BY <5>1
      <4> QED
        BY <4>1, <4>2
    <3> QED
      BY <3>4, <3>5
  <2> QED
    BY <2>2, <2>3
<1> HIDE DEF P
<1>2. S \in P
  <2>1. \A T \in SUBSET S : (\A x \in T : T \ {x} \in P) => T \in P
    BY <1>1
  <2>2. \A T \in SUBSET S : T \in P
    BY <2>1, SubsetsByInduction
  <2> QED
    BY <2>2
<1>3. Top(S) /\ Bottom(S)
  BY <1>2 DEF P
<1> QED
  BY <1>3 DEF Max, Min

LEMMA HighestIs ==
    ASSUME NEW h \in Seq(DailyPrice), h # <<>>
    PROVE  LET high == Max({h[i].high : i \in DOMAIN h})
           IN  high \in Nat /\ \A i \in DOMAIN h : h[i].high <= high
<1> DEFINE T == {h[i].high : i \in DOMAIN h}
           f == [i \in DOMAIN h |-> h[i].high]
<1>1. DOMAIN h = 1..Len(h) /\ Len(h) \in Nat /\ Len(h) # 0
  OBVIOUS
<1>2. IsFiniteSet(DOMAIN h)
  BY <1>1, FS_Interval
<1>3. T = {f[i] : i \in DOMAIN h}
  OBVIOUS
<1>4. T \subseteq Nat
  BY <1>1, DayTyped
<1>5. T # {} /\ \A i \in DOMAIN h : h[i].high \in T
  BY <1>1
<1> HIDE DEF T, f
<1>6. IsFiniteSet(T)
  BY <1>2, <1>3, ImageIsFinite
<1>7. Max(T) \in T /\ \A x \in T : x <= Max(T)
  <2>1. T \subseteq Int
    BY <1>4
  <2> QED
    BY <1>5, <1>6, <2>1, Extremes
<1>8. Max(T) \in Nat /\ \A i \in DOMAIN h : h[i].high <= Max(T)
  BY <1>4, <1>5, <1>7
<1> QED
  BY <1>8 DEF T

LEMMA YearHighTyped ==
    ASSUME NEW h \in Seq(DailyPrice)
    PROVE  YearHigh(h) \in Nat
<1>1. CASE h = <<>>
  BY <1>1 DEF YearHigh
<1>2. CASE h # <<>>
  <2> DEFINE r == Recent(h, YearDays)
  <2>1. YearDays \in Nat \ {0} /\ Len(h) \in Nat /\ Len(h) # 0
    BY <1>2, StrategiesAssumption DEF StrategiesAssumption
  <2>2. r \in Seq(DailyPrice) /\ Len(r) = IF YearDays <= Len(h) THEN YearDays ELSE Len(h)
    BY <2>1, RecentIs
  <2>3. YearHigh(h) = Max({r[i].high : i \in DOMAIN r})
    BY <1>2 DEF YearHigh
  <2> HIDE DEF r
  <2>4. r # <<>>
    BY <2>1, <2>2
  <2> QED
    BY <2>2, <2>3, <2>4, HighestIs
<1> QED
  BY <1>1, <1>2

LEMMA JudgementComparable ==
    ASSUME NEW s, NEW h \in Seq(DailyPrice), Judgeable(h)
    PROVE  Comparable(Judgement(s, h)) /\ Judgement(s, h).symbol = s
<1>1. Len(h) \in Nat /\ Len(h) # 0 /\ h # <<>>
  BY StrategiesAssumption DEF StrategiesAssumption, Judgeable
<1>2. Today(h).close \in Nat
  <2>1. Len(h) \in 1..Len(h)
    BY <1>1
  <2> QED
    BY <2>1, DayTyped DEF Today
<1>3. Rounded(10000 * HighRatio(h)[1], HighRatio(h)[2]) \in Nat
  <2> DEFINE a == 10000 * HighRatio(h)[1]
             b == HighRatio(h)[2]
  <2>1. YearHigh(h) \in Nat
    BY YearHighTyped
  <2>2. a \in Nat /\ b \in Nat \ {0}
    BY <1>2, <2>1 DEF HighRatio
  <2> HIDE DEF a, b
  <2>3. 2 * a + b \in Nat /\ 2 * b \in Nat \ {0}
    BY <2>2
  <2>4. Rounded(a, b) \in Nat
    BY <2>3, Quotient DEF Rounded
  <2> QED
    BY <2>4 DEF a, b
<1>4. Bonus(h) \in Nat
  <2>1. /\ Point(RoseBy3(h)) \in Nat /\ Point(Surges(h)) \in Nat
        /\ Point(KeepsRising(h)) \in Nat /\ Point(AtYearHigh(h)) \in Nat
    BY DEF Point
  <2> QED
    BY <2>1 DEF Bonus
<1>5. /\ Judgement(s, h).bonus = Bonus(h)
      /\ Judgement(s, h).ratio = Rounded(10000 * HighRatio(h)[1], HighRatio(h)[2])
      /\ Judgement(s, h).symbol = s
  BY DEF Judgement
<1> QED
  BY <1>3, <1>4, <1>5 DEF Comparable

-----------------------------------------------------------------------------
(***************************************************************************)
(* Reading page by page.                                                   *)
(***************************************************************************)

\* Days first..last in the order of the listing, apart from the repetition of
\* a day where two pages meet; the newest page has none.
Days(list, first, last) ==
    /\ list \in Seq(1..last) /\ list # <<>>
    /\ ToSet(list) = first..last
    /\ last >= PageSize =>
         /\ Len(list) >= PageSize
         /\ \A j \in 0..(PageSize - 1) : list[Len(list) - j] = last - j
NewestDays(s, list) ==
    \E first \in 1..Len(market[s]) : Days(list, first, Len(market[s]))

\* What is left of the days received when they are parsed, and so the days that
\* are known of a stock.
ReadableOf(s, raw) == Picked(raw, {i \in DOMAIN raw : Readable(s, raw[i])})
KnownDays(s, list) == \E raw : NewestDays(s, raw) /\ list = ReadableOf(s, raw)

Reading == reader # ""
PageInv ==
    /\ market \in Markets /\ inclusive \in BOOLEAN
    /\ Reading =>
         /\ asked \in DOMAIN market
         /\ \/ rows = <<>> /\ cursor = Len(market[asked]) + 1
            \/ /\ cursor \in 1..Len(market[asked])
               /\ Days(rows, cursor, Len(market[asked]))

LEMMA MarketTyped ==
    ASSUME PageInv
    PROVE  \A s \in DOMAIN market :
              /\ Len(market[s]) \in Nat /\ DOMAIN market[s] = 1..Len(market[s])
              /\ \A d \in 1..Len(market[s]) : Readable(s, d) => market[s][d] \in DailyPrice
<1> DEFINE Row == DailyPrice \cup {Unreadable}
<1>1. market \in [DOMAIN market -> Seq(Row)]
  BY ResearchAssumption DEF ResearchAssumption, PageInv
<1> SUFFICES ASSUME NEW s \in DOMAIN market
             PROVE  /\ Len(market[s]) \in Nat /\ DOMAIN market[s] = 1..Len(market[s])
                    /\ \A d \in 1..Len(market[s]) :
                          Readable(s, d) => market[s][d] \in DailyPrice
  OBVIOUS
<1> HIDE DEF Row
<1>2. market[s] \in Seq(Row)
  BY <1>1
<1>3. Len(market[s]) \in Nat /\ DOMAIN market[s] = 1..Len(market[s])
  BY <1>2
<1>4. \A d \in 1..Len(market[s]) : market[s][d] \in Row
  BY <1>2
<1> QED
  BY <1>3, <1>4 DEF Readable, Listing, Row

LEMMA AskKeepsPages ==
    ASSUME PageInv, NEW who, NEW s \in DOMAIN market, Ask(who, s)
    PROVE  PageInv'
BY DEF PageInv, Ask, Listing, Reading

LEMMA DropKeepsPages ==
    ASSUME PageInv, Drop
    PROVE  PageInv'
BY DEF PageInv, Drop, Reading

LEMMA SamePages ==
    ASSUME PageInv, UNCHANGED pageVars
    PROVE  PageInv'
<1>1. /\ market' = market /\ inclusive' = inclusive /\ reader' = reader
      /\ asked' = asked /\ rows' = rows /\ cursor' = cursor
  BY DEF pageVars
<1> QED
  BY <1>1 DEF PageInv, Days, Reading

\* The page that arrives goes on where the last one ended, or one day before.
LEMMA NewPage ==
    ASSUME PageInv, PageArrives
    PROVE  LET last == Len(market[asked])
               page == [i \in 1..(NewestOfPage - OldestOfPage + 1) |-> OldestOfPage + i - 1]
           IN  /\ OldestOfPage \in 1..last /\ NewestOfPage \in OldestOfPage..last
               /\ Days(page \o rows, OldestOfPage, last)
<1> DEFINE last == Len(market[asked])
           new  == NewestOfPage
           old  == OldestOfPage
           page == [i \in 1..(new - old + 1) |-> old + i - 1]
<1>0. last \in Nat /\ PageSize \in Nat \ {0} /\ Reading /\ ~(new <= 0)
  <2>1. Reading /\ ~(new <= 0)
    BY DEF PageArrives, Exhausted, Reading
  <2> QED
    BY <2>1, MarketTyped, PageAssumption DEF PageAssumption, PageInv
<1>1. cursor \in 1..(last + 1) /\ inclusive \in BOOLEAN
  BY <1>0 DEF PageInv
<1>2. \/ rows = <<>> /\ cursor = last + 1
      \/ cursor \in 1..last /\ Days(rows, cursor, last)
  BY <1>0 DEF PageInv
<1>3. /\ new \in 1..last
      /\ cursor = last + 1 => new = last
      /\ cursor <= last => new >= cursor - 1 /\ new <= cursor
  <2> HIDE DEF last
  <2>1. CASE inclusive
    <3>1. new = Min({cursor, last})
      BY <2>1 DEF NewestOfPage, Listing, last
    <3>2. cursor \in Int /\ last \in Int
      BY <1>0, <1>1
    <3>3. new = IF cursor <= last THEN cursor ELSE last
      BY <3>1, <3>2, MaxOfTwo
    <3> QED
      BY <1>0, <1>1, <3>3
  <2>2. CASE ~ inclusive
    <3>1. new = cursor - 1
      BY <2>2 DEF NewestOfPage
    <3> QED
      BY <1>0, <1>1, <3>1
  <2> QED
    BY <2>1, <2>2
<1> HIDE DEF last, new
<1>4. old = IF new - PageSize + 1 <= 1 THEN 1 ELSE new - PageSize + 1
  <2>1. new - PageSize + 1 \in Int /\ 1 \in Int
    BY <1>0, <1>3
  <2>2. old = Max({1, new - PageSize + 1})
    BY DEF OldestOfPage, new
  <2> QED
    BY <2>1, <2>2, MaxOfTwo
<1> HIDE DEF old
<1>5. old \in 1..new /\ old \in 1..last /\ new \in old..last
  BY <1>0, <1>3, <1>4
<1> DEFINE size == new - old + 1
<1>6. page \in Seq(1..last) /\ Len(page) = size /\ size \in Nat \ {0}
      /\ \A i \in 1..size : page[i] = old + i - 1
  <2>1. size \in Nat \ {0} /\ \A i \in 1..size : old + i - 1 \in 1..last
    BY <1>0, <1>3, <1>5
  <2> HIDE DEF size
  <2>2. page = [i \in 1..size |-> old + i - 1]
    BY DEF size
  <2> HIDE DEF page
  <2> QED
    BY <2>1, <2>2
<1> HIDE DEF page
<1>7. rows \in Seq(1..last) /\ Len(rows) \in Nat
  <2>1. CASE rows = <<>>
    BY <2>1
  <2>2. CASE Days(rows, cursor, last)
    BY <2>2 DEF Days
  <2> QED
    BY <1>2, <2>1, <2>2
<1> DEFINE all == page \o rows
<1>8. /\ all \in Seq(1..last) /\ Len(all) = size + Len(rows)
      /\ \A i \in 1..(size + Len(rows)) :
            all[i] = IF i <= size THEN old + i - 1 ELSE rows[i - size]
  <2>1. /\ all \in Seq(1..last) /\ Len(all) = Len(page) + Len(rows)
        /\ \A i \in 1..(Len(page) + Len(rows)) :
              all[i] = IF i <= Len(page) THEN page[i] ELSE rows[i - Len(page)]
    BY <1>6, <1>7, ConcatProperties
  <2> HIDE DEF all, size
  <2> QED
    BY <1>6, <1>7, <2>1
<1> HIDE DEF all
<1>9. ToSet(all) = old..last
  <2>1. ASSUME NEW d \in ToSet(all) PROVE d \in old..last
    <3>1. PICK i \in 1..(size + Len(rows)) : d = all[i]
      BY <1>7, <1>8 DEF ToSet
    <3>2. CASE i <= size
      <4>1. d = old + i - 1 /\ i \in Nat /\ i >= 1
        BY <1>6, <1>7, <1>8, <3>1, <3>2
      <4> QED
        BY <1>0, <1>3, <1>5, <3>2, <4>1
    <3>3. CASE ~(i <= size)
      <4> DEFINE k == i - size
      <4>1. k \in 1..Len(rows) /\ d = rows[k]
        BY <1>6, <1>7, <1>8, <3>1, <3>3
      <4>2. rows # <<>> /\ cursor \in 1..last /\ ToSet(rows) = cursor..last
        <5>1. Len(rows) # 0
          BY <1>7, <4>1
        <5> QED
          BY <1>2, <5>1 DEF Days
      <4> HIDE DEF k
      <4>3. d \in cursor..last
        BY <4>1, <4>2 DEF ToSet
      <4>4. old <= cursor
        BY <1>0, <1>3, <1>4, <4>2
      <4> QED
        BY <1>0, <1>5, <4>2, <4>3, <4>4
    <3> QED
      BY <3>2, <3>3
  <2>2. ASSUME NEW d \in old..last PROVE d \in ToSet(all)
    <3>0. DOMAIN all = 1..(size + Len(rows))
      BY <1>8
    <3>1. CASE d <= new
      <4> DEFINE i == d - old + 1
      <4>1. i \in 1..(size + Len(rows)) /\ i <= size /\ old + i - 1 = d
        BY <1>0, <1>5, <1>6, <1>7, <3>1
      <4> HIDE DEF i
      <4>2. all[i] = d
        BY <1>8, <4>1
      <4> QED
        BY <3>0, <4>1, <4>2 DEF ToSet
    <3>2. CASE ~(d <= new)
      <4>1. cursor <= last /\ d \in cursor..last
        BY <1>0, <1>1, <1>3, <1>5, <3>2
      <4>2. ToSet(rows) = cursor..last
        BY <1>0, <1>1, <1>2, <4>1 DEF Days
      <4>3. PICK k \in 1..Len(rows) : rows[k] = d
        BY <1>7, <4>1, <4>2 DEF ToSet
      <4> DEFINE i == k + size
      <4>4. i \in 1..(size + Len(rows)) /\ ~(i <= size) /\ i - size = k
        BY <1>6, <1>7
      <4> HIDE DEF i
      <4>5. all[i] = d
        BY <1>8, <4>3, <4>4
      <4> QED
        BY <3>0, <4>4, <4>5 DEF ToSet
    <3> QED
      BY <3>1, <3>2
  <2> QED
    BY <2>1, <2>2
<1>10. ASSUME last >= PageSize
       PROVE  /\ Len(all) >= PageSize
              /\ \A j \in 0..(PageSize - 1) : all[Len(all) - j] = last - j
  <2>1. CASE rows = <<>> /\ cursor = last + 1
    <3>1. new = last /\ old = last - PageSize + 1 /\ size = PageSize /\ Len(rows) = 0
      BY <1>0, <1>3, <1>4, <1>10, <2>1
    <3>2. \A j \in 0..(PageSize - 1) :
             /\ size + Len(rows) - j \in 1..(size + Len(rows))
             /\ size + Len(rows) - j <= size
             /\ old + (size + Len(rows) - j) - 1 = last - j
      BY <1>0, <3>1
    <3> QED
      BY <1>0, <1>8, <3>1, <3>2
  <2>2. CASE cursor \in 1..last /\ Days(rows, cursor, last)
    <3>1. /\ Len(rows) >= PageSize
          /\ \A j \in 0..(PageSize - 1) : rows[Len(rows) - j] = last - j
      BY <1>10, <2>2 DEF Days
    <3> HIDE DEF size
    <3>3. ASSUME NEW j \in 0..(PageSize - 1)
          PROVE  all[Len(all) - j] = last - j
      <4> DEFINE total == size + Len(rows)
                 k == total - j
      <4>1. k \in 1..total /\ ~(k <= size) /\ k - size = Len(rows) - j
        BY <1>0, <1>6, <1>7, <3>1
      <4> HIDE DEF total
      <4>2. Len(all) = total
        BY <1>8 DEF total
      <4>a. \A i \in 1..total : ~(i <= size) => all[i] = rows[i - size]
        BY <1>8 DEF total
      <4> HIDE DEF k
      <4>3. all[k] = rows[k - size]
        BY <4>1, <4>a
      <4>4. rows[k - size] = last - j
        BY <3>1, <4>1
      <4> QED
        BY <4>2, <4>3, <4>4 DEF k
    <3>4. Len(all) >= PageSize
      BY <1>0, <1>6, <1>7, <1>8, <3>1
    <3> QED
      BY <3>3, <3>4
  <2> QED
    BY <1>2, <2>1, <2>2
<1>11. all # <<>>
  BY <1>6, <1>7, <1>8
<1>12. Days(all, old, last)
  BY <1>8, <1>9, <1>10, <1>11 DEF Days
<1> QED
  BY <1>5, <1>12 DEF all, page, last, new, old

LEMMA ReadingKeepsPages ==
    ASSUME PageInv, PageArrives \/ PageFails
    PROVE  PageInv'
<1>1. CASE PageArrives
  <2> DEFINE last == Len(market[asked])
             page == [i \in 1..(NewestOfPage - OldestOfPage + 1) |-> OldestOfPage + i - 1]
             all  == page \o rows
  <2>1. OldestOfPage \in 1..last /\ Days(all, OldestOfPage, last)
    BY <1>1, NewPage
  <2>2. /\ rows' = all /\ cursor' = OldestOfPage
        /\ UNCHANGED <<market, inclusive, reader, asked>>
    BY <1>1 DEF PageArrives, NextCursor
  <2> HIDE DEF all
  <2>3. cursor' \in 1..last /\ Days(rows', cursor', last)
    BY <2>1, <2>2
  <2>4. (Len(market[asked]))' = last
    BY <2>2
  <2> QED
    BY <2>2, <2>3, <2>4 DEF PageInv, Days, Reading
<1>2. CASE PageFails
  <2>1. /\ market' = market /\ inclusive' = inclusive /\ reader' = reader
        /\ asked' = asked /\ rows' = rows /\ cursor' = cursor
    BY <1>2 DEF PageFails
  <2> QED
    BY <2>1 DEF PageInv, Days, Reading
<1> QED
  BY <1>1, <1>2

-----------------------------------------------------------------------------
(***************************************************************************)
(* Choosing the stocks.                                                    *)
(***************************************************************************)

Stocks == ToSet(Symbols)
Tested == Stocks \cup ToSet(DefaultSymbols)
Loops  == {"screen", "load", "rescreen", "reload"}

TaskInv ==
    task \in Loops =>
      todo \in Seq(Stocks) /\ todo # <<>> /\ asked = Head(todo) /\ queue = <<>>

\* The loop of a backtest reads for the first of the stocks it has to test.
QueueInv ==
    /\ queue \in Seq(Tested)
    /\ queue = <<>> => reader # "backtest" /\ report = NoReport

FileInv == file \in Seq(Stocks) \cup {NoFile} /\ Distinct(file)

KnownInv ==
    /\ \A s \in DOMAIN prices : s \in Stocks /\ KnownDays(s, prices[s])
    /\ \A s \in DOMAIN loaded : s \in Stocks /\ KnownDays(s, loaded[s])

\* A stock that is judged or about to be judged again has no prices, and none
\* is judged twice.
Unloaded(list) ==
    /\ list \in Seq(Stocks) /\ Distinct(list)
    /\ \A i \in DOMAIN list : list[i] \notin DOMAIN prices
JudgedIn(G, list) ==
    list \in Seq(G) /\ \A e \in G : Comparable(e) /\ e.symbol \in Stocks
Judged(list) == (\E G : JudgedIn(G, list)) /\ SymbolsDiffer(list)
FoundInv ==
    /\ task \notin {"screen", "rescreen", "reload"} => found = <<>>
    /\ task = "screen" =>
         /\ Distinct(todo) /\ Judged(found)
         /\ \A i \in 1..Len(found), j \in DOMAIN todo : found[i].symbol # todo[j]
    /\ task = "rescreen" =>
         /\ Unloaded(todo) /\ Unloaded(found)
         /\ \A i \in DOMAIN found, j \in DOMAIN todo : found[i] # todo[j]
    /\ task = "reload" => Unloaded(found)

\* The trader watches the stocks of the file and those it added, each of which
\* it added once and has prices of.
Watches(list, extra) ==
    /\ extra \in Seq(Stocks) /\ Distinct(extra)
    /\ list = file \o extra
    /\ \A i \in DOMAIN extra : extra[i] \in DOMAIN prices
WatchInv ==
    /\ task = "screen" => watched = <<>>
    /\ task \in {"load", "rescreen", "reload"} => watched # <<>>
    /\ task = "load" => watched = file
    /\ watched # <<>> => file \in Seq(Stocks) /\ \E extra : Watches(watched, extra)

ScreenInv ==
    PageInv /\ TaskInv /\ QueueInv /\ FileInv /\ KnownInv /\ FoundInv /\ WatchInv

(***************************************************************************)
(* Lists.                                                                  *)
(***************************************************************************)

LEMMA FirstAndRest ==
    ASSUME NEW S, NEW s \in Seq(S), s # <<>>
    PROVE  /\ 1 \in DOMAIN s /\ Head(s) = s[1] /\ Head(s) \in S
           /\ Tail(s) \in Seq(S)
           /\ Len(s) > 1 => Tail(s) # <<>>
           /\ \A i \in DOMAIN Tail(s) : i + 1 \in DOMAIN s /\ Tail(s)[i] = s[i + 1]
           /\ Distinct(s) => /\ Distinct(Tail(s))
                             /\ \A i \in DOMAIN Tail(s) : Tail(s)[i] # Head(s)
<1> DEFINE t == Tail(s)
<1>1. Len(s) \in Nat \ {0} /\ DOMAIN s = 1..Len(s)
  OBVIOUS
<1>2. /\ Head(s) \in S /\ t \in Seq(S) /\ Len(t) = Len(s) - 1
      /\ \A i \in 1..Len(t) : t[i] = s[i + 1]
  BY HeadTailProperties
<1>3. Head(s) = s[1]
  OBVIOUS
<1> HIDE DEF t
<1>4. DOMAIN t = 1..Len(t)
  BY <1>2
<1>5. \A i \in DOMAIN t : i + 1 \in DOMAIN s /\ t[i] = s[i + 1] /\ i # 0 /\ i \in Nat
  BY <1>1, <1>2, <1>4
<1>6. Len(s) > 1 => t # <<>>
  BY <1>1, <1>2
<1>7. ASSUME Distinct(s) PROVE Distinct(t) /\ \A i \in DOMAIN t : t[i] # s[1]
  <2>1. \A i, j \in DOMAIN t : s[i + 1] = s[j + 1] => i = j
    <3> SUFFICES ASSUME NEW i \in DOMAIN t, NEW j \in DOMAIN t, s[i + 1] = s[j + 1]
                 PROVE  i = j
      OBVIOUS
    <3>1. i + 1 = j + 1
      BY <1>5, <1>7 DEF Distinct
    <3> QED
      BY <1>5, <3>1
  <2>2. \A i \in DOMAIN t : s[i + 1] # s[1]
    <3> SUFFICES ASSUME NEW i \in DOMAIN t, s[i + 1] = s[1] PROVE FALSE
      OBVIOUS
    <3>1. i + 1 = 1
      BY <1>1, <1>5, <1>7 DEF Distinct
    <3> QED
      BY <1>5, <3>1
  <2> QED
    BY <1>5, <2>1, <2>2 DEF Distinct
<1> QED
  BY <1>1, <1>2, <1>3, <1>5, <1>6, <1>7 DEF t

LEMMA OneMore ==
    ASSUME NEW S, NEW s \in Seq(S), NEW e \in S
    PROVE  /\ Append(s, e) \in Seq(S) /\ Append(s, e) # <<>>
           /\ Len(s) \in Nat /\ Len(Append(s, e)) = Len(s) + 1
           /\ DOMAIN s = 1..Len(s) /\ DOMAIN Append(s, e) = 1..(Len(s) + 1)
           /\ \A i \in 1..(Len(s) + 1) :
                 Append(s, e)[i] = IF i <= Len(s) THEN s[i] ELSE e
           /\ \A i \in 1..(Len(s) + 1) : i <= Len(s) => i \in 1..Len(s)
           /\ \A i \in 1..(Len(s) + 1) : ~(i <= Len(s)) => i = Len(s) + 1
OBVIOUS

LEMMA DistinctConcat ==
    ASSUME NEW S, NEW s \in Seq(S), NEW t \in Seq(S), Distinct(s), Distinct(t),
           \A i \in DOMAIN s, j \in DOMAIN t : s[i] # t[j]
    PROVE  Distinct(s \o t)
<1> DEFINE c == s \o t
           n == Len(s)
<1>1. /\ Len(c) = n + Len(t) /\ DOMAIN c = 1..(n + Len(t))
      /\ \A i \in 1..(n + Len(t)) : c[i] = IF i <= n THEN s[i] ELSE t[i - n]
      /\ n \in Nat /\ Len(t) \in Nat /\ DOMAIN s = 1..n /\ DOMAIN t = 1..Len(t)
  <2>1. c \in Seq(S)
    BY ConcatProperties
  <2>2. DOMAIN c = 1..Len(c)
    BY <2>1, LenProperties
  <2>3. /\ Len(c) = n + Len(t)
        /\ \A i \in 1..(n + Len(t)) : c[i] = IF i <= n THEN s[i] ELSE t[i - n]
    BY ConcatProperties
  <2>4. n \in Nat /\ Len(t) \in Nat /\ DOMAIN s = 1..n /\ DOMAIN t = 1..Len(t)
    BY LenProperties
  <2> QED
    BY <2>2, <2>3, <2>4
<1> HIDE DEF c, n
<1>2. \A i \in DOMAIN c : i <= n => i \in DOMAIN s /\ c[i] = s[i]
  BY <1>1
<1>3. \A i \in DOMAIN c : ~(i <= n) => i - n \in DOMAIN t /\ c[i] = t[i - n]
  BY <1>1
<1>4. ASSUME NEW i \in DOMAIN c, NEW j \in DOMAIN c, c[i] = c[j] PROVE i = j
  <2>1. CASE i <= n /\ j <= n
    BY <1>2, <1>4, <2>1 DEF Distinct
  <2>2. CASE ~(i <= n) /\ ~(j <= n)
    <3>1. i - n = j - n
      BY <1>3, <1>4, <2>2 DEF Distinct
    <3> QED
      BY <1>1, <3>1
  <2>3. CASE i <= n /\ ~(j <= n)
    BY <1>2, <1>3, <1>4, <2>3
  <2>4. CASE ~(i <= n) /\ j <= n
    BY <1>2, <1>3, <1>4, <2>4
  <2> QED
    BY <2>1, <2>2, <2>3, <2>4
<1> QED
  BY <1>4 DEF Distinct, c

(***************************************************************************)
(* What the steps of the loops have in common.                             *)
(***************************************************************************)

LEMMA StocksInMarket == PageInv => Tested \subseteq DOMAIN market
<1> SUFFICES ASSUME PageInv PROVE Tested \subseteq DOMAIN market
  OBVIOUS
<1>1. market \in Markets
  BY DEF PageInv
<1> QED
  BY <1>1, ResearchAssumption DEF ResearchAssumption, Tested, Stocks

LEMMA StocksTyped ==
    /\ Symbols \in Seq(Stocks) /\ Symbols # <<>> /\ Distinct(Symbols)
    /\ DefaultSymbols \in Seq(Tested) /\ DefaultSymbols # <<>>
<1>1. /\ Symbols \in Seq(Stocks) \ {<<>>}
      /\ \A i, j \in DOMAIN Symbols : Symbols[i] = Symbols[j] => i = j
      /\ DefaultSymbols \in Seq(ToSet(DefaultSymbols)) \ {<<>>}
  BY ResearchAssumption DEF ResearchAssumption, Stocks
<1>2. ToSet(DefaultSymbols) \subseteq Tested
  BY DEF Tested
<1>3. DefaultSymbols \in Seq(Tested)
  BY <1>1, <1>2, SeqMonotonic
<1> QED
  BY <1>1, <1>3 DEF Distinct

LEMMA ReadableTyped ==
    ASSUME PageInv, NEW s \in DOMAIN market, NEW raw \in Seq(1..Len(market[s]))
    PROVE  /\ ReadableOf(s, raw) \in Seq({d \in 1..Len(market[s]) : Readable(s, d)})
           /\ ToSet(ReadableOf(s, raw)) = {d \in ToSet(raw) : Readable(s, d)}
<1> DEFINE kept == {i \in DOMAIN raw : Readable(s, raw[i])}
           G    == {d \in 1..Len(market[s]) : Readable(s, d)}
           F    == {d \in ToSet(raw) : Readable(s, d)}
           some == ReadableOf(s, raw)
<1>1. /\ Len(raw) \in Nat /\ DOMAIN raw = 1..Len(raw)
      /\ \A i \in 1..Len(raw) : raw[i] \in 1..Len(market[s])
      /\ \A i \in 1..Len(raw) : i \in kept <=> Readable(s, raw[i])
  OBVIOUS
<1>2. some = Picked(raw, kept)
  BY DEF ReadableOf
<1>3. \A i \in 1..Len(raw) : i \in kept => raw[i] \in G /\ raw[i] \in F
  BY <1>1 DEF ToSet
<1> HIDE DEF kept, G, some
<1>4. some \in Seq(G)
  BY <1>1, <1>2, <1>3, PickedFrom
<1>5. ToSet(some) = F
  <2> HIDE DEF F
  <2>1. some \in Seq(F)
    BY <1>1, <1>2, <1>3, PickedFrom
  <2>2. \A d \in ToSet(some) : d \in F
    BY <2>1 DEF ToSet
  <2>3. ASSUME NEW d \in F PROVE d \in ToSet(some)
    <3>1. PICK i \in 1..Len(raw) : raw[i] = d /\ i \in kept
      BY <1>1, <2>3 DEF F, ToSet
    <3>2. \E k \in DOMAIN some : some[k] = raw[i]
      BY <1>1, <1>2, <3>1, PickedAll
    <3> QED
      BY <3>1, <3>2 DEF ToSet
  <2> QED
    BY <2>2, <2>3
<1> QED
  BY <1>4, <1>5 DEF some, G

\* The parsed rows of a stock are its daily prices.
LEMMA DaysTyped ==
    ASSUME PageInv, NEW s \in DOMAIN market, NEW raw \in Seq(1..Len(market[s]))
    PROVE  [i \in DOMAIN ReadableOf(s, raw) |-> Listing(s)[ReadableOf(s, raw)[i]]]
              \in Seq(DailyPrice)
<1> DEFINE some == ReadableOf(s, raw)
           h    == market[s]
           G    == {d \in 1..Len(h) : Readable(s, d)}
<1>1. some \in Seq(G)
  BY ReadableTyped
<1>2. \A d \in G : h[d] \in DailyPrice
  BY MarketTyped
<1> HIDE DEF some, G, h
<1>3. /\ DOMAIN some = 1..Len(some) /\ Len(some) \in Nat
      /\ \A i \in 1..Len(some) : h[some[i]] \in DailyPrice
  BY <1>1, <1>2
<1>4. [i \in DOMAIN some |-> h[some[i]]] \in Seq(DailyPrice)
  BY <1>3
<1> QED
  BY <1>4 DEF some, h, Listing

LEMMA DailyTyped ==
    ASSUME PageInv, Reading
    PROVE  Daily \in Seq(DailyPrice)
<1>1. asked \in DOMAIN market
  BY DEF PageInv
<1>2. rows \in Seq(1..Len(market[asked]))
  <2>1. CASE rows = <<>>
    BY <2>1
  <2>2. CASE Days(rows, cursor, Len(market[asked]))
    BY <2>2 DEF Days
  <2> QED
    BY <2>1, <2>2 DEF PageInv
<1>3. Daily = [i \in DOMAIN ReadableOf(asked, rows) |->
                 Listing(asked)[ReadableOf(asked, rows)[i]]]
  BY DEF Daily, Parsed, ReadableOf
<1> QED
  BY <1>1, <1>2, <1>3, DaysTyped

LEMMA GoesOn ==
    ASSUME PageInv, NEW on \in Seq(Stocks), on # <<>>, NEW who, Goes(on, who)
    PROVE  /\ PageInv' /\ todo' = on /\ asked' = Head(on) /\ reader' = who
           /\ market' = market
<1>1. Head(on) \in Stocks
  BY FirstAndRest
<1>2. Head(on) \in DOMAIN market
  BY <1>1, StocksInMarket DEF Tested
<1>3. todo' = on /\ Ask(who, Head(on))
  BY DEF Goes
<1>4. PageInv'
  BY <1>2, <1>3, AskKeepsPages
<1>5. asked' = Head(on) /\ reader' = who /\ market' = market
  BY <1>3 DEF Ask
<1> QED
  BY <1>3, <1>4, <1>5

LEMMA Dropped ==
    ASSUME PageInv, Drop
    PROVE  PageInv' /\ reader' # "backtest" /\ market' = market
<1>1. PageInv'
  BY DropKeepsPages
<1>2. reader' # "backtest" /\ market' = market
  BY DEF Drop
<1> QED
  BY <1>1, <1>2

LEMMA Stops ==
    ASSUME PageInv, Over
    PROVE  /\ PageInv' /\ reader' # "backtest" /\ market' = market
           /\ task' \notin Loops /\ task' \notin {"screen", "rescreen", "reload"}
           /\ task' # "screen" /\ task' # "rescreen" /\ task' # "reload"
           /\ task' # "load" /\ task' \notin {"load", "rescreen", "reload"}
<1>1. Drop
  BY DEF Over
<1>2. PageInv' /\ reader' # "backtest" /\ market' = market
  BY <1>1, Dropped
<1>3. task' = ""
  BY DEF Over
<1> QED
  BY <1>2, <1>3 DEF Loops

LEMMA NoLoop ==
    ASSUME task = ""
    PROVE  /\ task \notin Loops /\ task \notin {"screen", "rescreen", "reload"}
           /\ task # "screen" /\ task # "rescreen" /\ task # "reload"
           /\ task # "load" /\ task \notin {"load", "rescreen", "reload"}
BY DEF Loops

LEMMA ReadIsReading == Read => Reading
BY DEF Read, Reading

LEMMA KnownStays ==
    ASSUME market' = market, NEW s, NEW list, KnownDays(s, list)
    PROVE  KnownDays(s, list)'
<1>1. PICK raw : NewestDays(s, raw) /\ list = ReadableOf(s, raw)
  BY DEF KnownDays
<1>2. NewestDays(s, raw)'
  BY <1>1 DEF NewestDays, Days
<1>3. \A d : Readable(s, d)' <=> Readable(s, d)
  BY DEF Readable, Listing
<1>4. ReadableOf(s, raw)' = ReadableOf(s, raw)
  <2> DEFINE kept == {i \in DOMAIN raw : Readable(s, raw[i])}
  <2>1. kept' = kept
    BY <1>3
  <2>2. ReadableOf(s, raw) = Picked(raw, kept) /\ ReadableOf(s, raw)' = Picked(raw, kept')
    BY DEF ReadableOf
  <2> HIDE DEF kept
  <2> QED
    BY <2>1, <2>2
<1> QED
  BY <1>1, <1>2, <1>4 DEF KnownDays

LEMMA KnownNext ==
    ASSUME market' = market,
           \A s \in DOMAIN prices' : s \in Stocks /\ KnownDays(s, prices'[s]),
           \A s \in DOMAIN loaded' : s \in Stocks /\ KnownDays(s, loaded'[s])
    PROVE  KnownInv'
<1>1. \A s, list : KnownDays(s, list) => KnownDays(s, list)'
  BY KnownStays
<1>2. \A s \in DOMAIN prices' : s \in Stocks /\ KnownDays(s, prices[s])'
  BY <1>1
<1>3. \A s \in DOMAIN loaded' : s \in Stocks /\ KnownDays(s, loaded[s])'
  BY <1>1
<1> QED
  BY <1>2, <1>3 DEF KnownInv, Stocks

LEMMA KnownSame ==
    ASSUME KnownInv, market' = market, prices' = prices, loaded' = loaded
    PROVE  KnownInv'
<1>1. /\ \A s \in DOMAIN prices' : s \in Stocks /\ KnownDays(s, prices'[s])
      /\ \A s \in DOMAIN loaded' : s \in Stocks /\ KnownDays(s, loaded'[s])
  BY DEF KnownInv
<1> QED
  BY <1>1, KnownNext

LEMMA WatchSame ==
    ASSUME WatchInv, file' = file, watched' = watched, prices' = prices
    PROVE  watched' # <<>> => (file \in Seq(Stocks))' /\ \E extra : Watches(watched, extra)'
BY DEF WatchInv, Watches

LEMMA RowsKnown ==
    ASSUME PageInv, TaskInv, KnownInv, task \in Loops, Reading
    PROVE  \A s \in DOMAIN WithRows : s \in Stocks /\ KnownDays(s, WithRows[s])
<1>1. CASE rows = <<>>
  BY <1>1 DEF WithRows, KnownInv
<1>2. CASE rows # <<>>
  <2> DEFINE new == [s \in {asked} |-> Parsed]
  <2>1. /\ WithRows = [s \in DOMAIN loaded \cup DOMAIN new |->
                         IF s \in DOMAIN new THEN new[s] ELSE loaded[s]]
        /\ DOMAIN new = {asked} /\ new[asked] = Parsed
    BY <1>2 DEF WithRows, Updated
  <2>2. asked \in Stocks
    <3>1. todo \in Seq(Stocks) /\ todo # <<>> /\ asked = Head(todo)
      BY DEF TaskInv
    <3> QED
      BY <3>1, FirstAndRest
  <2>3. KnownDays(asked, Parsed)
    <3>1. NewestDays(asked, rows)
      BY <1>2 DEF PageInv, NewestDays
    <3> QED
      BY <3>1 DEF KnownDays, ReadableOf, Parsed
  <2> HIDE DEF new
  <2> QED
    BY <2>1, <2>2, <2>3 DEF KnownInv
<1> QED
  BY <1>1, <1>2

LEMMA LoopKept ==
    ASSUME PageInv, QueueInv, queue = <<>>, UNCHANGED testVars,
           NEW on \in Seq(Stocks), on # <<>>, NEW who, who # "backtest", Goes(on, who)
    PROVE  PageInv' /\ TaskInv' /\ QueueInv' /\ todo' = on /\ market' = market
<1>1. PageInv' /\ todo' = on /\ asked' = Head(on) /\ reader' = who /\ market' = market
  BY GoesOn
<1>2. queue' = queue /\ report' = report
  BY DEF testVars
<1>3. TaskInv'
  BY <1>1, <1>2 DEF TaskInv
<1>4. QueueInv'
  BY <1>1, <1>2 DEF QueueInv
<1> QED
  BY <1>1, <1>3, <1>4

LEMMA LoopOver ==
    ASSUME PageInv, QueueInv, UNCHANGED testVars, Over
    PROVE  PageInv' /\ TaskInv' /\ QueueInv' /\ market' = market
<1>1. PageInv' /\ reader' # "backtest" /\ market' = market /\ task' \notin Loops
  BY Stops
<1>2. queue' = queue /\ report' = report
  BY DEF testVars
<1>3. TaskInv'
  BY <1>1 DEF TaskInv
<1>4. QueueInv'
  BY <1>1, <1>2 DEF QueueInv
<1> QED
  BY <1>1, <1>3, <1>4

LEMMA NothingJudged ==
    Judged(<<>>) /\ Distinct(<<>>) /\ <<>> \in Seq(Stocks) /\ Unloaded(<<>>)
<1>1. JudgedIn({}, <<>>)
  BY DEF JudgedIn
<1>2. Judged(<<>>)
  <2>1. SymbolsDiffer(<<>>)
    BY DEF SymbolsDiffer
  <2> QED
    BY <1>1, <2>1 DEF Judged
<1>3. Distinct(<<>>) /\ <<>> \in Seq(Stocks)
  BY DEF Distinct
<1> QED
  BY <1>2, <1>3 DEF Unloaded

(***************************************************************************)
(* The screening script.                                                   *)
(***************************************************************************)

LEMMA ScreeningStarts ==
    ASSUME ScreenInv, queue = <<>>, UNCHANGED testVars, StartScreening
    PROVE  ScreenInv'
<1>1. /\ task' = "screen" /\ Goes(Symbols, "screen") /\ watched = <<>>
      /\ found' = found /\ loaded' = loaded /\ file' = file /\ watched' = watched
      /\ prices' = prices
  BY DEF StartScreening
<1>2. found = <<>>
  BY NoLoop DEF StartScreening, ScreenInv, FoundInv
<1>3. PageInv' /\ TaskInv' /\ QueueInv' /\ todo' = Symbols /\ market' = market
  BY <1>1, StocksTyped, LoopKept DEF ScreenInv
<1>4. FileInv'
  BY <1>1 DEF ScreenInv, FileInv, Distinct
<1>5. KnownInv'
  BY <1>1, <1>3, KnownSame DEF ScreenInv
<1>6. Judged(found')
  BY <1>1, <1>2, NothingJudged
<1>7. FoundInv'
  <2>1. /\ Distinct(todo') /\ Judged(found')
        /\ \A i \in 1..Len(found'), j \in DOMAIN todo' : found'[i].symbol # todo'[j]
    BY <1>1, <1>2, <1>3, <1>6, StocksTyped
  <2> QED
    BY <1>1, <2>1 DEF FoundInv, Judged, Distinct, SymbolsDiffer
<1>8. WatchInv'
  BY <1>1 DEF WatchInv
<1> QED
  BY <1>3, <1>4, <1>5, <1>7, <1>8 DEF ScreenInv

\* A stock is judged once: it is not among those still to read.
LEMMA JudgedOnce ==
    ASSUME ScreenInv, task = "screen", Reading
    PROVE  /\ Judged(WithJudgement)
           /\ \A i \in 1..Len(WithJudgement), j \in DOMAIN Tail(todo) :
                 WithJudgement[i].symbol # Tail(todo)[j]
<1> DEFINE e == Judgement(asked, Daily)
<1>1. todo \in Seq(Stocks) /\ todo # <<>> /\ asked = Head(todo)
  BY DEF ScreenInv, TaskInv, Loops
<1>2. /\ Distinct(todo) /\ SymbolsDiffer(found)
      /\ \A i \in 1..Len(found), j \in DOMAIN todo : found[i].symbol # todo[j]
  BY DEF ScreenInv, FoundInv, Judged
<1>3. PICK G : JudgedIn(G, found)
  BY DEF ScreenInv, FoundInv, Judged
<1>4. /\ 1 \in DOMAIN todo /\ asked = todo[1] /\ asked \in Stocks
      /\ \A j \in DOMAIN Tail(todo) : j + 1 \in DOMAIN todo /\ Tail(todo)[j] = todo[j + 1]
      /\ \A j \in DOMAIN Tail(todo) : Tail(todo)[j] # asked
  BY <1>1, <1>2, FirstAndRest
<1>5. CASE ~ Judgeable(Daily)
  <2>1. WithJudgement = found
    BY <1>5 DEF WithJudgement
  <2>2. Judged(found)
    BY DEF ScreenInv, FoundInv
  <2> QED
    BY <1>2, <1>4, <2>1, <2>2
<1>6. CASE Judgeable(Daily)
  <2> DEFINE H   == G \cup {e}
             new == Append(found, e)
  <2>1. WithJudgement = new
    BY <1>6 DEF WithJudgement
  <2>2. Comparable(e) /\ e.symbol = asked
    <3>1. Daily \in Seq(DailyPrice)
      BY DailyTyped DEF ScreenInv
    <3> QED
      BY <1>6, <3>1, JudgementComparable DEF Judgement
  <2> HIDE DEF e
  <2>3. found \in Seq(H) /\ e \in H
    <3>1. G \subseteq H /\ found \in Seq(G)
      BY <1>3 DEF JudgedIn
    <3> QED
      BY <3>1, SeqMonotonic
  <2>4. \A x \in H : Comparable(x) /\ x.symbol \in Stocks
    BY <1>3, <1>4, <2>2 DEF JudgedIn
  <2> HIDE DEF H
  <2>5. /\ new \in Seq(H) /\ Len(found) \in Nat /\ Len(new) = Len(found) + 1
        /\ \A i \in 1..(Len(found) + 1) : new[i] = IF i <= Len(found) THEN found[i] ELSE e
        /\ \A i \in 1..(Len(found) + 1) : i <= Len(found) => i \in 1..Len(found)
        /\ \A i \in 1..(Len(found) + 1) : ~(i <= Len(found)) => i = Len(found) + 1
    BY <2>3, OneMore
  <2> HIDE DEF new
  <2>6. JudgedIn(H, new)
    BY <2>4, <2>5 DEF JudgedIn
  <2>7. \A i \in 1..Len(found) : found[i].symbol # asked
    BY <1>2, <1>4
  <2>8. SymbolsDiffer(new)
    <3> SUFFICES ASSUME NEW i \in 1..(Len(found) + 1), NEW j \in 1..(Len(found) + 1),
                        new[i].symbol = new[j].symbol
                 PROVE  i = j
      BY <2>5 DEF SymbolsDiffer
    <3>1. CASE i <= Len(found) /\ j <= Len(found)
      BY <1>2, <2>5, <3>1 DEF SymbolsDiffer
    <3>2. CASE i <= Len(found) /\ ~(j <= Len(found))
      BY <2>2, <2>5, <2>7, <3>2
    <3>3. CASE ~(i <= Len(found)) /\ j <= Len(found)
      BY <2>2, <2>5, <2>7, <3>3
    <3>4. CASE ~(i <= Len(found)) /\ ~(j <= Len(found))
      BY <2>5, <3>4
    <3> QED
      BY <3>1, <3>2, <3>3, <3>4
  <2>9. Judged(new)
    BY <2>6, <2>8 DEF Judged
  <2>10. ASSUME NEW i \in 1..Len(new), NEW j \in DOMAIN Tail(todo)
         PROVE  new[i].symbol # Tail(todo)[j]
    <3>1. CASE i <= Len(found)
      BY <1>2, <1>4, <2>5, <3>1
    <3>2. CASE ~(i <= Len(found))
      BY <1>4, <2>2, <2>5, <3>2
    <3> QED
      BY <3>1, <3>2
  <2> QED
    BY <2>1, <2>9, <2>10
<1> QED
  BY <1>5, <1>6

LEMMA ScreeningGoesOn ==
    ASSUME ScreenInv, queue = <<>>, UNCHANGED testVars, ScreenNext
    PROVE  ScreenInv'
<1>1. /\ task = "screen" /\ task' = "screen" /\ Goes(Tail(todo), "screen") /\ Len(todo) > 1
      /\ found' = WithJudgement /\ loaded' = loaded /\ file' = file
      /\ watched' = watched /\ prices' = prices
  BY DEF ScreenNext
<1>2. Reading
  BY ReadIsReading DEF ScreenNext
<1>3. todo \in Seq(Stocks) /\ todo # <<>> /\ Distinct(todo)
  BY <1>1 DEF ScreenInv, TaskInv, FoundInv, Loops
<1>4. Tail(todo) \in Seq(Stocks) /\ Tail(todo) # <<>> /\ Distinct(Tail(todo))
  BY <1>1, <1>3, FirstAndRest
<1>5. PageInv' /\ TaskInv' /\ QueueInv' /\ todo' = Tail(todo) /\ market' = market
  BY <1>1, <1>4, LoopKept DEF ScreenInv
<1>6. /\ Judged(found')
      /\ \A i \in 1..Len(found'), j \in DOMAIN todo' : found'[i].symbol # todo'[j]
  BY <1>1, <1>2, <1>5, JudgedOnce
<1>7. FoundInv'
  BY <1>1, <1>4, <1>5, <1>6 DEF FoundInv, Judged, JudgedIn, Distinct, SymbolsDiffer
<1>8. FileInv' /\ KnownInv'
  BY <1>1, <1>5, KnownSame DEF ScreenInv, FileInv, Distinct
<1>9. WatchInv'
  BY <1>1 DEF ScreenInv, WatchInv
<1> QED
  BY <1>5, <1>7, <1>8, <1>9 DEF ScreenInv

LEMMA ScreeningSaves ==
    ASSUME ScreenInv, UNCHANGED testVars, ScreenSaves
    PROVE  ScreenInv'
<1>1. /\ task = "screen" /\ Over /\ file' = Picks(WithJudgement) /\ found' = <<>>
      /\ loaded' = loaded /\ watched' = watched /\ prices' = prices
  BY DEF ScreenSaves
<1>2. Reading
  BY ReadIsReading DEF ScreenSaves
<1>3. PageInv' /\ TaskInv' /\ QueueInv' /\ market' = market
  BY <1>1, LoopOver DEF ScreenInv
<1>4. /\ task' \notin {"screen", "rescreen", "reload"} /\ task' # "screen" /\ task' # "rescreen"
      /\ task' # "reload" /\ task' # "load" /\ task' \notin {"load", "rescreen", "reload"}
  BY <1>1, Stops DEF ScreenInv
<1>5. Judged(WithJudgement)
  BY <1>1, <1>2, JudgedOnce
<1>6. Picks(WithJudgement) \in Seq(Stocks) /\ Distinct(Picks(WithJudgement))
  <2>1. PICK G : JudgedIn(G, WithJudgement)
    BY <1>5 DEF Judged
  <2> QED
    BY <1>5, <2>1, PicksIs DEF Judged, JudgedIn
<1>7. FileInv'
  BY <1>1, <1>6 DEF FileInv, Distinct
<1>8. KnownInv'
  BY <1>1, <1>3, KnownSame DEF ScreenInv
<1>9. FoundInv'
  BY <1>1, <1>4 DEF FoundInv
<1>10. WatchInv'
  BY <1>1, <1>4 DEF ScreenInv, WatchInv
<1> QED
  BY <1>3, <1>7, <1>8, <1>9, <1>10 DEF ScreenInv

LEMMA ScreeningDies ==
    ASSUME ScreenInv, UNCHANGED testVars, ScreenDies
    PROVE  ScreenInv'
<1>1. /\ task = "screen" /\ Over /\ found' = <<>> /\ loaded' = loaded /\ file' = file
      /\ watched' = watched /\ prices' = prices
  BY DEF ScreenDies
<1>2. PageInv' /\ TaskInv' /\ QueueInv' /\ market' = market
  BY <1>1, LoopOver DEF ScreenInv
<1>3. /\ task' \notin {"screen", "rescreen", "reload"} /\ task' # "screen" /\ task' # "rescreen"
      /\ task' # "reload" /\ task' # "load" /\ task' \notin {"load", "rescreen", "reload"}
  BY <1>1, Stops DEF ScreenInv
<1>4. FileInv' /\ KnownInv'
  BY <1>1, <1>2, KnownSame DEF ScreenInv, FileInv, Distinct
<1>5. FoundInv'
  BY <1>1, <1>3 DEF FoundInv
<1>6. WatchInv'
  BY <1>1, <1>3 DEF ScreenInv, WatchInv
<1> QED
  BY <1>2, <1>4, <1>5, <1>6 DEF ScreenInv

(***************************************************************************)
(* The trader.                                                             *)
(***************************************************************************)

LEMMA FileNotEmpty ==
    ASSUME FileInv, file \notin {NoFile, <<>>}
    PROVE  file \in Seq(Stocks) /\ file # <<>>
BY DEF FileInv

LEMMA OnlyTheFile ==
    ASSUME file \in Seq(Stocks)
    PROVE  Watches(file, <<>>)
<1>1. file = file \o <<>> /\ <<>> \in Seq(Stocks)
  BY ConcatEmptySeq
<1> QED
  BY <1>1, NothingJudged DEF Watches

LEMMA TraderStarts ==
    ASSUME ScreenInv, queue = <<>>, UNCHANGED testVars, StartTrader
    PROVE  ScreenInv'
<1>1. /\ task' = "load" /\ Goes(file, "trader") /\ watched' = file
      /\ found' = found /\ loaded' = loaded /\ file' = file /\ prices' = prices
  BY DEF StartTrader
<1>2. found = <<>>
  BY NoLoop DEF StartTrader, ScreenInv, FoundInv
<1>3. file \in Seq(Stocks) /\ file # <<>>
  BY FileNotEmpty DEF StartTrader, ScreenInv
<1>4. PageInv' /\ TaskInv' /\ QueueInv' /\ market' = market
  BY <1>1, <1>3, LoopKept DEF ScreenInv
<1>5. FileInv' /\ KnownInv'
  BY <1>1, <1>4, KnownSame DEF ScreenInv, FileInv, Distinct
<1>6. FoundInv'
  BY <1>1, <1>2 DEF FoundInv
<1>7. WatchInv'
  <2>1. Watches(file, <<>>)'
    <3>1. Watches(file, <<>>)
      BY <1>3, OnlyTheFile
    <3> QED
      BY <1>1, <3>1 DEF Watches
  <2> QED
    BY <1>1, <1>3, <2>1 DEF WatchInv
<1> QED
  BY <1>4, <1>5, <1>6, <1>7 DEF ScreenInv

LEMMA LoadingGoesOn ==
    ASSUME ScreenInv, queue = <<>>, UNCHANGED testVars, LoadNext
    PROVE  ScreenInv'
<1>1. /\ task \in {"load", "reload"} /\ task' = task /\ Goes(Tail(todo), "trader")
      /\ Len(todo) > 1
      /\ found' = found /\ loaded' = WithRows /\ file' = file /\ watched' = watched
      /\ prices' = prices
  BY DEF LoadNext
<1>2. Reading /\ task \in Loops
  BY <1>1, ReadIsReading DEF LoadNext, Loops
<1>3. todo \in Seq(Stocks) /\ todo # <<>>
  BY <1>2 DEF ScreenInv, TaskInv
<1>4. Tail(todo) \in Seq(Stocks) /\ Tail(todo) # <<>>
  BY <1>1, <1>3, FirstAndRest
<1>5. PageInv' /\ TaskInv' /\ QueueInv' /\ market' = market
  BY <1>1, <1>4, LoopKept DEF ScreenInv
<1>6. FileInv'
  BY <1>1 DEF ScreenInv, FileInv, Distinct
<1>7. KnownInv'
  <2>1. \A s \in DOMAIN loaded' : s \in Stocks /\ KnownDays(s, loaded'[s])
    BY <1>1, <1>2, RowsKnown DEF ScreenInv
  <2>2. \A s \in DOMAIN prices' : s \in Stocks /\ KnownDays(s, prices'[s])
    BY <1>1 DEF ScreenInv, KnownInv
  <2> QED
    BY <1>5, <2>1, <2>2, KnownNext
<1>8. FoundInv'
  BY <1>1 DEF ScreenInv, FoundInv, Unloaded, Distinct
<1>9. WatchInv'
  BY <1>1 DEF ScreenInv, WatchInv, Watches
<1> QED
  BY <1>5, <1>6, <1>7, <1>8, <1>9 DEF ScreenInv

LEMMA LoadingEnds ==
    ASSUME ScreenInv, UNCHANGED testVars, Loaded
    PROVE  ScreenInv'
<1>1. /\ task = "load" /\ Over /\ prices' = WithRows /\ loaded' = Nothing
      /\ watched' = IF WithRows = Nothing THEN <<>> ELSE watched
      /\ found' = found /\ file' = file
  BY DEF Loaded
<1>2. Reading /\ task \in Loops
  BY <1>1, ReadIsReading DEF Loaded, Loops
<1>3. PageInv' /\ TaskInv' /\ QueueInv' /\ market' = market
  BY <1>1, LoopOver DEF ScreenInv
<1>4. /\ task' \notin {"screen", "rescreen", "reload"} /\ task' # "screen" /\ task' # "rescreen"
      /\ task' # "reload" /\ task' # "load" /\ task' \notin {"load", "rescreen", "reload"}
  BY <1>1, Stops DEF ScreenInv
<1>5. FileInv'
  BY <1>1 DEF ScreenInv, FileInv, Distinct
<1>6. KnownInv'
  <2>1. \A s \in DOMAIN prices' : s \in Stocks /\ KnownDays(s, prices'[s])
    BY <1>1, <1>2, RowsKnown DEF ScreenInv
  <2>2. \A s \in DOMAIN loaded' : s \in Stocks /\ KnownDays(s, loaded'[s])
    BY <1>1 DEF Nothing
  <2> QED
    BY <1>3, <2>1, <2>2, KnownNext
<1>7. found = <<>>
  BY <1>1 DEF ScreenInv, FoundInv
<1>8. FoundInv'
  BY <1>1, <1>4, <1>7 DEF FoundInv
<1>9. WatchInv'
  <2>1. watched = file /\ watched # <<>> /\ file \in Seq(Stocks)
    BY <1>1 DEF ScreenInv, WatchInv
  <2>2. Watches(watched, <<>>)
    BY <2>1, OnlyTheFile
  <2>3. watched' # <<>> => Watches(watched, <<>>)'
    BY <1>1, <2>2 DEF Watches
  <2> QED
    BY <1>1, <1>4, <2>1, <2>3 DEF WatchInv
<1> QED
  BY <1>3, <1>5, <1>6, <1>8, <1>9 DEF ScreenInv

LEMMA TraderStops ==
    ASSUME ScreenInv, UNCHANGED testVars, TraderEnds
    PROVE  ScreenInv'
<1>1. /\ Over /\ watched' = <<>> /\ prices' = Nothing /\ found' = <<>>
      /\ loaded' = Nothing /\ file' = file
  BY DEF TraderEnds
<1>2. PageInv' /\ TaskInv' /\ QueueInv' /\ market' = market
  BY <1>1, LoopOver DEF ScreenInv
<1>3. /\ task' \notin {"screen", "rescreen", "reload"} /\ task' # "screen" /\ task' # "rescreen"
      /\ task' # "reload" /\ task' # "load" /\ task' \notin {"load", "rescreen", "reload"}
  BY <1>1, Stops DEF ScreenInv
<1>4. FileInv'
  BY <1>1 DEF ScreenInv, FileInv, Distinct
<1>5. KnownInv'
  BY <1>1, <1>2, KnownNext DEF Nothing
<1>6. FoundInv'
  BY <1>1, <1>3 DEF FoundInv
<1>7. WatchInv'
  BY <1>1, <1>3 DEF WatchInv
<1> QED
  BY <1>2, <1>4, <1>5, <1>6, <1>7 DEF ScreenInv

LEMMA NotLoadedIs == Unloaded(NotLoaded)
<1> DEFINE G == Stocks \ DOMAIN prices
           positions == {i \in DOMAIN Symbols : Symbols[i] \notin DOMAIN prices}
           p == Picked(Symbols, positions)
<1>1. Symbols \in Seq(Stocks) /\ \A i, j \in DOMAIN Symbols : Symbols[i] = Symbols[j] => i = j
  BY StocksTyped DEF Distinct
<1>2. /\ Len(Symbols) \in Nat /\ DOMAIN Symbols = 1..Len(Symbols)
      /\ \A i \in 1..Len(Symbols) : Symbols[i] \in Stocks
  BY <1>1
<1>3. \A i \in 1..Len(Symbols) : i \in positions => Symbols[i] \in G
  BY <1>2
<1> HIDE DEF positions, G
<1>4. p \in Seq(G)
  BY <1>2, <1>3, PickedFrom
<1>5. Distinct(p)
  BY <1>1, <1>2, PickedDistinct DEF Distinct
<1>6. p = NotLoaded
  BY DEF NotLoaded, positions
<1> HIDE DEF p
<1>7. p \in Seq(Stocks) /\ \A i \in DOMAIN p : p[i] \notin DOMAIN prices
  <2>1. G \subseteq Stocks /\ \A s \in G : s \notin DOMAIN prices
    BY DEF G
  <2>2. p \in Seq(Stocks)
    BY <1>4, <2>1, SeqMonotonic
  <2>3. \A i \in DOMAIN p : p[i] \in G
    BY <1>4
  <2> QED
    BY <2>1, <2>2, <2>3
<1> QED
  BY <1>5, <1>6, <1>7 DEF Unloaded

LEMMA RescreeningStarts ==
    ASSUME ScreenInv, queue = <<>>, UNCHANGED testVars, StartRescreen
    PROVE  ScreenInv'
<1>1. /\ task' = "rescreen" /\ Goes(NotLoaded, "rescreen") /\ NotLoaded # <<>>
      /\ watched # <<>>
      /\ found' = found /\ loaded' = loaded /\ file' = file /\ watched' = watched
      /\ prices' = prices
  BY DEF StartRescreen
<1>2. found = <<>>
  BY NoLoop DEF StartRescreen, ScreenInv, FoundInv
<1>3. NotLoaded \in Seq(Stocks) /\ Unloaded(NotLoaded)
  BY NotLoadedIs DEF Unloaded
<1>4. PageInv' /\ TaskInv' /\ QueueInv' /\ todo' = NotLoaded /\ market' = market
  BY <1>1, <1>3, LoopKept DEF ScreenInv
<1>5. FileInv' /\ KnownInv'
  BY <1>1, <1>4, KnownSame DEF ScreenInv, FileInv, Distinct
<1>6. FoundInv'
  <2>1. Unloaded(NotLoaded) /\ Unloaded(found)
    BY <1>2, <1>3, NothingJudged
  <2> HIDE DEF NotLoaded
  <2>2. Unloaded(todo)' /\ Unloaded(found)'
    BY <1>1, <1>4, <2>1 DEF Unloaded, Distinct
  <2>3. \A i \in DOMAIN found', j \in DOMAIN todo' : found'[i] # todo'[j]
    BY <1>1, <1>2
  <2> QED
    BY <1>1, <2>2, <2>3 DEF FoundInv
<1>7. WatchInv'
  BY <1>1 DEF ScreenInv, WatchInv, Watches
<1> QED
  BY <1>4, <1>5, <1>6, <1>7 DEF ScreenInv

\* A stock passes at most once and has no prices.
LEMMA PassesOnce ==
    ASSUME ScreenInv, task = "rescreen"
    PROVE  /\ Unloaded(WithPass)
           /\ \A i \in DOMAIN WithPass, j \in DOMAIN Tail(todo) : WithPass[i] # Tail(todo)[j]
<1>1. todo \in Seq(Stocks) /\ todo # <<>> /\ asked = Head(todo)
  BY DEF ScreenInv, TaskInv, Loops
<1>2. /\ Distinct(todo) /\ found \in Seq(Stocks) /\ Distinct(found)
      /\ \A i \in DOMAIN todo : todo[i] \notin DOMAIN prices
      /\ \A i \in DOMAIN found : found[i] \notin DOMAIN prices
      /\ \A i \in DOMAIN found, j \in DOMAIN todo : found[i] # todo[j]
  BY DEF ScreenInv, FoundInv, Unloaded
<1>3. /\ 1 \in DOMAIN todo /\ asked = todo[1] /\ asked \in Stocks
      /\ \A j \in DOMAIN Tail(todo) : j + 1 \in DOMAIN todo /\ Tail(todo)[j] = todo[j + 1]
      /\ \A j \in DOMAIN Tail(todo) : Tail(todo)[j] # asked
  BY <1>1, <1>2, FirstAndRest
<1>4. CASE WithPass = found
  BY <1>2, <1>3, <1>4 DEF Unloaded
<1>5. CASE WithPass = Append(found, asked)
  <2> DEFINE new == Append(found, asked)
  <2>1. /\ new \in Seq(Stocks) /\ DOMAIN new = 1..(Len(found) + 1) /\ Len(found) \in Nat
        /\ DOMAIN found = 1..Len(found)
        /\ \A i \in 1..(Len(found) + 1) : new[i] = IF i <= Len(found) THEN found[i] ELSE asked
        /\ \A i \in 1..(Len(found) + 1) : i <= Len(found) => i \in 1..Len(found)
        /\ \A i \in 1..(Len(found) + 1) : ~(i <= Len(found)) => i = Len(found) + 1
    BY <1>2, <1>3, OneMore
  <2> HIDE DEF new
  <2>2. \A i \in DOMAIN found : found[i] # asked
    BY <1>2, <1>3
  <2>3. Distinct(new)
    <3> SUFFICES ASSUME NEW i \in DOMAIN new, NEW j \in DOMAIN new, new[i] = new[j]
                 PROVE  i = j
      BY DEF Distinct
    <3>1. CASE i <= Len(found) /\ j <= Len(found)
      BY <1>2, <2>1, <3>1 DEF Distinct
    <3>2. CASE i <= Len(found) /\ ~(j <= Len(found))
      BY <2>1, <2>2, <3>2
    <3>3. CASE ~(i <= Len(found)) /\ j <= Len(found)
      BY <2>1, <2>2, <3>3
    <3>4. CASE ~(i <= Len(found)) /\ ~(j <= Len(found))
      BY <2>1, <3>4
    <3> QED
      BY <3>1, <3>2, <3>3, <3>4
  <2>4. ASSUME NEW i \in DOMAIN new
        PROVE  /\ new[i] \notin DOMAIN prices
               /\ \A j \in DOMAIN Tail(todo) : new[i] # Tail(todo)[j]
    <3>1. CASE i <= Len(found)
      BY <1>2, <1>3, <2>1, <3>1
    <3>2. CASE ~(i <= Len(found))
      BY <1>2, <1>3, <2>1, <3>2
    <3> QED
      BY <3>1, <3>2
  <2>5. Unloaded(new)
    BY <2>1, <2>3, <2>4 DEF Unloaded
  <2>6. WithPass = new
    BY <1>5 DEF new
  <2> QED
    BY <2>4, <2>5, <2>6
<1>6. WithPass = found \/ WithPass = Append(found, asked)
  BY DEF WithPass
<1> QED
  BY <1>4, <1>5, <1>6

LEMMA RescreeningGoesOn ==
    ASSUME ScreenInv, queue = <<>>, UNCHANGED testVars, RescreenNext
    PROVE  ScreenInv'
<1>1. /\ task = "rescreen" /\ task' = "rescreen" /\ Goes(Tail(todo), "rescreen")
      /\ Len(todo) > 1 /\ found' = WithPass
      /\ loaded' = loaded /\ file' = file /\ watched' = watched /\ prices' = prices
  BY DEF RescreenNext
<1>2. todo \in Seq(Stocks) /\ todo # <<>> /\ Unloaded(todo)
  BY <1>1 DEF ScreenInv, TaskInv, FoundInv, Loops
<1>3. /\ Tail(todo) \in Seq(Stocks) /\ Tail(todo) # <<>> /\ Distinct(Tail(todo))
      /\ \A i \in DOMAIN Tail(todo) : i + 1 \in DOMAIN todo /\ Tail(todo)[i] = todo[i + 1]
  BY <1>1, <1>2, FirstAndRest DEF Unloaded
<1>4. Unloaded(Tail(todo))
  BY <1>2, <1>3 DEF Unloaded
<1>5. PageInv' /\ TaskInv' /\ QueueInv' /\ todo' = Tail(todo) /\ market' = market
  BY <1>1, <1>3, LoopKept DEF ScreenInv
<1>6. FileInv' /\ KnownInv'
  BY <1>1, <1>5, KnownSame DEF ScreenInv, FileInv, Distinct
<1>7. FoundInv'
  <2>1. Unloaded(todo)'
    BY <1>1, <1>4, <1>5 DEF Unloaded, Distinct
  <2>2. Unloaded(WithPass)
    BY <1>1, PassesOnce
  <2>3. Unloaded(found)'
    BY <1>1, <2>2 DEF Unloaded, Distinct
  <2>4. \A i \in DOMAIN found', j \in DOMAIN todo' : found'[i] # todo'[j]
    BY <1>1, <1>5, PassesOnce
  <2> QED
    BY <1>1, <2>1, <2>3, <2>4 DEF FoundInv
<1>8. WatchInv'
  BY <1>1 DEF ScreenInv, WatchInv, Watches
<1> QED
  BY <1>5, <1>6, <1>7, <1>8 DEF ScreenInv

LEMMA RescreeningEnds ==
    ASSUME ScreenInv, queue = <<>>, UNCHANGED testVars, Rescreened
    PROVE  ScreenInv'
<1>1. /\ task = "rescreen" /\ found' = WithPass
      /\ loaded' = loaded /\ file' = file /\ watched' = watched /\ prices' = prices
      /\ IF WithPass = <<>> THEN Over ELSE task' = "reload" /\ Goes(WithPass, "trader")
  BY DEF Rescreened
<1>2. Unloaded(WithPass)
  BY <1>1, PassesOnce
<1>3. FileInv'
  BY <1>1 DEF ScreenInv, FileInv, Distinct
<1>4. CASE WithPass = <<>>
  <2>1. PageInv' /\ TaskInv' /\ QueueInv' /\ market' = market
    BY <1>1, <1>4, LoopOver DEF ScreenInv
  <2>2. /\ task' \notin {"screen", "rescreen", "reload"} /\ task' # "screen" /\ task' # "rescreen"
        /\ task' # "reload" /\ task' # "load" /\ task' \notin {"load", "rescreen", "reload"}
    BY <1>1, <1>4, Stops DEF ScreenInv
  <2>3. KnownInv'
    BY <1>1, <2>1, KnownSame DEF ScreenInv
  <2>4. FoundInv'
    BY <1>1, <1>4, <2>2 DEF FoundInv
  <2>5. WatchInv'
    BY <1>1, <2>2 DEF ScreenInv, WatchInv, Watches
  <2> QED
    BY <1>3, <2>1, <2>3, <2>4, <2>5 DEF ScreenInv
<1>5. CASE WithPass # <<>>
  <2>1. WithPass \in Seq(Stocks)
    BY <1>2 DEF Unloaded
  <2>2. PageInv' /\ TaskInv' /\ QueueInv' /\ market' = market
    BY <1>1, <1>5, <2>1, LoopKept DEF ScreenInv
  <2>3. KnownInv'
    BY <1>1, <2>2, KnownSame DEF ScreenInv
  <2>4. FoundInv'
    <3>1. Unloaded(found)' /\ task' = "reload"
      BY <1>1, <1>2, <1>5 DEF Unloaded, Distinct
    <3> QED
      BY <3>1 DEF FoundInv
  <2>5. WatchInv'
    BY <1>1, <1>5 DEF ScreenInv, WatchInv, Watches
  <2> QED
    BY <1>3, <2>2, <2>3, <2>4, <2>5 DEF ScreenInv
<1> QED
  BY <1>4, <1>5

LEMMA AddedIs ==
    ASSUME NEW new, Unloaded(found)
    PROVE  /\ Added(new) \in Seq(Stocks) /\ Distinct(Added(new))
           /\ \A i \in DOMAIN Added(new) :
                 Added(new)[i] \in DOMAIN new /\ Added(new)[i] \notin DOMAIN prices
<1> DEFINE G == (Stocks \cap DOMAIN new) \ DOMAIN prices
           positions == {i \in DOMAIN found : found[i] \in DOMAIN new}
           p == Picked(found, positions)
<1>1. /\ found \in Seq(Stocks) /\ \A i, j \in DOMAIN found : found[i] = found[j] => i = j
      /\ \A i \in DOMAIN found : found[i] \notin DOMAIN prices
  BY DEF Unloaded, Distinct
<1>2. /\ Len(found) \in Nat /\ DOMAIN found = 1..Len(found)
      /\ \A i \in 1..Len(found) : found[i] \in Stocks
  BY <1>1
<1>3. \A i \in 1..Len(found) : i \in positions => found[i] \in G
  BY <1>1, <1>2
<1>4. G \subseteq Stocks /\ \A s \in G : s \in DOMAIN new /\ s \notin DOMAIN prices
  OBVIOUS
<1>5. Added(new) = p
  BY DEF Added
<1> HIDE DEF positions, G
<1>6. p \in Seq(G)
  BY <1>2, <1>3, PickedFrom
<1>7. Distinct(p)
  BY <1>1, <1>2, PickedDistinct DEF Distinct
<1> HIDE DEF p
<1>8. p \in Seq(Stocks) /\ \A i \in DOMAIN p : p[i] \in G
  BY <1>4, <1>6, SeqMonotonic
<1> QED
  BY <1>4, <1>5, <1>7, <1>8

LEMMA ReloadingEnds ==
    ASSUME ScreenInv, UNCHANGED testVars, Reloaded
    PROVE  ScreenInv'
<1>1. /\ task = "reload" /\ Over /\ prices' = Updated(prices, WithRows)
      /\ watched' = watched \o Added(WithRows) /\ found' = <<>> /\ loaded' = Nothing
      /\ file' = file
  BY DEF Reloaded
<1>2. Reading /\ task \in Loops
  BY <1>1, ReadIsReading DEF Reloaded, Loops
<1>3. PageInv' /\ TaskInv' /\ QueueInv' /\ market' = market
  BY <1>1, LoopOver DEF ScreenInv
<1>4. /\ task' \notin {"screen", "rescreen", "reload"} /\ task' # "screen" /\ task' # "rescreen"
      /\ task' # "reload" /\ task' # "load" /\ task' \notin {"load", "rescreen", "reload"}
  BY <1>1, Stops DEF ScreenInv
<1>5. FileInv'
  BY <1>1 DEF ScreenInv, FileInv, Distinct
<1>6. FoundInv'
  BY <1>1, <1>4 DEF FoundInv
<1>7. \A s \in DOMAIN WithRows : s \in Stocks /\ KnownDays(s, WithRows[s])
  BY <1>2, RowsKnown DEF ScreenInv
<1>8. Unloaded(found)
  BY <1>1 DEF ScreenInv, FoundInv
<1> DEFINE new == WithRows
           more == Added(new)
<1> HIDE DEF new
<1>9. /\ prices' = [s \in DOMAIN prices \cup DOMAIN new |->
                      IF s \in DOMAIN new THEN new[s] ELSE prices[s]]
      /\ DOMAIN prices' = DOMAIN prices \cup DOMAIN new
  BY <1>1 DEF Updated, new
<1>10. KnownInv'
  <2>1. \A s \in DOMAIN prices' : s \in Stocks /\ KnownDays(s, prices'[s])
    BY <1>7, <1>9 DEF ScreenInv, KnownInv, new
  <2>2. \A s \in DOMAIN loaded' : s \in Stocks /\ KnownDays(s, loaded'[s])
    BY <1>1 DEF Nothing
  <2> QED
    BY <1>3, <2>1, <2>2, KnownNext
<1>11. /\ more \in Seq(Stocks) /\ Distinct(more)
       /\ \A i \in DOMAIN more : more[i] \in DOMAIN new /\ more[i] \notin DOMAIN prices
  BY <1>8, AddedIs
<1> HIDE DEF more
<1>12. watched # <<>> /\ file \in Seq(Stocks)
  BY <1>1 DEF ScreenInv, WatchInv
<1>13. PICK extra : Watches(watched, extra)
  BY <1>1 DEF ScreenInv, WatchInv
<1>14. WatchInv'
  <2> DEFINE both == extra \o more
  <2>1. /\ extra \in Seq(Stocks) /\ Distinct(extra) /\ watched = file \o extra
        /\ \A i \in DOMAIN extra : extra[i] \in DOMAIN prices
    BY <1>13 DEF Watches
  <2>2. both \in Seq(Stocks) /\ Distinct(both)
    <3>1. \A i \in DOMAIN extra, j \in DOMAIN more : extra[i] # more[j]
      BY <1>11, <2>1
    <3> QED
      BY <1>11, <2>1, <3>1, DistinctConcat, ConcatProperties
  <2>3. watched' = file \o both
    <3>1. (file \o extra) \o more = file \o (extra \o more)
      BY <1>11, <1>12, <2>1, ConcatAssociative
    <3> QED
      BY <1>1, <2>1, <3>1 DEF more, new
  <2>4. \A i \in DOMAIN both : both[i] \in DOMAIN prices'
    <3>1. /\ DOMAIN both = 1..(Len(extra) + Len(more))
          /\ \A i \in 1..(Len(extra) + Len(more)) :
                both[i] = IF i <= Len(extra) THEN extra[i] ELSE more[i - Len(extra)]
          /\ DOMAIN extra = 1..Len(extra) /\ Len(extra) \in Nat
          /\ DOMAIN more = 1..Len(more) /\ Len(more) \in Nat
      <4>1. /\ Len(both) = Len(extra) + Len(more)
            /\ \A i \in 1..(Len(extra) + Len(more)) :
                  both[i] = IF i <= Len(extra) THEN extra[i] ELSE more[i - Len(extra)]
        BY <1>11, <2>1, ConcatProperties
      <4>2. DOMAIN both = 1..Len(both)
        BY <2>2, LenProperties
      <4>3. /\ DOMAIN extra = 1..Len(extra) /\ Len(extra) \in Nat
            /\ DOMAIN more = 1..Len(more) /\ Len(more) \in Nat
        BY <1>11, <2>1, LenProperties
      <4> QED
        BY <4>1, <4>2, <4>3
    <3> HIDE DEF both
    <3>2. ASSUME NEW i \in DOMAIN both PROVE both[i] \in DOMAIN prices'
      <4>1. CASE i <= Len(extra)
        BY <1>9, <2>1, <3>1, <4>1
      <4>2. CASE ~(i <= Len(extra))
        <5>1. i - Len(extra) \in DOMAIN more
          BY <3>1, <4>2
        <5> QED
          BY <1>9, <1>11, <3>1, <4>2, <5>1
      <4> QED
        BY <4>1, <4>2
    <3> QED
      BY <3>2
  <2> HIDE DEF both
  <2>5. PICK b : b = both
    OBVIOUS
  <2>6. Watches(watched, b)'
    BY <1>1, <2>2, <2>3, <2>4, <2>5 DEF Watches, Distinct
  <2> QED
    BY <1>1, <1>4, <1>12, <2>6 DEF WatchInv
<1> QED
  BY <1>3, <1>5, <1>6, <1>10, <1>14 DEF ScreenInv

(***************************************************************************)
(* The steps of the others.                                                *)
(***************************************************************************)

LEMMA PagesKeep ==
    ASSUME ScreenInv, Reads, UNCHANGED testVars
    PROVE  ScreenInv'
<1>1. /\ task' = task /\ todo' = todo /\ found' = found /\ loaded' = loaded /\ file' = file
      /\ watched' = watched /\ prices' = prices
      /\ queue' = queue /\ report' = report
      /\ market' = market /\ reader' = reader /\ asked' = asked
  BY DEF Reads, screenVars, testVars, PageArrives, PageFails
<1>2. PageInv'
  BY ReadingKeepsPages DEF Reads, ScreenInv
<1>3. TaskInv' /\ QueueInv' /\ FileInv'
  BY <1>1 DEF ScreenInv, TaskInv, QueueInv, FileInv, Distinct
<1>4. KnownInv'
  BY <1>1, KnownSame DEF ScreenInv
<1>5. FoundInv'
  BY <1>1 DEF ScreenInv, FoundInv, Judged, JudgedIn, SymbolsDiffer, Unloaded, Distinct
<1>6. WatchInv'
  BY <1>1 DEF ScreenInv, WatchInv, Watches
<1> QED
  BY <1>2, <1>3, <1>4, <1>5, <1>6 DEF ScreenInv

\* What a backtest does leaves the screening and the trader alone.
LEMMA OthersKept ==
    ASSUME ScreenInv, UNCHANGED screenVars, market' = market,
           PageInv', TaskInv', QueueInv'
    PROVE  ScreenInv'
<1>1. /\ task' = task /\ todo' = todo /\ found' = found /\ loaded' = loaded /\ file' = file
      /\ watched' = watched /\ prices' = prices
  BY DEF screenVars
<1>2. FileInv'
  BY <1>1 DEF ScreenInv, FileInv, Distinct
<1>3. KnownInv'
  BY <1>1, KnownSame DEF ScreenInv
<1>4. FoundInv'
  BY <1>1 DEF ScreenInv, FoundInv, Judged, JudgedIn, SymbolsDiffer, Unloaded, Distinct
<1>5. WatchInv'
  BY <1>1 DEF ScreenInv, WatchInv, Watches
<1> QED
  BY <1>2, <1>3, <1>4, <1>5 DEF ScreenInv

LEMMA TestsIdle ==
    ASSUME ScreenInv, task = ""
    PROVE  task \notin Loops
BY NoLoop

LEMMA BacktestStarts ==
    ASSUME ScreenInv, AutoBacktest
    PROVE  ScreenInv'
<1>1. /\ task = "" /\ file # NoFile /\ queue = <<>> /\ queue' = ScreenedSymbols
      /\ Ask("backtest", Head(ScreenedSymbols)) /\ report' = report
      /\ UNCHANGED screenVars
  BY DEF AutoBacktest, StartBacktest
<1>2. ScreenedSymbols \in Seq(Tested) /\ ScreenedSymbols # <<>>
  <2>1. file \in Seq(Stocks)
    BY <1>1 DEF ScreenInv, FileInv
  <2>2. file \in Seq(Tested)
    BY <2>1, SeqMonotonic DEF Tested
  <2> QED
    BY <2>2, StocksTyped DEF ScreenedSymbols
<1>3. PageInv'
  <2>1. Head(ScreenedSymbols) \in Tested
    BY <1>2, FirstAndRest
  <2> QED
    BY <1>1, <2>1, StocksInMarket, AskKeepsPages DEF ScreenInv
<1>4. QueueInv'
  BY <1>1, <1>2 DEF QueueInv
<1>5. TaskInv'
  BY <1>1, NoLoop DEF TaskInv, screenVars
<1>6. market' = market
  BY <1>1 DEF Ask
<1> QED
  BY <1>1, <1>3, <1>4, <1>5, <1>6, OthersKept

LEMMA NextTest ==
    ASSUME ScreenInv, queue # <<>>, NextStock, UNCHANGED screenVars
    PROVE  ScreenInv'
<1>1. queue \in Seq(Tested) /\ task \notin Loops /\ task' = task
  BY DEF ScreenInv, QueueInv, TaskInv, screenVars
<1>2. /\ Tail(queue) \in Seq(Tested)
      /\ Len(queue) > 1 => Tail(queue) # <<>> /\ 2 \in DOMAIN queue /\ queue[2] \in Tested
  BY <1>1, FirstAndRest
<1>3. queue' = Tail(queue) /\ report' = NoReport
  BY DEF NextStock
<1>4. TaskInv'
  BY <1>1 DEF TaskInv
<1>5. CASE Len(queue) > 1
  <2>1. Ask("backtest", queue[2])
    BY <1>5 DEF NextStock
  <2>2. PageInv' /\ market' = market
    BY <1>2, <1>5, <2>1, StocksInMarket, AskKeepsPages DEF ScreenInv, Ask
  <2>3. QueueInv'
    BY <1>2, <1>3, <1>5 DEF QueueInv
  <2> QED
    BY <1>4, <2>2, <2>3, OthersKept
<1>6. CASE ~(Len(queue) > 1)
  <2>1. Drop
    BY <1>6 DEF NextStock
  <2>2. PageInv' /\ reader' # "backtest" /\ market' = market
    BY <2>1, Dropped DEF ScreenInv
  <2>3. QueueInv'
    BY <1>2, <1>3, <2>2 DEF QueueInv
  <2> QED
    BY <1>4, <2>2, <2>3, OthersKept
<1> QED
  BY <1>5, <1>6

LEMMA TestsKeep ==
    ASSUME ScreenInv, BacktestStep, UNCHANGED screenVars
    PROVE  ScreenInv'
<1>1. queue # <<>> /\ task' = task /\ task \notin Loops
  <2>1. queue # <<>>
    BY DEF BacktestStep, CollectFails, DailyCollected, NoMinutes, NextBar, LastBar, Done,
           Collected, ScreenInv, QueueInv
  <2> QED
    BY <2>1 DEF ScreenInv, TaskInv, screenVars
<1>2. CASE NextStock
  BY <1>1, <1>2, NextTest
<1>3. CASE DailyCollected
  <2>1. Drop /\ queue' = queue
    BY <1>3 DEF DailyCollected
  <2>2. PageInv' /\ market' = market
    BY <2>1, Dropped DEF ScreenInv
  <2>3. TaskInv' /\ QueueInv'
    BY <1>1, <2>1 DEF ScreenInv, TaskInv, QueueInv
  <2> QED
    BY <2>2, <2>3, OthersKept
<1>4. CASE NextBar \/ LastBar
  <2>1. queue' = queue /\ UNCHANGED pageVars
    BY <1>4 DEF NextBar, LastBar
  <2>2. PageInv' /\ market' = market
    BY <2>1, SamePages DEF ScreenInv, pageVars
  <2>3. TaskInv' /\ QueueInv'
    BY <1>1, <2>1 DEF ScreenInv, TaskInv, QueueInv
  <2> QED
    BY <2>2, <2>3, OthersKept
<1> QED
  BY <1>2, <1>3, <1>4 DEF BacktestStep, CollectFails, NoMinutes, Done

LEMMA ScreenInvInit == Init => ScreenInv
<1> SUFFICES ASSUME Init PROVE ScreenInv
  OBVIOUS
<1>0. reader = "" /\ task = ""
  BY DEF Init, PagesInit, ScreeningInit
<1>1. /\ market \in Markets /\ inclusive \in BOOLEAN
      /\ found = <<>> /\ loaded = Nothing /\ file = NoFile
      /\ watched = <<>> /\ prices = Nothing
      /\ queue = <<>> /\ report = NoReport
  BY DEF Init, PagesInit, ScreeningInit, BacktestInit
<1>2. task \notin Loops /\ task # "screen" /\ task # "load" /\ task # "reload"
      /\ task # "rescreen" /\ task \notin {"screen", "rescreen", "reload"}
      /\ task \notin {"load", "rescreen", "reload"}
  BY <1>0, NoLoop
<1>3. reader # "backtest" /\ ~ Reading
  BY <1>0 DEF Reading
<1>4. PageInv /\ TaskInv /\ QueueInv
  BY <1>1, <1>2, <1>3 DEF PageInv, TaskInv, QueueInv
<1>5. FileInv
  BY <1>1 DEF FileInv, NoFile, Distinct
<1>6. KnownInv
  BY <1>1 DEF KnownInv, Nothing
<1>7. FoundInv /\ WatchInv
  BY <1>1, <1>2 DEF FoundInv, WatchInv
<1> QED
  BY <1>4, <1>5, <1>6, <1>7 DEF ScreenInv

LEMMA ScreenInvStep == ScreenInv /\ [Next]_vars => ScreenInv'
<1> SUFFICES ASSUME ScreenInv, [Next]_vars PROVE ScreenInv'
  OBVIOUS
<1>1. CASE queue = <<>> /\ ScreeningStep /\ UNCHANGED testVars
  BY <1>1, ScreeningStarts, ScreeningGoesOn, ScreeningSaves, ScreeningDies, TraderStarts,
     LoadingGoesOn, LoadingEnds, RescreeningStarts, RescreeningGoesOn, RescreeningEnds,
     ReloadingEnds, TraderStops DEF ScreeningStep
<1>2. CASE Reads /\ UNCHANGED testVars
  BY <1>2, PagesKeep
<1>3. CASE AutoBacktest
  BY <1>3, BacktestStarts
<1>4. CASE BacktestStep /\ UNCHANGED screenVars
  BY <1>4, TestsKeep
<1>5. CASE UNCHANGED otherVars
  <2>1. UNCHANGED pageVars /\ UNCHANGED screenVars /\ UNCHANGED testVars
    BY <1>5 DEF otherVars
  <2>2. PageInv' /\ market' = market /\ reader' = reader /\ asked' = asked
    BY <2>1, SamePages DEF ScreenInv, pageVars
  <2>3. TaskInv' /\ QueueInv'
    BY <2>1, <2>2 DEF ScreenInv, TaskInv, QueueInv, screenVars, testVars
  <2> QED
    BY <2>1, <2>2, <2>3, OthersKept
<1> QED
  BY <1>1, <1>2, <1>3, <1>4, <1>5 DEF Next, DailyStep, vars

-----------------------------------------------------------------------------
(***************************************************************************)
(* The watch list and the prices.                                          *)
(***************************************************************************)

Positions(list, x) == {i \in DOMAIN list : list[i] = x}

\* In two lists without repetitions there is a stock at most twice.
LEMMA TwicePositions ==
    ASSUME NEW S, NEW s \in Seq(S), NEW t \in Seq(S), Distinct(s), Distinct(t), NEW x
    PROVE  /\ Cardinality(Positions(s \o t, x)) \in Nat
           /\ Cardinality(Positions(s \o t, x)) <= 2
           /\ Cardinality(Positions(s \o t, x)) = 2 => /\ \E i \in DOMAIN s : s[i] = x
                                                       /\ \E j \in DOMAIN t : t[j] = x
<1> DEFINE c     == s \o t
           n     == Len(s)
           at    == Positions(c, x)
           left  == {i \in DOMAIN c : i <= n /\ c[i] = x}
           right == {i \in DOMAIN c : ~(i <= n) /\ c[i] = x}
<1>1. /\ \A i \in DOMAIN c : i <= n => i \in DOMAIN s /\ c[i] = s[i]
      /\ \A i \in DOMAIN c : ~(i <= n) => i - n \in DOMAIN t /\ c[i] = t[i - n]
      /\ n \in Nat /\ DOMAIN c \subseteq Nat
  <2>1. c \in Seq(S)
    BY ConcatProperties
  <2>2. DOMAIN c = 1..Len(c)
    BY <2>1, LenProperties
  <2>3. /\ Len(c) = n + Len(t)
        /\ \A i \in 1..(n + Len(t)) : c[i] = IF i <= n THEN s[i] ELSE t[i - n]
    BY ConcatProperties
  <2>4. n \in Nat /\ Len(t) \in Nat /\ DOMAIN s = 1..n /\ DOMAIN t = 1..Len(t)
    BY LenProperties
  <2> HIDE DEF c, n
  <2> QED
    BY <2>2, <2>3, <2>4
<1> HIDE DEF c, n
<1>2. \A i, j \in left : i = j
  BY <1>1 DEF Distinct
<1>3. \A i, j \in right : i = j
  <2> SUFFICES ASSUME NEW i \in right, NEW j \in right PROVE i = j
    OBVIOUS
  <2>1. i - n = j - n
    BY <1>1 DEF Distinct
  <2> QED
    BY <1>1, <2>1
<1>4. at = left \cup right
  BY <1>1 DEF Positions
<1>5. left # {} => \E i \in DOMAIN s : s[i] = x
  BY <1>1
<1>6. right # {} => \E j \in DOMAIN t : t[j] = x
  <2> SUFFICES ASSUME NEW i \in right PROVE \E j \in DOMAIN t : t[j] = x
    OBVIOUS
  <2>1. i - n \in DOMAIN t /\ t[i - n] = x
    BY <1>1
  <2> QED
    BY <2>1
<1> HIDE DEF left, right, at
<1>7. CASE left = {} /\ right = {}
  <2>1. at = {}
    BY <1>4, <1>7
  <2>2. Cardinality(at) = 0
    BY <2>1, FS_EmptySet
  <2> QED
    BY <2>2 DEF at, c
<1>8. CASE left = {} /\ right # {}
  <2>1. PICK i : i \in right
    BY <1>8
  <2>2. at = {i}
    BY <1>3, <1>4, <1>8, <2>1
  <2>3. Cardinality(at) = 1
    BY <2>2, FS_Singleton
  <2> QED
    BY <2>3 DEF at, c
<1>9. CASE left # {} /\ right = {}
  <2>1. PICK i : i \in left
    BY <1>9
  <2>2. at = {i}
    BY <1>2, <1>4, <1>9, <2>1
  <2>3. Cardinality(at) = 1
    BY <2>2, FS_Singleton
  <2> QED
    BY <2>3 DEF at, c
<1>10. CASE left # {} /\ right # {}
  <2>1. PICK i, j : at = {i} \cup {j}
    <3>1. PICK i \in left, j \in right : TRUE
      BY <1>10
    <3>2. left = {i} /\ right = {j}
      BY <1>2, <1>3, <3>1
    <3> QED
      BY <1>4, <3>2
  <2>2. IsFiniteSet({i}) /\ Cardinality({i}) = 1
    BY FS_Singleton
  <2>3. Cardinality(at) = 1 \/ Cardinality(at) = 2
    <3> DEFINE one == {i}
    <3> HIDE DEF one
    <3>1. Cardinality(one \cup {j}) = IF j \in one THEN Cardinality(one) ELSE Cardinality(one) + 1
      BY <2>2, FS_AddElement DEF one
    <3>2. at = one \cup {j} /\ Cardinality(one) = 1
      BY <2>1, <2>2 DEF one
    <3> QED
      BY <3>1, <3>2
  <2> QED
    BY <1>5, <1>6, <1>10, <2>3 DEF at, c
<1> QED
  BY <1>7, <1>8, <1>9, <1>10

LEMMA WatchedBounded == ScreenInv => WatchedTwiceOnlyIfUnloaded
<1> SUFFICES ASSUME ScreenInv, NEW s \in ToSet(watched)
             PROVE  LET times == Cardinality({i \in DOMAIN watched : watched[i] = s})
                    IN  times <= 2 /\ (times = 2 => s \in ToSet(file) /\ s \in DOMAIN prices)
  BY DEF WatchedTwiceOnlyIfUnloaded
<1>1. watched # <<>>
  BY DEF ToSet
<1>2. file \in Seq(Stocks) /\ Distinct(file)
  BY <1>1 DEF ScreenInv, WatchInv, FileInv
<1>3. PICK extra : Watches(watched, extra)
  BY <1>1 DEF ScreenInv, WatchInv
<1>4. /\ extra \in Seq(Stocks) /\ Distinct(extra) /\ watched = file \o extra
      /\ \A i \in DOMAIN extra : extra[i] \in DOMAIN prices
  BY <1>3 DEF Watches
<1> DEFINE times == Cardinality({i \in DOMAIN watched : watched[i] = s})
<1>5. /\ times <= 2
      /\ times = 2 => /\ \E i \in DOMAIN file : file[i] = s
                      /\ \E j \in DOMAIN extra : extra[j] = s
  <2>1. times = Cardinality(Positions(watched, s))
    BY Zenon DEF Positions
  <2> HIDE DEF times
  <2> QED
    BY <1>2, <1>4, <2>1, TwicePositions
<1> HIDE DEF times
<1>6. times = 2 => s \in ToSet(file) /\ s \in DOMAIN prices
  BY <1>4, <1>5 DEF ToSet
<1> QED
  BY <1>5, <1>6 DEF times

\* The days of an average are among the readable ones of the newest page.
LEMMA NewestOnce ==
    ASSUME PageInv, NEW s \in DOMAIN market, NEW raw, NEW first \in 1..Len(market[s]),
           Days(raw, first, Len(market[s])), Len(market[s]) >= PageSize,
           Cardinality({d \in (Len(market[s]) - PageSize + 1)..Len(market[s]) :
                           Readable(s, d)}) >= VolumeDays
    PROVE  LET recent == Recent(ReadableOf(s, raw), VolumeDays)
           IN  Cardinality(ToSet(recent)) = Len(recent)
<1> DEFINE last == Len(market[s])
           known == ReadableOf(s, raw)
           kept == {i \in DOMAIN raw : Readable(s, raw[i])}
           n == Len(raw)
           m == Len(known)
           c == n - PageSize
           w == VolumeDays
           r == Recent(known, w)
           page == {d \in (last - PageSize + 1)..last : Readable(s, d)}
           tail == {raw[i] : i \in kept \cap ((c + 1)..n)}
<1>1. /\ raw \in Seq(1..last) /\ n >= PageSize /\ n \in Nat
      /\ \A j \in 0..(PageSize - 1) : raw[n - j] = last - j
  BY DEF Days
<1>2. w \in Nat \ {0} /\ PageSize \in Nat \ {0} /\ last \in Nat
  BY MarketTyped, StrategiesAssumption, PageAssumption
     DEF StrategiesAssumption, PageAssumption
<1>3. c \in 0..n /\ DOMAIN raw = 1..n
  BY <1>1, <1>2
<1>4. \A i \in (c + 1)..n : raw[i] = last - (n - i)
  <2> SUFFICES ASSUME NEW i \in (c + 1)..n PROVE raw[i] = last - (n - i)
    OBVIOUS
  <2>1. n - i \in 0..(PageSize - 1) /\ n - (n - i) = i
    BY <1>1, <1>2
  <2> QED
    BY <1>1, <2>1
<1>5. \A i, j \in (c + 1)..n : raw[i] = raw[j] => i = j
  BY <1>1, <1>2, <1>4
<1>6. tail = page
  <2>1. ASSUME NEW i \in kept \cap ((c + 1)..n) PROVE raw[i] \in page
    <3>1. Readable(s, raw[i]) /\ i \in (c + 1)..n
      OBVIOUS
    <3>2. raw[i] = last - (n - i)
      BY <1>4, <3>1
    <3>3. last - (n - i) \in (last - PageSize + 1)..last
      <4> HIDE DEF n, last
      <4> QED
        BY <1>1, <1>2, <3>1
    <3> QED
      BY <3>1, <3>2, <3>3
  <2>2. ASSUME NEW d \in page PROVE \E i \in kept \cap ((c + 1)..n) : raw[i] = d
    <3>1. n - (last - d) \in (c + 1)..n /\ last - (n - (n - (last - d))) = d
          /\ n - (last - d) \in 1..n
      BY <1>1, <1>2
    <3>2. raw[n - (last - d)] = d
      BY <1>4, <3>1
    <3>3. n - (last - d) \in kept
      BY <1>3, <3>1, <3>2
    <3> QED
      BY <3>1, <3>2, <3>3
  <2> QED
    BY <2>1, <2>2
<1>7. known = Picked(raw, kept)
  BY DEF ReadableOf
<1>8. known \in Seq(1..last) /\ m \in Nat
  <2>1. known \in Seq({d \in 1..last : Readable(s, d)})
    BY <1>1, ReadableTyped
  <2> QED
    BY <2>1
<1> HIDE DEF kept, page, n, c, known, w
<1>9. PICK k \in 0..m : /\ \A i, j \in (k + 1)..m : known[i] = known[j] => i = j
                        /\ \A i \in (k + 1)..m : known[i] \in tail
                        /\ \A x \in tail : \E i \in (k + 1)..m : known[i] = x
  <2>1. Len(raw) \in Nat /\ c \in 0..Len(raw) /\ DistinctFrom(c, raw)
    BY <1>1, <1>3, <1>5 DEF n, DistinctFrom
  <2> HIDE DEF m
  <2>2. PICK k \in 0..Len(known) : DistinctFrom(k, known) /\ KeptFrom(k, known, c, raw, kept)
    BY <1>7, <2>1, PickedTail
  <2>3. k \in 0..m /\ \A i, j \in (k + 1)..m : known[i] = known[j] => i = j
    BY <2>2 DEF m, DistinctFrom
  <2>4. KeptFrom(k, known, c, raw, kept)
    BY <2>2
  <2>5. /\ \A i \in (k + 1)..m :
              \E j \in kept \cap ((c + 1)..n) : known[i] = raw[j]
        /\ \A j \in kept \cap ((c + 1)..n) :
              \E i \in (k + 1)..m : known[i] = raw[j]
    BY <2>4 DEF m, n, KeptFrom
  <2> HIDE DEF n
  <2>6. \A x : x \in tail <=> \E j \in kept \cap ((c + 1)..n) : x = raw[j]
    OBVIOUS
  <2> HIDE DEF tail
  <2>7. \A i \in (k + 1)..m : known[i] \in tail
    BY <2>5, <2>6, Zenon
  <2>8. ASSUME NEW x \in tail PROVE \E i \in (k + 1)..m : known[i] = x
    <3>1. PICK j \in kept \cap ((c + 1)..n) : x = raw[j]
      BY <2>6
    <3>2. PICK i \in (k + 1)..m : known[i] = raw[j]
      BY <2>5
    <3> QED
      BY <3>1, <3>2, Zenon
  <2> QED
    BY <2>3, <2>7, <2>8, Zenon
<1> HIDE DEF m
<1>10. m - k >= w
  <2> DEFINE f == [i \in 1..(m - k) |-> known[k + i]]
  <2>1. m - k \in Nat /\ \A i \in 1..(m - k) : k + i \in (k + 1)..m
    BY <1>8
  <2>2. \A i, j \in 1..(m - k) : f[i] = f[j] => i = j
    <3> SUFFICES ASSUME NEW i \in 1..(m - k), NEW j \in 1..(m - k), f[i] = f[j]
                 PROVE  i = j
      OBVIOUS
    <3>1. k + i = k + j
      BY <1>9, <2>1
    <3> QED
      BY <2>1, <3>1
  <2>3. /\ \A i \in 1..(m - k) : f[i] \in tail
        /\ \A x \in tail : \E i \in 1..(m - k) : f[i] = x
    <3>1. \A i \in (k + 1)..m : i - k \in 1..(m - k) /\ k + (i - k) = i
      BY <1>8
    <3>2. \A i \in 1..(m - k) : f[i] \in tail
      BY <1>9, <2>1
    <3>3. ASSUME NEW x \in tail PROVE \E i \in 1..(m - k) : f[i] = x
      <4>1. PICK i \in (k + 1)..m : known[i] = x
        BY <1>9, <3>3
      <4>2. f[i - k] = x
        BY <3>1, <4>1
      <4> QED
        BY <3>1, <4>2
    <3> HIDE DEF f, tail
    <3> QED
      BY <3>2, <3>3
  <2> HIDE DEF f, tail
  <2>4. Cardinality(tail) = m - k
    BY <2>1, <2>2, <2>3, DistinctCount
  <2>5. Cardinality(page) >= w
    BY DEF page, w
  <2> QED
    BY <1>6, <2>4, <2>5
<1>11. /\ Len(r) = w /\ r \in Seq(1..last)
       /\ \A i \in 1..w : r[i] = known[i + (m - w)]
  <2> HIDE DEF r
  <2> DEFINE G == 1..last
  <2>1. known \in Seq(G) /\ w \in Nat
    BY <1>2, <1>8
  <2> HIDE DEF G
  <2>2. /\ r \in Seq(G) /\ Len(r) = IF w <= m THEN w ELSE m
        /\ \A i \in 1..Len(r) : r[i] = known[i + (m - Len(r))]
    BY <2>1, RecentIs DEF r, m
  <2>3. w <= m
    BY <1>2, <1>8, <1>10
  <2> QED
    BY <2>2, <2>3 DEF G
<1> HIDE DEF r
<1>12. \A i, j \in 1..w : r[i] = r[j] => i = j
  <2> SUFFICES ASSUME NEW i \in 1..w, NEW j \in 1..w, r[i] = r[j] PROVE i = j
    OBVIOUS
  <2>1. i + (m - w) \in (k + 1)..m /\ j + (m - w) \in (k + 1)..m
    BY <1>2, <1>8, <1>10
  <2>2. i + (m - w) = j + (m - w)
    BY <1>9, <1>11, <2>1
  <2> QED
    BY <1>2, <1>8, <2>2
<1>13. ToSet(r) = {r[i] : i \in 1..w}
  BY <1>2, <1>11 DEF ToSet
<1>14. Cardinality(ToSet(r)) = w
  <2> DEFINE S == ToSet(r)
  <2>1. w \in Nat /\ \A i \in 1..w : r[i] \in S
    BY <1>2, <1>13
  <2>2. \A x \in S : \E i \in 1..w : r[i] = x
    BY <1>13
  <2> HIDE DEF S
  <2>3. Cardinality(S) = w
    BY <1>12, <2>1, <2>2, DistinctCount
  <2> QED
    BY <2>3 DEF S
<1>15. Cardinality(ToSet(r)) = Len(r)
  BY <1>11, <1>14
<1> QED
  BY <1>15 DEF r, known, w

LEMMA NewestDaysLoaded == ScreenInv => PagesGiveNewestDays
<1> SUFFICES ASSUME ScreenInv, NEW s \in DOMAIN prices
             PROVE  LET last   == Len(Listing(s))
                        recent == Recent(prices[s], VolumeDays)
                        newest == (last - PageSize + 1)..last
                    IN  /\ \E first \in DOMAIN Listing(s) :
                               ToSet(prices[s]) = {d \in first..last : Readable(s, d)}
                        /\ /\ last >= PageSize
                           /\ Cardinality({d \in newest : Readable(s, d)}) >= VolumeDays
                           => Cardinality(ToSet(recent)) = Len(recent)
  BY DEF PagesGiveNewestDays
<1>1. s \in Stocks /\ KnownDays(s, prices[s]) /\ PageInv
  BY DEF ScreenInv, KnownInv
<1>2. s \in DOMAIN market
  BY <1>1, StocksInMarket DEF Tested
<1> DEFINE last == Len(market[s])
<1>3. last \in Nat /\ DOMAIN market[s] = 1..last
  BY <1>1, <1>2, MarketTyped
<1>4. PICK raw : NewestDays(s, raw) /\ prices[s] = ReadableOf(s, raw)
  BY <1>1 DEF KnownDays
<1>5. PICK first \in 1..last : Days(raw, first, last)
  BY <1>4 DEF NewestDays
<1>6. raw \in Seq(1..last) /\ ToSet(raw) = first..last
  BY <1>5 DEF Days
<1>7. ToSet(prices[s]) = {d \in first..last : Readable(s, d)}
  BY <1>1, <1>2, <1>4, <1>6, ReadableTyped
<1>8. ASSUME last >= PageSize,
             Cardinality({d \in (last - PageSize + 1)..last : Readable(s, d)}) >= VolumeDays
      PROVE  Cardinality(ToSet(Recent(prices[s], VolumeDays))) =
                Len(Recent(prices[s], VolumeDays))
  BY <1>1, <1>2, <1>4, <1>5, <1>8, NewestOnce
<1>9. Listing(s) = market[s]
  BY DEF Listing
<1> QED
  BY <1>3, <1>7, <1>8, <1>9

\* The trader polls a stock twice only when its first load brought nothing,
\* and never three times: the rescreening (_run_rescreen) leaves out the
\* stocks with prices, and what it adds it adds once.
THEOREM WatchedAtMostTwice == Spec => []WatchedTwiceOnlyIfUnloaded
<1> QED
  BY ScreenInvInit, ScreenInvStep, WatchedBounded, PTL DEF Spec

\* A screening that writes its file (screen_universe, by bonus_score and the
\* price_ratio as kept, rounded to four digits) writes everyone who passed, fills
\* up with the best of those who did not as far as min_stocks wants, and never
\* prefers a worse stock; stocks whose kept ratios agree are equals here.
THEOREM ScreeningPicksTheBest ==
    Spec => [][ScreenSaves => PicksTheBest(WithJudgement, file')]_vars
<1>1. ASSUME ScreenInv, ScreenSaves PROVE PicksTheBest(WithJudgement, file')
  <2>1. task = "screen" /\ file' = Picks(WithJudgement)
    BY <1>1 DEF ScreenSaves
  <2>2. Reading
    BY <1>1, ReadIsReading DEF ScreenSaves
  <2>3. Judged(WithJudgement)
    BY <1>1, <2>1, <2>2, JudgedOnce
  <2>4. PICK G : JudgedIn(G, WithJudgement)
    BY <2>3 DEF Judged
  <2>5. PicksTheBest(WithJudgement, Picks(WithJudgement))
    BY <2>3, <2>4, PicksAreBest DEF Judged, JudgedIn
  <2> QED
    BY <2>1, <2>5
<1>2. ScreenInv => (ScreenSaves => PicksTheBest(WithJudgement, file'))
  BY <1>1
<1> QED
  BY <1>2, ScreenInvInit, ScreenInvStep, PTL DEF Spec

\* The days the trader has of a stock are its newest ones without a gap but for
\* the rows it cannot read (load_daily_context), and as long as enough of the
\* newest page can be read none is counted twice in an average, whether or not a
\* page repeats the last day of the page before.
THEOREM NewestDaysOnce == Spec => []PagesGiveNewestDays
<1> QED
  BY ScreenInvInit, ScreenInvStep, NewestDaysLoaded, PTL DEF Spec

-----------------------------------------------------------------------------
(***************************************************************************)
(* A price at which the trader buys is not one at which it sells.          *)
(***************************************************************************)

LEMMA MaxOfThree ==
    ASSUME NEW a \in Int, NEW b \in Int, NEW c \in Int
    PROVE  Max({a, b, c}) \in {a, b, c} /\ Max({a, b, c}) >= b
<1>1. \E m \in {a, b, c} : \A x \in {a, b, c} : m >= x
  OBVIOUS
<1> QED
  BY <1>1 DEF Max

LEMMA AtrTyped ==
    ASSUME NEW h \in Seq(DailyPrice)
    PROVE  Atr(h)[1] \in Nat /\ Atr(h)[2] \in Nat \ {0}
<1>1. CASE Len(h) < 2
  BY <1>1 DEF Atr
<1>2. CASE ~(Len(h) < 2)
  <2> DEFINE all    == [i \in 1..(Len(h) - 1) |-> TrueRange(h, i + 1)]
             ranges == Recent(all, AtrPeriod)
  <2>0. Len(h) \in Nat /\ Len(h) - 1 \in Nat /\ Len(h) - 1 >= 1
    BY <1>2
  <2>1. ASSUME NEW i \in 1..(Len(h) - 1) PROVE TrueRange(h, i + 1) \in Nat
    <3>1. i \in 1..Len(h) /\ i + 1 \in 1..Len(h) /\ i + 1 - 1 = i
      BY <2>0
    <3> DEFINE a == h[i+1].high - h[i+1].low
               b == Magnitude(h[i+1].high - h[i].close)
               c == Magnitude(h[i+1].low - h[i].close)
    <3>2. /\ h[i+1].high \in Nat /\ h[i+1].low \in Nat /\ h[i].close \in Nat
      BY <3>1, DayTyped
    <3>3. a \in Int /\ b \in Nat /\ c \in Nat
      <4>1. \A x \in Int : Magnitude(x) \in Nat
        BY DEF Magnitude
      <4>2. \A x, y \in Nat : x - y \in Int
        OBVIOUS
      <4> QED
        BY <3>2, <4>1, <4>2
    <3>4. TrueRange(h, i + 1) = Max({a, b, c})
      BY <3>1 DEF TrueRange
    <3> HIDE DEF a, b, c
    <3>5. Max({a, b, c}) \in {a, b, c} /\ Max({a, b, c}) >= b
      BY <3>3, MaxOfThree, SMTT(20)
    <3> QED
      BY <3>3, <3>4, <3>5
  <2>2. all \in Seq(Nat) /\ Len(all) = Len(h) - 1
    BY <2>0, <2>1
  <2> HIDE DEF all
  <2>3. AtrPeriod \in Nat \ {0}
    BY StrategiesAssumption DEF StrategiesAssumption
  <2>4. ranges \in Seq(Nat) /\ Len(ranges) = IF AtrPeriod <= Len(all) THEN AtrPeriod ELSE Len(all)
    BY <2>2, <2>3, RecentIs
  <2>5. Atr(h) = <<SumOf(ranges), Len(ranges)>>
    BY <1>2 DEF Atr, all
  <2> HIDE DEF ranges
  <2>6. SumOf(ranges) \in Nat
    BY <2>4, SumOfNumbers
  <2>7. Len(ranges) \in Nat \ {0}
    <3>1. Len(all) \in Nat \ {0}
      BY <2>0, <2>2
    <3>2. Len(ranges) = IF AtrPeriod <= Len(all) THEN AtrPeriod ELSE Len(all)
      BY <2>4
    <3> QED
      BY <2>3, <3>1, <3>2
  <2> QED
    BY <2>5, <2>6, <2>7
<1> QED
  BY <1>1, <1>2

LEMMA RsiTyped ==
    ASSUME NEW h \in Seq(DailyPrice)
    PROVE  Rsi(Closes(h))[1] \in Nat /\ Rsi(Closes(h))[2] \in Nat
<1> DEFINE closes == Closes(h)
           steps  == [i \in 1..(Len(closes) - 1) |-> closes[i+1] - closes[i]]
           moves  == Recent(steps, RsiPeriod)
           ups    == [i \in DOMAIN moves |-> Max({moves[i], 0})]
           downs  == [i \in DOMAIN moves |-> Max({-moves[i], 0})]
<1>1. closes \in Seq(Nat)
  BY DayTyped DEF Closes
<1>2. RsiPeriod \in Nat \ {0}
  BY StrategiesAssumption DEF StrategiesAssumption
<1> HIDE DEF closes
<1>3. CASE Len(closes) < RsiPeriod + 1
  BY <1>3 DEF Rsi, closes
<1>4. CASE ~(Len(closes) < RsiPeriod + 1)
  <2>1. Len(closes) - 1 \in Nat /\ \A i \in 1..(Len(closes) - 1) : closes[i+1] - closes[i] \in Int
    BY <1>1, <1>2, <1>4
  <2>2. steps \in Seq(Int)
    BY <2>1
  <2> HIDE DEF steps
  <2>3. moves \in Seq(Int)
    BY <1>2, <2>2, RecentIs
  <2> HIDE DEF moves
  <2>4. \A m \in Int : Max({m, 0}) \in Nat /\ -m \in Int
    <3> SUFFICES ASSUME NEW m \in Int PROVE Max({m, 0}) \in Nat
      OBVIOUS
    <3>1. Max({m, 0}) = IF m >= 0 THEN m ELSE 0
      BY MaxOfTwo
    <3> QED
      BY <3>1
  <2>5. ups \in Seq(Nat) /\ downs \in Seq(Nat)
    <3>1. /\ DOMAIN moves = 1..Len(moves) /\ Len(moves) \in Nat
          /\ \A i \in 1..Len(moves) : moves[i] \in Int
      BY <2>3
    <3>2. /\ \A i \in 1..Len(moves) : Max({moves[i], 0}) \in Nat
          /\ \A i \in 1..Len(moves) : Max({-moves[i], 0}) \in Nat
      BY <2>4, <3>1
    <3> QED
      BY <3>1, <3>2
  <2>6. SumOf(ups) \in Nat /\ SumOf(downs) \in Nat
    <3> HIDE DEF ups, downs
    <3> QED
      BY <2>5, SumOfNumbers
  <2>7. Rsi(closes) = IF SumOf(downs) = 0 THEN <<100, 1>>
                      ELSE <<100 * SumOf(ups), SumOf(ups) + SumOf(downs)>>
    BY <1>4 DEF Rsi, moves, steps
  <2> HIDE DEF ups, downs
  <2> QED
    BY <2>6, <2>7 DEF closes
<1> QED
  BY <1>3, <1>4

LEMMA FractionParts ==
    /\ \A q \in Fraction : q[1] \in Nat /\ q[2] \in Nat \ {0} /\ q \in Fractions
    /\ \A m, n : m \in Nat /\ n \in Nat \ {0} => <<m, n>> \in Fraction
BY DEF Fraction, Fractions

LEMMA ProductsTyped ==
    /\ \A m, n \in Nat : m * n \in Nat
    /\ \A m, n \in Nat \ {0} : m * n \in Nat \ {0}
OBVIOUS

\* Both sides times r.
LEMMA BothTimes ==
    ASSUME NEW p \in Fraction, NEW q \in Fraction, NEW r \in Fraction, AtMost(p, q)
    PROVE  AtMost(<<r[1] * p[1], r[2] * p[2]>>, <<r[1] * q[1], r[2] * q[2]>>)
<1> DEFINE a == p[1]  b == p[2]  c == q[1]  d == q[2]  m == r[1]  n == r[2]
<1>1. /\ a \in Nat /\ b \in Nat /\ c \in Nat /\ d \in Nat /\ m \in Nat /\ n \in Nat
      /\ a * d <= c * b
  BY FractionParts DEF AtMost
<1> HIDE DEF a, b, c, d, m, n
<1>2. a * d \in Nat /\ c * b \in Nat /\ m * n \in Nat
  BY <1>1, ProductsTyped
<1>3. (a * d) * (m * n) <= (c * b) * (m * n)
  BY <1>1, <1>2, TimesOrder
<1>4. (m * a) * (n * d) = (a * d) * (m * n) /\ (m * c) * (n * b) = (c * b) * (m * n)
  BY <1>1
<1>5. (m * a) * (n * d) <= (m * c) * (n * b)
  BY <1>3, <1>4
<1> QED
  BY <1>5 DEF AtMost, a, b, c, d, m, n

LEMMA SmallerAndLarger ==
    ASSUME NEW p \in Fraction, NEW q \in Fraction
    PROVE  /\ Larger(p, q) \in {p, q} /\ AtMost(p, Larger(p, q)) /\ AtMost(q, Larger(p, q))
           /\ Smaller(p, q) \in {p, q} /\ AtMost(Smaller(p, q), p)
<1>1. p \in Fractions /\ q \in Fractions
  BY FractionParts
<1>2. /\ Less(p, q) <=> ~ AtMost(q, p)
      /\ AtMost(p, q) \/ AtMost(q, p)
      /\ AtMost(p, p) /\ AtMost(q, q)
  BY <1>1, FractionsOrdered
<1> QED
  BY <1>2 DEF Larger, Smaller

LEMMA AtMostAtMost ==
    ASSUME NEW p \in Fraction, NEW q \in Fraction, NEW r \in Fraction,
           AtMost(p, q), AtMost(q, r)
    PROVE  AtMost(p, r)
<1>1. p \in Fractions /\ q \in Fractions /\ r \in Fractions
  BY FractionParts
<1> QED
  BY <1>1, FractionsOrdered

Product(r, q) == <<r[1] * q[1], r[2] * q[2]>>

LEMMA ProductTyped ==
    ASSUME NEW r \in Fraction, NEW q \in Fraction
    PROVE  Product(r, q) \in Fraction
<1>1. /\ r[1] \in Nat /\ q[1] \in Nat /\ r[2] \in Nat \ {0} /\ q[2] \in Nat \ {0}
  BY FractionParts
<1>2. r[1] * q[1] \in Nat /\ r[2] * q[2] \in Nat \ {0}
  BY <1>1, ProductsTyped
<1> QED
  BY <1>2, FractionParts DEF Product

LEMMA ArgsTyped ==
    ASSUME NEW a \in Args
    PROVE  /\ a.atrStop \in Fraction /\ a.atrGain \in Fraction /\ a.minAtr \in Fraction
           /\ a.minStop \in Fraction /\ a.maxLoss \in Fraction /\ a.forceClose \in Nat
           /\ a.oversold \in Fraction /\ a.stop \in Fraction /\ a.gain \in Fraction
BY DEF Args

\* The reward is at most 2, and as many times the stop's multiplier are at most
\* the gain's.
LEMMA RewardIs ==
    ASSUME NEW a \in Args
    PROVE  /\ Reward(a) \in Fraction
           /\ AtMost(Reward(a), <<2, 1>>)
           /\ AtMost(Product(Reward(a), a.atrStop), a.atrGain)
<1> DEFINE m == a.atrStop[1]  n == a.atrStop[2]  g == a.atrGain[1]  h == a.atrGain[2]
<1>1. m \in Nat /\ g \in Nat /\ n \in Nat \ {0} /\ h \in Nat \ {0}
  BY ArgsTyped, FractionParts
<1>2. AtMost(Times2(a.atrStop), a.atrGain) <=> (2 * m) * h <= g * n
  BY DEF AtMost, Times2
<1>3. Reward(a) = IF AtMost(Times2(a.atrStop), a.atrGain) THEN <<2, 1>>
                  ELSE <<g * n, h * m>>
  BY DEF Reward
<1>4. Product(Reward(a), a.atrStop) = <<Reward(a)[1] * m, Reward(a)[2] * n>>
  BY DEF Product
<1>5. CASE (2 * m) * h <= g * n
  <2>1. Reward(a) = <<2, 1>> /\ Product(Reward(a), a.atrStop) = <<2 * m, n>>
    BY <1>1, <1>2, <1>3, <1>4, <1>5
  <2>2. AtMost(<<2, 1>>, <<2, 1>>) /\ <<2, 1>> \in Fraction
    BY FractionParts DEF AtMost
  <2>3. AtMost(<<2 * m, n>>, a.atrGain)
    BY <1>5 DEF AtMost
  <2> QED
    BY <2>1, <2>2, <2>3
<1>6. CASE ~((2 * m) * h <= g * n)
  <2>1. Reward(a) = <<g * n, h * m>>
    BY <1>2, <1>3, <1>6
  <2>2. Product(Reward(a), a.atrStop) = <<(g * n) * m, (h * m) * n>>
    BY <1>4, <2>1
  <2>a. (((g * n) * m) * h <= g * ((h * m) * n)) <=>
          AtMost(<<(g * n) * m, (h * m) * n>>, a.atrGain)
    BY DEF AtMost
  <2>b. ((g * n) * 1 <= 2 * (h * m)) <=> AtMost(<<g * n, h * m>>, <<2, 1>>)
    BY DEF AtMost
  <2> HIDE DEF m, n, g, h
  <2>3. g * n \in Nat /\ h * m \in Nat /\ (2 * m) * h = 2 * (h * m)
    BY <1>1, ProductsTyped
  <2>4. h * m # 0
    BY <1>6, <2>3
  <2>5. ((g * n) * m) * h = g * ((h * m) * n) /\ ((g * n) * m) * h \in Int
    BY <1>1
  <2>6. (g * n) * 1 <= 2 * (h * m)
    BY <1>6, <2>3
  <2>7. ((g * n) * m) * h <= g * ((h * m) * n)
    BY <2>5
  <2> QED
    BY <2>1, <2>2, <2>3, <2>4, <2>6, <2>7, <2>a, <2>b, FractionParts
<1> QED
  BY <1>5, <1>6

\* The stop lies between its floor and its ceiling, the gain is not below its
\* floor, and both follow the same movement.
LEMMA GainIsRewarded ==
    ASSUME NEW a \in Args, NEW share \in Fraction
    PROVE  LET stop == Smaller(Larger(Product(share, a.atrStop), a.minStop), a.maxLoss)
               gain == Larger(Product(share, a.atrGain), Times2(a.minStop))
           IN  /\ stop \in Fraction /\ gain \in Fraction
               /\ AtMost(Product(Reward(a), stop), gain)
               /\ a.minStop[1] > 0 /\ a.maxLoss[1] > 0 => stop[1] > 0 /\ gain[1] > 0
<1> DEFINE byStop == Product(share, a.atrStop)
           byGain == Product(share, a.atrGain)
           floor  == a.minStop
           twice  == Times2(a.minStop)
           low    == Larger(byStop, floor)
           stop   == Smaller(low, a.maxLoss)
           gain   == Larger(byGain, twice)
           r      == Reward(a)
<1>1. /\ byStop \in Fraction /\ byGain \in Fraction /\ floor \in Fraction
      /\ a.maxLoss \in Fraction
  BY ArgsTyped, ProductTyped
<1>2. twice \in Fraction
  <2>1. floor[1] \in Nat /\ floor[2] \in Nat \ {0}
    BY <1>1, FractionParts
  <2> QED
    BY <2>1, FractionParts DEF Times2
<1>3. /\ r \in Fraction /\ AtMost(r, <<2, 1>>) /\ AtMost(Product(r, a.atrStop), a.atrGain)
  BY RewardIs
<1>4. AtMost(Product(r, byStop), byGain)
  <2>1. a.atrStop \in Fraction /\ a.atrGain \in Fraction /\ Product(r, a.atrStop) \in Fraction
    BY <1>3, ArgsTyped, ProductTyped
  <2>2. AtMost(Product(share, Product(r, a.atrStop)), Product(share, a.atrGain))
    BY <1>3, <2>1, BothTimes DEF Product
  <2>3. Product(share, Product(r, a.atrStop)) = Product(r, byStop)
    <3> DEFINE b == a.atrStop
    <3>1. /\ share[1] \in Nat /\ share[2] \in Nat /\ r[1] \in Nat /\ r[2] \in Nat
          /\ b[1] \in Nat /\ b[2] \in Nat
      BY <1>3, <2>1, FractionParts
    <3> HIDE DEF b, r
    <3>2. share[1] * (r[1] * b[1]) = r[1] * (share[1] * b[1])
      BY <3>1
    <3>3. share[2] * (r[2] * b[2]) = r[2] * (share[2] * b[2])
      BY <3>1
    <3> QED
      BY <3>2, <3>3 DEF Product, b
  <2> QED
    BY <2>2, <2>3
<1>5. AtMost(Product(r, floor), twice)
  <2> DEFINE m == floor[1]  n == floor[2]  k == r[1]  l == r[2]
  <2>1. m \in Nat /\ n \in Nat \ {0} /\ k \in Nat /\ l \in Nat \ {0}
    BY <1>1, <1>3, FractionParts
  <2>2. k * 1 <= 2 * l
    BY <1>3 DEF AtMost
  <2>3. AtMost(Product(r, floor), twice) <=> (k * m) * n <= (2 * m) * (l * n)
    BY DEF AtMost, Product, Times2
  <2> HIDE DEF m, n, k, l, r, floor, twice
  <2>4. k <= 2 * l /\ m * n \in Nat
    BY <2>1, <2>2
  <2>5. k * (m * n) <= (2 * l) * (m * n)
    BY <2>1, <2>4, TimesOrder
  <2>6. k * (m * n) = (k * m) * n /\ (2 * l) * (m * n) = (2 * m) * (l * n)
    BY <2>1
  <2> QED
    BY <2>3, <2>5, <2>6
<1> HIDE DEF r, byStop, byGain, floor, twice
<1>6. /\ low \in {byStop, floor} /\ AtMost(floor, low)
      /\ gain \in {byGain, twice} /\ AtMost(byGain, gain) /\ AtMost(twice, gain)
  BY <1>1, <1>2, SmallerAndLarger
<1>7. AtMost(Product(r, low), gain)
  <2>1. CASE low = byStop
    <3>1. Product(r, byStop) \in Fraction /\ gain \in Fraction
      BY <1>1, <1>2, <1>3, <1>6, ProductTyped
    <3> QED
      BY <1>1, <1>4, <1>6, <2>1, <3>1, AtMostAtMost
  <2>2. CASE low = floor
    <3>1. Product(r, floor) \in Fraction /\ gain \in Fraction
      BY <1>1, <1>2, <1>3, <1>6, ProductTyped
    <3> QED
      BY <1>2, <1>5, <1>6, <2>2, <3>1, AtMostAtMost
  <2> QED
    BY <1>6, <2>1, <2>2
<1>8. low \in Fraction /\ gain \in Fraction
  BY <1>1, <1>2, <1>6
<1> HIDE DEF low, gain
<1>9. stop \in {low, a.maxLoss} /\ AtMost(stop, low)
  BY <1>1, <1>8, SmallerAndLarger
<1> HIDE DEF stop
<1>10. stop \in Fraction
  BY <1>1, <1>8, <1>9
<1>11. AtMost(Product(r, stop), gain)
  <2>1. AtMost(Product(r, stop), Product(r, low))
    BY <1>3, <1>8, <1>9, <1>10, BothTimes DEF Product
  <2>2. Product(r, stop) \in Fraction /\ Product(r, low) \in Fraction
    BY <1>3, <1>8, <1>10, ProductTyped
  <2> QED
    BY <1>7, <1>8, <2>1, <2>2, AtMostAtMost
<1>12. ASSUME floor[1] > 0, a.maxLoss[1] > 0 PROVE stop[1] > 0 /\ gain[1] > 0
  <2>1. ASSUME NEW p \in Fraction, NEW q \in Fraction, p[1] > 0, AtMost(p, q)
        PROVE  q[1] > 0
    <3>1. p[1] \in Nat \ {0} /\ q[1] \in Nat /\ p[2] \in Nat \ {0} /\ q[2] \in Nat \ {0}
      BY <2>1, FractionParts
    <3>2. p[1] * q[2] \in Nat \ {0} /\ p[1] * q[2] <= q[1] * p[2]
      BY <2>1, <3>1, ProductsTyped DEF AtMost
    <3>3. q[1] # 0
      BY <3>1, <3>2
    <3> QED
      BY <3>1, <3>3
  <2>2. low[1] > 0
    BY <1>1, <1>6, <1>8, <1>12, <2>1
  <2>3. twice[1] > 0
    <3>1. floor[1] \in Nat
      BY <1>1, FractionParts
    <3> QED
      BY <1>12, <3>1 DEF twice, floor, Times2
  <2>4. gain[1] > 0
    BY <1>2, <1>6, <1>8, <2>1, <2>3
  <2> QED
    BY <1>9, <1>12, <2>2, <2>4
<1> QED
  BY <1>8, <1>10, <1>11, <1>12 DEF stop, gain, low, r, byStop, byGain, floor, twice

LEMMA MomentumIsWorthIt ==
    ASSUME NEW a \in Args, NEW p, NEW days \in Seq(DailyPrice), NEW price \in Nat,
           NEW time \in Nat, Moves(a, days, price)
    PROVE  LET stop == DynamicStop(a, days, price)
               gain == DynamicGain(a, days, price)
           IN  /\ AtMost(Product(Reward(a), stop), gain)
               /\ LeavesRoom("momentum", a, time) =>
                    TraderExit("momentum", a, p, days, price, price, price, time) = ""
<1> DEFINE share == AtrShare(days, price)
           stop == DynamicStop(a, days, price)
           gain == DynamicGain(a, days, price)
           signal == ExitSignal(p, price, price, 0, stop, gain, price)
<1>1. share \in Fraction /\ price > 0
  <2>1. Atr(days)[1] \in Nat /\ Atr(days)[2] \in Nat \ {0}
    BY AtrTyped
  <2>2. price > 0
    BY DEF Moves
  <2>3. Atr(days)[2] * price \in Nat \ {0}
    BY <2>1, <2>2, ProductsTyped
  <2> QED
    BY <2>1, <2>2, <2>3, FractionParts DEF AtrShare
<1>2. /\ stop = Smaller(Larger(Product(share, a.atrStop), a.minStop), a.maxLoss)
      /\ gain = Larger(Product(share, a.atrGain), Times2(a.minStop))
  BY DEF DynamicStop, DynamicGain, AtrTimes, Product
<1> HIDE DEF share
<1>3. /\ stop \in Fraction /\ gain \in Fraction
      /\ AtMost(Product(Reward(a), stop), gain)
      /\ a.minStop[1] > 0 /\ a.maxLoss[1] > 0 => stop[1] > 0 /\ gain[1] > 0
  <2> HIDE DEF stop, gain
  <2> DEFINE narrow == Smaller(Larger(Product(share, a.atrStop), a.minStop), a.maxLoss)
             wide   == Larger(Product(share, a.atrGain), Times2(a.minStop))
  <2>1. /\ narrow \in Fraction /\ wide \in Fraction
        /\ AtMost(Product(Reward(a), narrow), wide)
        /\ a.minStop[1] > 0 /\ a.maxLoss[1] > 0 => narrow[1] > 0 /\ wide[1] > 0
    BY <1>1, GainIsRewarded
  <2>2. stop = narrow /\ gain = wide
    BY <1>2
  <2> HIDE DEF narrow, wide
  <2> QED
    BY <2>1, <2>2
<1>4. ASSUME LeavesRoom("momentum", a, time)
      PROVE  TraderExit("momentum", a, p, days, price, price, price, time) = ""
  <2>1. stop[1] > 0 /\ gain[1] > 0 /\ time < a.forceClose
    BY <1>3, <1>4 DEF LeavesRoom
  <2>2. a.forceClose \in Nat
    BY ArgsTyped
  <2>3. ~(time >= a.forceClose)
    BY <2>1, <2>2
  <2> HIDE DEF stop, gain
  <2>4. ~ AtMost(stop, <<0, price>>) /\ ~ AtMost(gain, <<0, price>>)
    <3>1. ASSUME NEW q \in Fraction, q[1] > 0
          PROVE  ~ AtMost(q, <<0, price>>)
      <4>1. q[1] \in Nat \ {0} /\ q[2] \in Nat /\ price \in Nat \ {0}
        BY <1>1, <3>1, FractionParts
      <4>2. q[1] * price \in Nat \ {0} /\ 0 * q[2] = 0
        BY <4>1, ProductsTyped
      <4> QED
        BY <4>2 DEF AtMost
    <3> QED
      BY <1>3, <2>1, <3>1
  <2>5. price - price = 0 /\ Loss(price, price) = <<0, price>>
    BY DEF Loss
  <2>6. /\ ~(price <= 0) /\ ~(price > price)
        /\ ~ AtMost(stop, Loss(price, price)) /\ ~ AtMost(gain, <<price - price, price>>)
    BY <1>1, <2>4, <2>5
  <2>7. signal \in {"", "force_close"}
    BY <2>6, Zenon DEF ExitSignal
  <2> HIDE DEF signal
  <2>8. TraderExit("momentum", a, p, days, price, price, price, time)
           = IF signal \notin {"", "force_close"} THEN signal
             ELSE IF time >= a.forceClose THEN "force_close" ELSE ""
    BY DEF TraderExit, signal, stop, gain
  <2> QED
    BY <2>3, <2>7, <2>8
<1> QED
  BY <1>3, <1>4

LEMMA ReversionIsWorthIt ==
    ASSUME NEW a \in Args, NEW days \in Seq(DailyPrice), NEW price \in Nat,
           NEW volume, NEW share, ReversionEntry(a, days, price, volume, share),
           a.stop[1] > 0, a.gain[1] > 0, AtMost(a.oversold, Overbought)
    PROVE  ReversionExit(a, days, price, price) = ""
<1> DEFINE rsi  == Rsi(Closes(days))
           band == Bollinger(Closes(days))
<1>1. EnoughDays(days) /\ Less(rsi, a.oversold) /\ BelowLower(price, band, a.bandWidth)
  BY DEF ReversionEntry
<1>2. rsi[1] \in Nat /\ rsi[2] \in Nat
  BY RsiTyped
<1> HIDE DEF rsi, band
<1>4. ~ Less(Overbought, rsi)
  <2> SUFFICES ASSUME Less(Overbought, rsi) PROVE FALSE
    OBVIOUS
  <2> DEFINE m == a.oversold[1]  n == a.oversold[2]  k == rsi[1]  l == rsi[2]
  <2>1. m \in Nat /\ n \in Nat \ {0} /\ k \in Nat /\ l \in Nat
    BY <1>2, ArgsTyped, FractionParts
  <2>2. k * n < m * l /\ 70 * l < k * 1 /\ m * 1 <= 70 * n
    BY <1>1 DEF Less, AtMost, Overbought
  <2> HIDE DEF m, n, k, l
  <2>3. 70 * l + 1 <= k /\ m <= 70 * n /\ 70 * l + 1 \in Int /\ 70 * n \in Int
    BY <2>1, <2>2
  <2>4. (70 * l + 1) * n <= k * n /\ m * l <= (70 * n) * l
    BY <2>1, <2>3, TimesOrder
  <2>5. (70 * l + 1) * n = (70 * n) * l + n
    BY <2>1
  <2>6. k * n \in Nat /\ m * l \in Nat /\ (70 * n) * l \in Nat
    BY <2>1, ProductsTyped
  <2> DEFINE x == (70 * n) * l  y == k * n  z == m * l
  <2>7. x \in Nat /\ y \in Nat /\ z \in Nat /\ x + n <= y /\ z <= x /\ y < z
    BY <2>2, <2>4, <2>5, <2>6
  <2> HIDE DEF x, y, z
  <2> QED
    BY <2>1, <2>7
<1>5. CASE price > 0
  <2>1. price - price = 0 /\ Loss(price, price) = <<0, price>>
    BY DEF Loss
  <2>2. ASSUME NEW q \in Fraction, q[1] > 0 PROVE ~ AtMost(q, <<0, price>>)
    <3>1. q[1] \in Nat \ {0} /\ q[2] \in Nat /\ price \in Nat \ {0}
      BY <1>5, <2>2, FractionParts
    <3>2. q[1] * price \in Nat \ {0} /\ 0 * q[2] = 0
      BY <3>1, ProductsTyped
    <3> QED
      BY <3>2 DEF AtMost
  <2>3. /\ ~ AtMost(a.stop, Loss(price, price))
        /\ ~ AtMost(a.gain, <<price - price, price>>) /\ ~(price > price)
    BY <1>5, <2>1, <2>2, ArgsTyped
  <2> QED
    BY <1>1, <1>4, <1>5, <2>3, Zenon DEF ReversionExit, rsi, band
<1>6. CASE price = 0
  <2>1. price <= 0
    BY <1>6
  <2> QED
    BY <2>1, Zenon DEF ReversionExit
<1>7. price > 0 \/ price = 0
  OBVIOUS
<1> QED
  BY <1>5, <1>6, <1>7, Zenon

LEMMA DaysOfTyped ==
    ASSUME ScreenInv, NEW s \in DOMAIN prices
    PROVE  DaysOf(s, prices[s]) \in Seq(DailyPrice)
<1>1. s \in Stocks /\ KnownDays(s, prices[s]) /\ PageInv
  BY DEF ScreenInv, KnownInv
<1>2. s \in DOMAIN market
  BY <1>1, StocksInMarket DEF Tested
<1>3. PICK raw : NewestDays(s, raw) /\ prices[s] = ReadableOf(s, raw)
  BY <1>1 DEF KnownDays
<1>4. raw \in Seq(1..Len(market[s]))
  BY <1>3 DEF NewestDays, Days
<1> QED
  BY <1>1, <1>2, <1>3, <1>4, DaysTyped DEF DaysOf

LEMMA EntriesAreWorthIt ==
    ASSUME NEW a \in Args, NEW p, NEW days \in Seq(DailyPrice), NEW price \in Nat,
           NEW time \in Times, NEW how, NEW volume, NEW dayOpen,
           TraderEntry(how, a, p, days, price, volume, <<1, 1>>, dayOpen, time)
    PROVE  /\ LeavesRoom(how, a, time) =>
                TraderExit(how, a, p, days, price, price, price, time) = ""
           /\ how = "momentum" =>
                AtMost(Product(Reward(a), DynamicStop(a, days, price)),
                       DynamicGain(a, days, price))
<1>1. CASE how = "momentum"
  <2>1. time \in Nat
    BY BacktestAssumption DEF BacktestAssumption
  <2>2. Moves(a, days, price)
    BY <1>1 DEF TraderEntry
  <2>3. /\ AtMost(Product(Reward(a), DynamicStop(a, days, price)), DynamicGain(a, days, price))
        /\ LeavesRoom("momentum", a, time) =>
             TraderExit("momentum", a, p, days, price, price, price, time) = ""
    BY <2>1, <2>2, MomentumIsWorthIt
  <2> QED
    BY <1>1, <2>3
<1>2. CASE how # "momentum"
  <2>1. ReversionEntry(a, days, price, volume, <<1, 1>>)
    BY <1>2 DEF TraderEntry
  <2>2. ASSUME LeavesRoom(how, a, time)
        PROVE  TraderExit(how, a, p, days, price, price, price, time) = ""
    <3>1. a.stop[1] > 0 /\ a.gain[1] > 0 /\ AtMost(a.oversold, Overbought)
      BY <1>2, <2>2 DEF LeavesRoom
    <3>2. ReversionExit(a, days, price, price) = ""
      BY <2>1, <3>1, ReversionIsWorthIt
    <3> QED
      BY <1>2, <3>2, Zenon DEF TraderExit
  <2> QED
    BY <1>2, <2>2
<1> QED
  BY <1>1, <1>2

LEMMA ScreenedWorthEntering == ScreenInv => WorthEntering
<1> SUFFICES ASSUME ScreenInv, NEW s \in DOMAIN prices, NEW q \in Quotes,
                    NEW p \in ToSet(Grid), NEW a \in TraderArgs, NEW t \in Times,
                    TraderEntry(strategy[s], a, p, DaysOf(s, prices[s]), q.price, q.volume,
                                <<1, 1>>, q.dayOpen, t)
             PROVE  /\ LeavesRoom(strategy[s], a, t) =>
                         TraderExit(strategy[s], a, p, DaysOf(s, prices[s]), q.price,
                                    q.price, q.price, t) = ""
                    /\ strategy[s] = "momentum" =>
                         AtMost(Product(Reward(a), DynamicStop(a, DaysOf(s, prices[s]), q.price)),
                                DynamicGain(a, DaysOf(s, prices[s]), q.price))
  BY Zenon DEF WorthEntering, Product
<1>1. DaysOf(s, prices[s]) \in Seq(DailyPrice)
  BY DaysOfTyped
<1>2. q.price \in Nat /\ a \in Args
  BY ResearchAssumption, StrategiesAssumption DEF ResearchAssumption, StrategiesAssumption
<1> QED
  BY <1>1, <1>2, EntriesAreWorthIt, Zenon

\* Where the trader buys (check_entry_signal of either strategy with the
\* filters of handle_tick and poll_cycle) it would not sell again at once, as
\* long as its arguments leave room, and what a momentum trade may gain is at
\* least Reward times what it may lose: twice with the defaults, less than once
\* when the arguments give the stop the larger multiplier.
THEOREM EntriesNotSoldAtOnce == Spec => []WorthEntering
<1> QED
  BY ScreenInvInit, ScreenInvStep, ScreenedWorthEntering, PTL DEF Spec

-----------------------------------------------------------------------------
(***************************************************************************)
(* The replay.  What a property says of the bars played is a function of   *)
(* the tape and stays when the tape grows.                                 *)
(***************************************************************************)

TapeBar == [day : Nat, time : Nat, open : Nat, high : Nat, close : Nat, volume : Nat]

HighsOf(tp, at, n) == {tp[at].close} \cup {tp[i].high : i \in (at+1)..n}
PeakOf(tp, at, n)  == Max(HighsOf(tp, at, n))
ExitOf(tp, p, c, at, n) ==
    ExitSignal(p, tp[at].close, tp[n].close, tp[n].time, c.stop, c.gain, PeakOf(tp, at, n))
Stays(signal) == signal = ""
DayIn(tp, n)    == {i \in 1..n : tp[i].day = tp[n].day}
Volumes(tp)     == [i \in DOMAIN tp |-> tp[i].volume]
VolumeIn(tp, n) == SumFunctionOnSet(Volumes(tp), DayIn(tp, n))
OpenIn(tp, n)   == tp[Min(DayIn(tp, n))].open

LEMMA BarTyped ==
    ASSUME NEW tp \in Seq(TapeBar)
    PROVE  \A i \in 1..Len(tp) :
              /\ tp[i].day \in Nat /\ tp[i].time \in Nat /\ tp[i].open \in Nat
              /\ tp[i].high \in Nat /\ tp[i].close \in Nat /\ tp[i].volume \in Nat
<1>1. \A b \in TapeBar : /\ b.day \in Nat /\ b.time \in Nat /\ b.open \in Nat
                         /\ b.high \in Nat /\ b.close \in Nat /\ b.volume \in Nat
  BY DEF TapeBar
<1>2. \A i \in 1..Len(tp) : tp[i] \in TapeBar
  OBVIOUS
<1> QED
  BY <1>1, <1>2

LEMMA Grown ==
    ASSUME NEW tp \in Seq(TapeBar), NEW bar \in TapeBar
    PROVE  /\ Append(tp, bar) \in Seq(TapeBar) /\ Len(Append(tp, bar)) = Len(tp) + 1
           /\ Len(tp) \in Nat /\ Append(tp, bar)[Len(tp) + 1] = bar
           /\ \A i \in 1..Len(tp) : i # Len(tp) + 1 /\ Append(tp, bar)[i] = tp[i]
           /\ \A i \in 1..(Len(tp) + 1) : i = Len(tp) + 1 \/ i \in 1..Len(tp)
OBVIOUS

LEMMA HighsTyped ==
    ASSUME NEW tp \in Seq(TapeBar), NEW at \in 1..Len(tp), NEW n \in 0..Len(tp)
    PROVE  /\ IsFiniteSet(HighsOf(tp, at, n)) /\ HighsOf(tp, at, n) # {}
           /\ HighsOf(tp, at, n) \subseteq Int
<1> DEFINE T == {tp[i].high : i \in (at+1)..n}
           f == [i \in (at+1)..n |-> tp[i].high]
<1>0. Len(tp) \in Nat /\ at \in Int /\ at + 1 \in Int /\ n \in Int
  OBVIOUS
<1>1. T = {f[i] : i \in (at+1)..n}
  OBVIOUS
<1>2. \A i \in (at+1)..n : i \in 1..Len(tp)
  BY <1>0
<1>3. T \subseteq Int /\ tp[at].close \in Int
  BY <1>2, BarTyped
<1>4. IsFiniteSet(T)
  <2>1. IsFiniteSet((at+1)..n)
    BY <1>0, FS_Interval
  <2> HIDE DEF T, f
  <2> QED
    BY <1>1, <2>1, ImageIsFinite
<1>5. HighsOf(tp, at, n) = T \cup {tp[at].close}
  BY DEF HighsOf
<1> HIDE DEF T, f
<1>6. IsFiniteSet(T \cup {tp[at].close})
  BY <1>4, FS_AddElement
<1> QED
  BY <1>3, <1>5, <1>6

\* The peak is carried from bar to bar.
LEMMA PeakGrows ==
    ASSUME NEW tp \in Seq(TapeBar), NEW bar \in TapeBar, NEW at \in 1..Len(tp)
    PROVE  PeakOf(Append(tp, bar), at, Len(tp) + 1)
              = Max({PeakOf(tp, at, Len(tp)), bar.high})
<1> DEFINE n   == Len(tp)
           new == Append(tp, bar)
           S   == HighsOf(tp, at, n)
           S2  == HighsOf(new, at, n + 1)
<1>1. /\ new \in Seq(TapeBar) /\ Len(new) = n + 1 /\ n \in Nat /\ new[n + 1] = bar
      /\ \A i \in 1..n : i # n + 1 /\ new[i] = tp[i]
      /\ \A i \in 1..(n + 1) : i = n + 1 \/ i \in 1..n
      /\ at \in Int /\ 1 <= at /\ at <= n
  BY Grown
<1>2. bar.high \in Int
  BY DEF TapeBar
<1>3. S2 = S \cup {bar.high}
  <2> HIDE DEF new, n
  <2>1. \A i \in (at+1)..n : i \in (at+1)..(n+1) /\ new[i] = tp[i]
    BY <1>1
  <2>2. \A i \in (at+1)..(n+1) : i = n + 1 \/ i \in (at+1)..n
    BY <1>1
  <2>3. n + 1 \in (at+1)..(n+1) /\ new[at] = tp[at]
    BY <1>1
  <2> QED
    BY <1>1, <2>1, <2>2, <2>3 DEF HighsOf
<1>4. /\ IsFiniteSet(S) /\ S # {} /\ S \subseteq Int
      /\ IsFiniteSet(S2) /\ S2 # {} /\ S2 \subseteq Int
  <2>1. n \in 0..Len(tp) /\ at \in 1..Len(new) /\ n + 1 \in 0..Len(new)
    BY <1>1
  <2> QED
    BY <1>1, <2>1, HighsTyped
<1>5. PeakOf(new, at, n + 1) = Max(S2) /\ PeakOf(tp, at, n) = Max(S)
  BY DEF PeakOf
<1> HIDE DEF S, S2
<1>6. /\ Max(S) \in S /\ \A x \in S : x <= Max(S)
      /\ Max(S2) \in S2 /\ \A x \in S2 : x <= Max(S2)
  BY <1>4, Extremes
<1> DEFINE a == Max(S)
           b == Max(S2)
           h == bar.high
<1>7. a \in Int /\ b \in Int /\ h \in Int /\ a <= b /\ h <= b /\ (b = h \/ b <= a)
  BY <1>2, <1>3, <1>4, <1>6
<1> HIDE DEF a, b, h
<1>8. Max({a, h}) = b
  <2>1. Max({a, h}) = IF a >= h THEN a ELSE h
    BY <1>7, MaxOfTwo
  <2> QED
    BY <1>7, <2>1
<1> QED
  BY <1>5, <1>8 DEF a, b, h

LEMMA PeakAtEntry ==
    ASSUME NEW tp \in Seq(TapeBar), NEW at \in 1..Len(tp)
    PROVE  PeakOf(tp, at, at) = tp[at].close
<1>1. (at+1)..at = {}
  OBVIOUS
<1>2. HighsOf(tp, at, at) = {tp[at].close}
  BY <1>1 DEF HighsOf
<1>3. tp[at].close \in Int
  BY BarTyped
<1> QED
  BY <1>2, <1>3 DEF PeakOf, Max

LEMMA OnOldBars ==
    ASSUME NEW tp \in Seq(TapeBar), NEW bar \in TapeBar, NEW n \in 1..Len(tp)
    PROVE  /\ \A at \in 1..n : \A p, c :
                 ExitOf(Append(tp, bar), p, c, at, n) = ExitOf(tp, p, c, at, n)
           /\ DayIn(Append(tp, bar), n) = DayIn(tp, n)
           /\ VolumeIn(Append(tp, bar), n) = VolumeIn(tp, n)
           /\ OpenIn(Append(tp, bar), n) = OpenIn(tp, n)
<1> DEFINE new == Append(tp, bar)
<1>1. /\ new \in Seq(TapeBar) /\ Len(new) = Len(tp) + 1 /\ Len(tp) \in Nat
      /\ \A i \in 1..Len(tp) : new[i] = tp[i]
      /\ n \in Nat /\ n <= Len(tp)
  BY Grown
<1> HIDE DEF new
<1>2. ASSUME NEW at \in 1..n, NEW p, NEW c PROVE ExitOf(new, p, c, at, n) = ExitOf(tp, p, c, at, n)
  <2>1. at \in 1..Len(tp) /\ \A i \in (at+1)..n : i \in 1..Len(tp)
    BY <1>1
  <2>2. HighsOf(new, at, n) = HighsOf(tp, at, n)
    BY <1>1, <2>1 DEF HighsOf
  <2> QED
    BY <1>1, <2>1, <2>2 DEF ExitOf, PeakOf
<1>3. \A i \in 1..n : i \in 1..Len(tp) /\ new[i] = tp[i]
  BY <1>1
<1>4. DayIn(new, n) = DayIn(tp, n)
  BY <1>3 DEF DayIn
<1>5. IsFiniteSet(DayIn(tp, n)) /\ DayIn(tp, n) \subseteq 1..n /\ DayIn(tp, n) # {}
  <2>1. IsFiniteSet(1..n)
    BY <1>1, FS_Interval
  <2>2. DayIn(tp, n) \in SUBSET (1..n) /\ n \in DayIn(tp, n)
    BY <1>1 DEF DayIn
  <2> QED
    BY <2>1, <2>2, FS_Subset
<1>6. VolumeIn(new, n) = VolumeIn(tp, n)
  <2>1. DOMAIN new = 1..(Len(tp) + 1) /\ DOMAIN tp = 1..Len(tp)
    BY <1>1
  <2>2. \A i \in DayIn(tp, n) : Volumes(new)[i] = Volumes(tp)[i]
    <3>1. \A i \in 1..n : i \in DOMAIN new /\ i \in DOMAIN tp
      BY <1>1, <2>1
    <3> QED
      BY <1>3, <1>5, <3>1 DEF Volumes
  <2>3. SumFunctionOnSet(Volumes(new), DayIn(tp, n)) = SumFunctionOnSet(Volumes(tp), DayIn(tp, n))
    BY <1>5, <2>2, SumOfSameValues
  <2> QED
    BY <1>4, <2>3 DEF VolumeIn
<1>7. OpenIn(new, n) = OpenIn(tp, n)
  <2> DEFINE D == DayIn(tp, n)
  <2>1. D \subseteq Int
    BY <1>1, <1>5
  <2> HIDE DEF D
  <2>2. Min(D) \in D
    BY <1>5, <2>1, Extremes DEF D
  <2>3. Min(D) \in 1..n
    BY <1>5, <2>2 DEF D
  <2> QED
    BY <1>3, <1>4, <2>3 DEF OpenIn, D
<1> QED
  BY <1>2, <1>4, <1>6, <1>7 DEF new

\* The day of the next bar is the day of the last one, or all the earlier bars
\* are of earlier days.
LEMMA DayGrows ==
    ASSUME NEW tp \in Seq(TapeBar), NEW bar \in TapeBar,
           \A i \in 1..Len(tp) : tp[i].day <= tp[Len(tp)].day,
           Len(tp) # 0 => tp[Len(tp)].day <= bar.day
    PROVE  LET n   == Len(tp)
               new == Append(tp, bar)
               old == n # 0 /\ tp[n].day = bar.day
           IN  /\ VolumeIn(new, n + 1) = (IF old THEN VolumeIn(tp, n) ELSE 0) + bar.volume
               /\ OpenIn(new, n + 1) = IF old THEN OpenIn(tp, n) ELSE bar.open
<1> DEFINE n   == Len(tp)
           new == Append(tp, bar)
           D   == DayIn(new, n + 1)
           V   == Volumes(new)
           old == n # 0 /\ tp[n].day = bar.day
<1>1. /\ new \in Seq(TapeBar) /\ Len(new) = n + 1 /\ n \in Nat /\ new[n + 1] = bar
      /\ \A i \in 1..n : i # n + 1 /\ new[i] = tp[i]
      /\ \A i \in 1..(n + 1) : i = n + 1 \/ i \in 1..n
      /\ \A i \in 1..n : i \in 1..(n + 1)
      /\ n + 1 \in 1..(n + 1) /\ DOMAIN new = 1..(n + 1)
  BY Grown
<1>2. bar.volume \in Nat /\ bar.open \in Nat /\ bar.day \in Nat
  BY DEF TapeBar
<1> HIDE DEF new, n
<1>3. \A i \in 1..(n + 1) : V[i] = new[i].volume /\ V[i] \in Nat
  <2>1. \A i \in 1..(n + 1) : new[i].volume \in Nat
    BY <1>1, BarTyped
  <2> QED
    BY <1>1, <2>1 DEF Volumes
<1>4. V[n + 1] = bar.volume
  BY <1>1, <1>3
<1> HIDE DEF V
<1>5. CASE old
  <2> DEFINE E == DayIn(tp, n)
  <2>1. D = E \cup {n + 1}
    BY <1>1, <1>5 DEF DayIn
  <2>2. IsFiniteSet(E) /\ E \in SUBSET (1..n) /\ n \in E
    <3>1. IsFiniteSet(1..n)
      BY <1>1, FS_Interval
    <3>2. E \in SUBSET (1..n) /\ n \in E
      BY <1>1, <1>5 DEF DayIn
    <3> QED
      BY <3>1, <3>2, FS_Subset
  <2>3. n + 1 \notin E /\ \A x \in E : V[x] \in Nat
    BY <1>1, <1>3, <2>2
  <2> HIDE DEF D, E
  <2>4. SumFunctionOnSet(V, E \cup {n + 1}) = V[n + 1] + SumFunctionOnSet(V, E)
    BY <1>2, <1>4, <2>2, <2>3, SumWith
  <2>5. SumFunctionOnSet(V, E) = VolumeIn(tp, n)
    <3>1. n \in 1..Len(tp)
      BY <1>1, <1>5 DEF n
    <3>2. VolumeIn(new, n) = VolumeIn(tp, n) /\ DayIn(new, n) = DayIn(tp, n)
      BY <3>1, OnOldBars DEF new
    <3> QED
      BY <3>2 DEF VolumeIn, V, E
  <2>6. VolumeIn(tp, n) \in Nat
    BY <2>2, <2>3, <2>5, SumTyped
  <2>7. VolumeIn(new, n + 1) = VolumeIn(tp, n) + bar.volume
    <3>1. VolumeIn(new, n + 1) = SumFunctionOnSet(V, D)
      BY DEF VolumeIn, V, D
    <3>2. SumFunctionOnSet(V, D) = V[n + 1] + SumFunctionOnSet(V, E)
      BY <2>1, <2>4, Zenon
    <3> DEFINE a == SumFunctionOnSet(V, E)
    <3> HIDE DEF a
    <3>3. SumFunctionOnSet(V, D) = V[n + 1] + a /\ a = VolumeIn(tp, n)
      BY <2>5, <3>2 DEF a
    <3> QED
      BY <1>2, <1>4, <2>6, <3>1, <3>3
  <2>8. Min(D) = Min(E)
    <3>1. IsFiniteSet(D) /\ D # {} /\ D \subseteq Int /\ E # {} /\ E \subseteq Int
      BY <1>1, <2>1, <2>2, FS_AddElement
    <3>2. Min(D) \in D /\ (\A x \in D : Min(D) <= x) /\ Min(E) \in E /\ \A x \in E : Min(E) <= x
      BY <2>2, <3>1, Extremes
    <3> DEFINE a == Min(D)
               b == Min(E)
    <3> HIDE DEF a, b
    <3>3. (a \in E \/ a = n + 1) /\ a <= b /\ b \in E /\ (a \in E => b <= a)
      BY <2>1, <3>2 DEF a, b
    <3>4. \A x \in E : x \in Int /\ x < n + 1
      BY <1>1, <2>2
    <3>5. a = b
      BY <1>1, <3>3, <3>4
    <3> QED
      BY <3>5 DEF a, b
  <2>9. Min(E) \in 1..n
    <3>1. E # {} /\ E \subseteq Int
      BY <1>1, <2>2
    <3> QED
      BY <2>2, <3>1, Extremes
  <2>10. OpenIn(new, n + 1) = OpenIn(tp, n)
    BY <1>1, <2>8, <2>9 DEF OpenIn, D, E
  <2> QED
    BY <1>5, <2>7, <2>10 DEF n, new
<1>6. CASE ~old
  <2>1. \A i \in 1..n : tp[i].day # bar.day
    <3> SUFFICES ASSUME NEW i \in 1..n PROVE tp[i].day # bar.day
      OBVIOUS
    <3>1. n # 0 /\ n \in 1..n /\ tp[n].day # bar.day
      BY <1>1, <1>6
    <3>2. tp[i].day <= tp[n].day /\ tp[n].day <= bar.day
      BY <3>1 DEF n
    <3>3. tp[i].day \in Nat /\ tp[n].day \in Nat
      BY <3>1, BarTyped DEF n
    <3> QED
      BY <1>2, <3>1, <3>2, <3>3
  <2>2. D = {n + 1}
    BY <1>1, <2>1 DEF DayIn
  <2>3. SumFunctionOnSet(V, {n + 1}) = bar.volume
    <3>1. {n + 1} = {} \cup {n + 1} /\ n + 1 \notin {} /\ \A x \in {} : V[x] \in Nat
      OBVIOUS
    <3>2. SumFunctionOnSet(V, {} \cup {n + 1}) = V[n + 1] + SumFunctionOnSet(V, {})
      BY <1>2, <1>4, <3>1, FS_EmptySet, SumWith
    <3>3. SumFunctionOnSet(V, {}) = 0
      BY SumOfNothing
    <3> QED
      BY <1>2, <1>4, <3>1, <3>2, <3>3
  <2>4. Min({n + 1}) = n + 1
    <3> DEFINE m == n + 1
    <3>1. m \in Int
      BY <1>1
    <3> HIDE DEF m
    <3>2. Min({m}) = m
      BY <3>1 DEF Min
    <3> QED
      BY <3>2 DEF m
  <2>5. VolumeIn(new, n + 1) = 0 + bar.volume
    <3>1. VolumeIn(new, n + 1) = SumFunctionOnSet(V, D)
      BY DEF VolumeIn, V, D
    <3>2. SumFunctionOnSet(V, D) = bar.volume
      BY <2>2, <2>3, Zenon
    <3> QED
      BY <1>2, <3>1, <3>2
  <2>6. OpenIn(new, n + 1) = bar.open
    BY <1>1, <2>2, <2>4 DEF OpenIn, D
  <2> QED
    BY <1>6, <2>5, <2>6 DEF n, new
<1> QED
  BY <1>5, <1>6

(***************************************************************************)
(* The engine: what a bar does to it.                                      *)
(***************************************************************************)

Position    == [at : Nat, price : Nat, peak : Nat]
Parts       == {"positions", "trades", "volume", "dayOpen", "day"}
IsList(s)   == \E G : s \in Seq(G)
IsEngine(e) ==
    /\ DOMAIN e = Parts /\ e.positions \in Seq(Position) /\ IsList(e.trades)
    /\ e.volume \in Nat /\ e.dayOpen \in Nat /\ e.day \in Nat

VolumeAfter(e, bar) == (IF bar.day = e.day THEN e.volume ELSE 0) + bar.volume
OpenAfter(e, bar)   == IF bar.day = e.day THEN e.dayOpen ELSE bar.open
PeakAfter(x, bar)   == Max({x.peak, bar.high})
ExitAfter(p, c, x, bar) ==
    ExitSignal(p, x.price, bar.close, bar.time, c.stop, c.gain, PeakAfter(x, bar))

\* The trade that closes a position, and a position kept or opened, at a bar.
ClosedAt(t, x, n, price, why) ==
    /\ t.at = x.at /\ t.entry = x.price /\ t.until = n /\ t.exit = price /\ t.why = why
KeptAt(y, x, p, c, bar) ==
    /\ y.at = x.at /\ y.price = x.price /\ y.peak = PeakAfter(x, bar)
    /\ Stays(ExitAfter(p, c, x, bar))
OpenedAt(y, e, p, c, bar, n) ==
    /\ y.at = n /\ y.price = bar.close /\ y.peak = bar.close
    /\ EntrySignal(p, bar.close, c.high, VolumeAfter(e, bar), c.average, c.rsi,
                   OpenAfter(e, bar), bar.open, bar.time)

LEMMA ListsJoin ==
    ASSUME NEW s, IsList(s), NEW t, IsList(t)
    PROVE  /\ IsList(s \o t)
           /\ \A k \in DOMAIN (s \o t) :
                 \/ k \in DOMAIN s /\ (s \o t)[k] = s[k]
                 \/ k - Len(s) \in DOMAIN t /\ (s \o t)[k] = t[k - Len(s)]
<1>1. PICK G : s \in Seq(G)
  BY DEF IsList
<1>2. PICK H : t \in Seq(H)
  BY DEF IsList
<1> DEFINE U == G \cup H
           c == s \o t
           n == Len(s)
<1>3. s \in Seq(U) /\ t \in Seq(U)
  BY <1>1, <1>2, SeqMonotonic
<1> HIDE DEF U
<1>4. c \in Seq(U) /\ Len(c) = n + Len(t)
  BY <1>3, ConcatProperties
<1>5. \A i \in 1..(n + Len(t)) : c[i] = IF i <= n THEN s[i] ELSE t[i - n]
  BY <1>3, ConcatProperties
<1>6. /\ DOMAIN c = 1..(n + Len(t)) /\ n \in Nat /\ Len(t) \in Nat
      /\ DOMAIN s = 1..n /\ DOMAIN t = 1..Len(t)
  BY <1>3, <1>4, LenProperties
<1> HIDE DEF c, n
<1>7. IsList(c)
  BY <1>4 DEF IsList
<1>8. ASSUME NEW k \in DOMAIN c
      PROVE  \/ k \in DOMAIN s /\ c[k] = s[k]
             \/ k - n \in DOMAIN t /\ c[k] = t[k - n]
  <2>1. CASE k <= n
    BY <1>5, <1>6, <2>1
  <2>2. CASE ~(k <= n)
    BY <1>5, <1>6, <2>2
  <2> QED
    BY <2>1, <2>2
<1> QED
  BY <1>7, <1>8 DEF c, n

LEMMA StartDayIs ==
    ASSUME NEW old, IsEngine(old), NEW bar \in TapeBar
    PROVE  LET e == [StartDay(old, bar) EXCEPT !.volume = @ + bar.volume]
           IN  /\ IsEngine(e) /\ e.positions = old.positions /\ e.trades = old.trades
               /\ e.volume = VolumeAfter(old, bar) /\ e.dayOpen = OpenAfter(old, bar)
               /\ e.day = bar.day
<1> DEFINE d == StartDay(old, bar)
           e == [d EXCEPT !.volume = @ + bar.volume]
<1>1. bar.day \in Nat /\ bar.volume \in Nat /\ bar.open \in Nat
  BY DEF TapeBar
<1>2. /\ DOMAIN d = Parts /\ d.positions = old.positions /\ d.trades = old.trades
      /\ d.volume = (IF bar.day = old.day THEN old.volume ELSE 0)
      /\ d.dayOpen = OpenAfter(old, bar) /\ d.day = bar.day
  <2>1. CASE bar.day = old.day
    BY <2>1 DEF StartDay, IsEngine, OpenAfter
  <2>2. CASE bar.day # old.day
    <3>1. d = [old EXCEPT !.volume = 0, !.dayOpen = bar.open, !.day = bar.day]
      BY <2>2 DEF StartDay
    <3> QED
      BY <2>2, <3>1 DEF IsEngine, OpenAfter, Parts
  <2> QED
    BY <2>1, <2>2
<1> HIDE DEF d
<1>3. /\ DOMAIN e = Parts /\ e.positions = old.positions /\ e.trades = old.trades
      /\ e.volume = VolumeAfter(old, bar) /\ e.dayOpen = OpenAfter(old, bar) /\ e.day = bar.day
  BY <1>2 DEF Parts, VolumeAfter
<1> HIDE DEF e
<1>4. e.volume \in Nat /\ e.dayOpen \in Nat
  BY <1>1, <1>3 DEF VolumeAfter, OpenAfter, IsEngine
<1>5. IsEngine(e)
  BY <1>1, <1>3, <1>4 DEF IsEngine
<1> QED
  BY <1>3, <1>5 DEF e, d

LEMMA PeakedIs ==
    ASSUME NEW ps \in Seq(Position), NEW bar \in TapeBar
    PROVE  LET peaked == [i \in DOMAIN ps |-> [ps[i] EXCEPT !.peak = Max({@, bar.high})]]
           IN  /\ peaked \in Seq(Position) /\ DOMAIN peaked = DOMAIN ps
               /\ \A i \in DOMAIN ps :
                     /\ peaked[i].at = ps[i].at /\ peaked[i].price = ps[i].price
                     /\ peaked[i].peak = PeakAfter(ps[i], bar)
<1> DEFINE up(x) == [x EXCEPT !.peak = Max({@, bar.high})]
           peaked == [i \in DOMAIN ps |-> up(ps[i])]
<1>1. bar.high \in Nat
  BY DEF TapeBar
<1>2. ASSUME NEW x \in Position
      PROVE  /\ up(x) \in Position /\ up(x).at = x.at /\ up(x).price = x.price
             /\ up(x).peak = PeakAfter(x, bar)
  <2> DEFINE m == Max({x.peak, bar.high})
  <2>1. x.peak \in Nat
    BY DEF Position
  <2>2. m \in Nat
    <3>1. m = IF x.peak >= bar.high THEN x.peak ELSE bar.high
      BY <1>1, <2>1, MaxOfTwo
    <3> QED
      BY <1>1, <2>1, <3>1
  <2>3. up(x) = [x EXCEPT !.peak = m]
    OBVIOUS
  <2>4. PeakAfter(x, bar) = m
    BY DEF PeakAfter
  <2> HIDE DEF m, up
  <2> QED
    BY <2>2, <2>3, <2>4 DEF Position
<1>3. \A i \in 1..Len(ps) : ps[i] \in Position
  OBVIOUS
<1>4. DOMAIN ps = 1..Len(ps) /\ Len(ps) \in Nat
  OBVIOUS
<1> HIDE DEF up
<1>5. peaked \in Seq(Position) /\ DOMAIN peaked = DOMAIN ps
  BY <1>2, <1>3, <1>4
<1>6. \A i \in DOMAIN ps : peaked[i] = up(ps[i])
  OBVIOUS
<1>7. \A i \in DOMAIN ps : /\ peaked[i].at = ps[i].at /\ peaked[i].price = ps[i].price
                           /\ peaked[i].peak = PeakAfter(ps[i], bar)
  BY <1>2, <1>3, <1>4, <1>6
<1> QED
  BY <1>5, <1>7 DEF up

LEMMA PlayIs ==
    ASSUME NEW old, IsEngine(old), NEW bar \in TapeBar, NEW n \in Nat, NEW p, NEW c
    PROVE  LET new == Play(p, c, old, bar, n)
           IN  /\ IsEngine(new)
               /\ new.volume = VolumeAfter(old, bar) /\ new.dayOpen = OpenAfter(old, bar)
               /\ new.day = bar.day
               /\ \A k \in DOMAIN new.trades :
                     \/ k \in DOMAIN old.trades /\ new.trades[k] = old.trades[k]
                     \/ \E i \in DOMAIN old.positions :
                           ClosedAt(new.trades[k], old.positions[i], n, bar.close,
                                    ExitAfter(p, c, old.positions[i], bar))
               /\ \A k \in DOMAIN new.positions :
                     \/ \E i \in DOMAIN old.positions :
                           KeptAt(new.positions[k], old.positions[i], p, c, bar)
                     \/ OpenedAt(new.positions[k], old, p, c, bar, n)
<1> DEFINE e == [StartDay(old, bar) EXCEPT !.volume = @ + bar.volume]
           peaked == [i \in DOMAIN e.positions |->
                        [e.positions[i] EXCEPT !.peak = Max({@, bar.high})]]
           leaving == {i \in DOMAIN peaked : ExitAt(p, c, peaked[i], bar) # ""}
           closed == Picked(peaked, leaving)
           kept   == Picked(peaked, DOMAIN peaked \ leaving)
           enters == /\ Len(kept) < p.maxPositions
                     /\ EntrySignal(p, bar.close, c.high, e.volume, c.average, c.rsi,
                                    e.dayOpen, bar.open, bar.time)
           sold   == [i \in DOMAIN closed |->
                        Trade(closed[i], n, bar.close, ExitAt(p, c, closed[i], bar))]
           opened == [at |-> n, price |-> bar.close, peak |-> bar.close]
           held   == IF enters THEN Append(kept, opened) ELSE kept
           new    == [e EXCEPT !.trades = @ \o sold, !.positions = held]
<1>1. Play(p, c, old, bar, n) = new
  BY Zenon DEF Play
<1>2. /\ IsEngine(e) /\ e.positions = old.positions /\ e.trades = old.trades
      /\ e.volume = VolumeAfter(old, bar) /\ e.dayOpen = OpenAfter(old, bar)
      /\ e.day = bar.day
  BY StartDayIs
<1> HIDE DEF e
<1>3. e.positions \in Seq(Position) /\ IsList(e.trades) /\ DOMAIN e = Parts
  BY <1>2 DEF IsEngine
<1>4. /\ peaked \in Seq(Position) /\ DOMAIN peaked = DOMAIN e.positions
      /\ \A i \in DOMAIN e.positions :
            /\ peaked[i].at = e.positions[i].at /\ peaked[i].price = e.positions[i].price
            /\ peaked[i].peak = PeakAfter(e.positions[i], bar)
  BY <1>3, PeakedIs
<1>5. \A i \in DOMAIN peaked : i \in leaving <=> ~ Stays(ExitAt(p, c, peaked[i], bar))
  BY Zenon DEF Stays
<1>6. leaving \subseteq DOMAIN peaked
  OBVIOUS
<1> HIDE DEF peaked, leaving
<1>7. \A i \in DOMAIN e.positions :
         ExitAt(p, c, peaked[i], bar) = ExitAfter(p, c, e.positions[i], bar)
  BY <1>4 DEF ExitAt, ExitAfter
<1>8. /\ DOMAIN peaked = 1..Len(peaked) /\ Len(peaked) \in Nat
      /\ \A i \in 1..Len(peaked) : peaked[i] \in Position
  BY <1>4
<1>9. IsList(closed) /\ \A k \in DOMAIN closed : \E i \in leaving : closed[k] = peaked[i]
  <2> DEFINE G == {peaked[i] : i \in leaving}
  <2>1. \A i \in 1..Len(peaked) : i \in leaving => peaked[i] \in G
    OBVIOUS
  <2> HIDE DEF G
  <2>2. closed \in Seq(G)
    BY <1>8, <2>1, PickedFrom
  <2> HIDE DEF closed
  <2>3. \A k \in DOMAIN closed : closed[k] \in G
    BY <2>2
  <2>4. IsList(closed)
    BY <2>2 DEF IsList
  <2> QED
    BY <2>3, <2>4 DEF G
<1>10. /\ kept \in Seq(Position)
       /\ \A k \in DOMAIN kept : \E i \in DOMAIN peaked \ leaving : kept[k] = peaked[i]
  <2> DEFINE G == {peaked[i] : i \in DOMAIN peaked \ leaving}
             rest == DOMAIN peaked \ leaving
  <2>1. \A i \in 1..Len(peaked) : i \in rest => peaked[i] \in G
    OBVIOUS
  <2>2. G \subseteq Position
    BY <1>8
  <2> HIDE DEF G, rest
  <2>3. Picked(peaked, rest) \in Seq(G)
    BY <1>8, <2>1, PickedFrom
  <2>4. kept \in Seq(G)
    BY <2>3 DEF rest
  <2> HIDE DEF kept
  <2>5. \A k \in DOMAIN kept : kept[k] \in G
    BY <2>4
  <2>6. kept \in Seq(Position)
    BY <2>2, <2>4, SeqMonotonic
  <2> QED
    BY <2>5, <2>6 DEF G
<1> HIDE DEF closed, kept
<1>11. /\ IsList(sold) /\ DOMAIN sold = DOMAIN closed
       /\ \A k \in DOMAIN sold : \E i \in DOMAIN e.positions :
             ClosedAt(sold[k], e.positions[i], n, bar.close, ExitAfter(p, c, e.positions[i], bar))
  <2>1. PICK G : closed \in Seq(G)
    BY <1>9 DEF IsList
  <2>2. DOMAIN closed = 1..Len(closed) /\ Len(closed) \in Nat
    BY <2>1
  <2>3. IsList(sold) /\ DOMAIN sold = DOMAIN closed
    <3> DEFINE H == {sold[i] : i \in DOMAIN closed}
    <3>1. DOMAIN sold = 1..Len(closed)
      BY <2>2
    <3>2. sold \in Seq(H)
      <4>1. \A i \in 1..Len(closed) : sold[i] \in H
        BY <2>2
      <4> HIDE DEF H
      <4> DEFINE r(i) == Trade(closed[i], n, bar.close, ExitAt(p, c, closed[i], bar))
      <4>2. sold = [i \in 1..Len(closed) |-> r(i)]
        BY <2>2
      <4>3. \A i \in 1..Len(closed) : r(i) \in H
        BY <4>1, <4>2
      <4> HIDE DEF r, sold
      <4> QED
        BY <2>2, <4>2, <4>3
    <3> QED
      BY <3>2 DEF IsList
  <2>4. ASSUME NEW k \in DOMAIN closed
        PROVE  \E i \in DOMAIN e.positions :
                  ClosedAt(sold[k], e.positions[i], n, bar.close,
                           ExitAfter(p, c, e.positions[i], bar))
    <3>1. PICK i \in leaving : closed[k] = peaked[i]
      BY <1>9
    <3>2. i \in DOMAIN e.positions
      BY <1>4, <1>6
    <3>3. sold[k] = Trade(peaked[i], n, bar.close, ExitAt(p, c, peaked[i], bar))
      BY <3>1
    <3>4. ClosedAt(sold[k], e.positions[i], n, bar.close, ExitAfter(p, c, e.positions[i], bar))
      BY <1>4, <1>7, <3>2, <3>3 DEF ClosedAt, Trade
    <3> QED
      BY <3>2, <3>4
  <2> HIDE DEF sold
  <2> QED
    BY <2>3, <2>4
<1>12. \A i \in DOMAIN peaked \ leaving : \A y : y = peaked[i] =>
          KeptAt(y, e.positions[i], p, c, bar)
  BY <1>4, <1>5, <1>7 DEF KeptAt
<1>13. \A k \in DOMAIN kept : \E i \in DOMAIN e.positions :
          KeptAt(kept[k], e.positions[i], p, c, bar)
  BY <1>4, <1>10, <1>12
<1>14. enters => OpenedAt(opened, old, p, c, bar, n)
  BY <1>2 DEF OpenedAt
<1>15. opened \in Position
  BY DEF Position, TapeBar
<1> HIDE DEF enters, opened, sold
<1>16. /\ held \in Seq(Position)
       /\ \A k \in DOMAIN held : \/ k \in DOMAIN kept /\ held[k] = kept[k]
                                 \/ enters /\ held[k] = opened
  <2>1. CASE enters
    <3>1. /\ Append(kept, opened) \in Seq(Position) /\ DOMAIN kept = 1..Len(kept)
          /\ DOMAIN Append(kept, opened) = 1..(Len(kept) + 1)
          /\ \A i \in 1..(Len(kept) + 1) :
                Append(kept, opened)[i] = IF i <= Len(kept) THEN kept[i] ELSE opened
          /\ \A i \in 1..(Len(kept) + 1) : i <= Len(kept) => i \in 1..Len(kept)
      BY <1>10, <1>15, OneMore
    <3>2. held = Append(kept, opened)
      BY <2>1
    <3> HIDE DEF held
    <3> QED
      BY <2>1, <3>1, <3>2
  <2>2. CASE ~ enters
    <3>1. held = kept
      BY <2>2
    <3> HIDE DEF held
    <3> QED
      BY <1>10, <3>1
  <2> QED
    BY <2>1, <2>2
<1> HIDE DEF held
<1>17. \A k \in DOMAIN held :
          \/ \E i \in DOMAIN e.positions : KeptAt(held[k], e.positions[i], p, c, bar)
          \/ OpenedAt(held[k], old, p, c, bar, n)
  BY <1>13, <1>14, <1>16
<1> DEFINE all == e.trades \o sold
<1>18. /\ IsList(all)
       /\ \A k \in DOMAIN all :
             \/ k \in DOMAIN e.trades /\ all[k] = e.trades[k]
             \/ k - Len(e.trades) \in DOMAIN sold /\ all[k] = sold[k - Len(e.trades)]
  BY <1>3, <1>11, ListsJoin
<1> HIDE DEF all
<1>19. /\ DOMAIN new = Parts /\ new.trades = all /\ new.positions = held
       /\ new.volume = e.volume /\ new.dayOpen = e.dayOpen /\ new.day = e.day
  <2>1. new = [e EXCEPT !.trades = all, !.positions = held]
    BY DEF all
  <2> HIDE DEF new
  <2> QED
    BY <1>3, <2>1 DEF Parts
<1> HIDE DEF new
<1>20. IsEngine(new)
  BY <1>2, <1>16, <1>18, <1>19 DEF IsEngine
<1>21. \A k \in DOMAIN all :
          \/ k \in DOMAIN old.trades /\ all[k] = old.trades[k]
          \/ \E i \in DOMAIN old.positions :
                ClosedAt(all[k], old.positions[i], n, bar.close,
                         ExitAfter(p, c, old.positions[i], bar))
  BY <1>2, <1>11, <1>18
<1>22. /\ IsEngine(new)
       /\ new.volume = VolumeAfter(old, bar) /\ new.dayOpen = OpenAfter(old, bar)
       /\ new.day = bar.day
       /\ \A k \in DOMAIN new.trades :
             \/ k \in DOMAIN old.trades /\ new.trades[k] = old.trades[k]
             \/ \E i \in DOMAIN old.positions :
                   ClosedAt(new.trades[k], old.positions[i], n, bar.close,
                            ExitAfter(p, c, old.positions[i], bar))
       /\ \A k \in DOMAIN new.positions :
             \/ \E i \in DOMAIN old.positions :
                   KeptAt(new.positions[k], old.positions[i], p, c, bar)
             \/ OpenedAt(new.positions[k], old, p, c, bar, n)
  BY <1>2, <1>17, <1>19, <1>20, <1>21
<1> QED
  BY <1>1, <1>22, Zenon

(***************************************************************************)
(* What the engine has to do with the bars played.                         *)
(***************************************************************************)

BoughtOn(tp, p, c, n) ==
    EntrySignal(p, tp[n].close, c.high, VolumeIn(tp, n), c.average, c.rsi,
                OpenIn(tp, n), tp[n].open, tp[n].time)
QuietOn(tp, p, c, at, until) ==
    \A n \in (at + 1)..until : Stays(ExitOf(tp, p, c, at, n))
HeldOn(x, tp, p, c) ==
    /\ x.at \in 1..Len(tp) /\ x.price = tp[x.at].close
    /\ x.peak = PeakOf(tp, x.at, Len(tp))
    /\ QuietOn(tp, p, c, x.at, Len(tp)) /\ BoughtOn(tp, p, c, x.at)
TradedOn(t, tp, p, c) ==
    /\ t.at \in 1..Len(tp) /\ t.until \in t.at..Len(tp)
    /\ t.entry = tp[t.at].close /\ t.exit = tp[t.until].close
    /\ QuietOn(tp, p, c, t.at, t.until - 1)
SignalledOn(t, tp, p, c) == t.until > t.at /\ t.why = ExitOf(tp, p, c, t.at, t.until)
CountsOn(e, tp) ==
    IF tp = <<>> THEN e.day = 0
    ELSE /\ e.day = tp[Len(tp)].day /\ e.day # 0
         /\ e.volume = VolumeIn(tp, Len(tp)) /\ e.dayOpen = OpenIn(tp, Len(tp))
         /\ \A i \in 1..Len(tp) : tp[i].day <= tp[Len(tp)].day

LEMMA ExitAtNewBar ==
    ASSUME NEW tp \in Seq(TapeBar), NEW bar \in TapeBar, NEW p, NEW c,
           NEW x, HeldOn(x, tp, p, c)
    PROVE  ExitOf(Append(tp, bar), p, c, x.at, Len(tp) + 1) = ExitAfter(p, c, x, bar)
<1> DEFINE n   == Len(tp)
           new == Append(tp, bar)
<1>1. x.at \in 1..n /\ x.price = tp[x.at].close /\ x.peak = PeakOf(tp, x.at, n)
  BY DEF HeldOn
<1>2. new[x.at] = tp[x.at] /\ new[n + 1] = bar
  BY <1>1, Grown
<1>3. PeakOf(new, x.at, n + 1) = PeakAfter(x, bar)
  BY <1>1, PeakGrows DEF PeakAfter
<1> HIDE DEF n, new
<1>4. ExitOf(new, p, c, x.at, n + 1) = ExitAfter(p, c, x, bar)
  BY <1>1, <1>2, <1>3 DEF ExitOf, ExitAfter
<1> QED
  BY <1>4 DEF n, new

LEMMA QuietGrows ==
    ASSUME NEW tp \in Seq(TapeBar), NEW bar \in TapeBar, NEW p, NEW c,
           NEW at \in 1..Len(tp), NEW until \in at-1..Len(tp), QuietOn(tp, p, c, at, until)
    PROVE  QuietOn(Append(tp, bar), p, c, at, until)
<1>1. \A n \in (at + 1)..until : n \in 1..Len(tp) /\ at \in 1..n
  OBVIOUS
<1> QED
  BY <1>1, OnOldBars DEF QuietOn

LEMMA HeldGrows ==
    ASSUME NEW tp \in Seq(TapeBar), NEW bar \in TapeBar, NEW p, NEW c,
           NEW x, HeldOn(x, tp, p, c), NEW y, KeptAt(y, x, p, c, bar)
    PROVE  HeldOn(y, Append(tp, bar), p, c)
<1> DEFINE n   == Len(tp)
           new == Append(tp, bar)
           at  == x.at
<1>1. at \in 1..n /\ x.price = tp[at].close /\ x.peak = PeakOf(tp, at, n)
  BY DEF HeldOn
<1>2. n \in Nat /\ Len(new) = n + 1 /\ new[at] = tp[at]
  BY <1>1, Grown
<1>3. y.at = at /\ y.price = x.price /\ y.peak = PeakAfter(x, bar)
  BY DEF KeptAt
<1>4. PeakOf(new, at, n + 1) = PeakAfter(x, bar)
  BY <1>1, PeakGrows DEF PeakAfter
<1>5. QuietOn(new, p, c, at, n + 1)
  <2>1. QuietOn(new, p, c, at, n)
    <3>1. n \in at-1..Len(tp) /\ QuietOn(tp, p, c, at, n)
      BY <1>1 DEF HeldOn
    <3> QED
      BY <1>1, <3>1, QuietGrows
  <2>2. Stays(ExitOf(new, p, c, at, n + 1))
    BY ExitAtNewBar DEF KeptAt
  <2>3. \A m \in (at + 1)..(n + 1) : m = n + 1 \/ m \in (at + 1)..n
    BY <1>1, <1>2
  <2> HIDE DEF new, n, at
  <2> QED
    BY <2>1, <2>2, <2>3 DEF QuietOn
<1>6. BoughtOn(new, p, c, at)
  <2>1. VolumeIn(new, at) = VolumeIn(tp, at) /\ OpenIn(new, at) = OpenIn(tp, at)
    BY <1>1, OnOldBars
  <2>2. BoughtOn(tp, p, c, at)
    BY DEF HeldOn
  <2> HIDE DEF new, at
  <2> QED
    BY <1>2, <2>1, <2>2 DEF BoughtOn
<1> HIDE DEF new, n, at
<1>7. HeldOn(y, new, p, c)
  BY <1>1, <1>2, <1>3, <1>4, <1>5, <1>6 DEF HeldOn
<1> QED
  BY <1>7 DEF new

LEMMA ClosedIsTraded ==
    ASSUME NEW tp \in Seq(TapeBar), NEW bar \in TapeBar, NEW p, NEW c,
           NEW x, HeldOn(x, tp, p, c),
           NEW t, ClosedAt(t, x, Len(tp) + 1, bar.close, ExitAfter(p, c, x, bar))
    PROVE  TradedOn(t, Append(tp, bar), p, c) /\ SignalledOn(t, Append(tp, bar), p, c)
<1> DEFINE n   == Len(tp)
           new == Append(tp, bar)
           at  == x.at
<1>1. at \in 1..n /\ x.price = tp[at].close
  BY DEF HeldOn
<1>2. n \in Nat /\ Len(new) = n + 1 /\ new[at] = tp[at] /\ new[n + 1] = bar
  BY <1>1, Grown
<1>3. /\ t.at = at /\ t.entry = x.price /\ t.until = n + 1 /\ t.exit = bar.close
      /\ t.why = ExitAfter(p, c, x, bar)
  BY DEF ClosedAt
<1>4. QuietOn(new, p, c, at, n)
  <2>1. n \in at-1..Len(tp) /\ QuietOn(tp, p, c, at, n)
    BY <1>1 DEF HeldOn
  <2> QED
    BY <1>1, <2>1, QuietGrows
<1>5. ExitOf(new, p, c, at, n + 1) = ExitAfter(p, c, x, bar)
  BY ExitAtNewBar
<1> HIDE DEF new, n, at
<1>6. n + 1 - 1 = n /\ n + 1 > at /\ at \in 1..(n + 1) /\ n + 1 \in at..(n + 1)
  BY <1>1, <1>2
<1>7. TradedOn(t, new, p, c)
  BY <1>1, <1>2, <1>3, <1>4, <1>6 DEF TradedOn
<1>8. SignalledOn(t, new, p, c)
  BY <1>3, <1>5, <1>6 DEF SignalledOn
<1> QED
  BY <1>7, <1>8 DEF new

LEMMA TradedGrows ==
    ASSUME NEW tp \in Seq(TapeBar), NEW bar \in TapeBar, NEW p, NEW c,
           NEW t, TradedOn(t, tp, p, c), SignalledOn(t, tp, p, c)
    PROVE  TradedOn(t, Append(tp, bar), p, c) /\ SignalledOn(t, Append(tp, bar), p, c)
<1> DEFINE n   == Len(tp)
           new == Append(tp, bar)
<1>1. t.at \in 1..n /\ t.until \in t.at..n
  BY DEF TradedOn
<1>2. n \in Nat /\ Len(new) = n + 1 /\ t.until \in 1..n
  BY <1>1, Grown
<1>3. new[t.at] = tp[t.at] /\ new[t.until] = tp[t.until]
  BY <1>1, <1>2, Grown
<1>4. QuietOn(new, p, c, t.at, t.until - 1)
  <2>1. t.until - 1 \in t.at-1..Len(tp)
    BY <1>1, <1>2
  <2> QED
    BY <1>1, <2>1, QuietGrows DEF TradedOn
<1>5. ExitOf(new, p, c, t.at, t.until) = ExitOf(tp, p, c, t.at, t.until)
  <2>1. t.at \in 1..t.until
    BY <1>1
  <2> QED
    BY <1>2, <2>1, OnOldBars
<1>6. t.at \in 1..(n + 1) /\ t.until \in t.at..(n + 1)
  BY <1>1, <1>2
<1> HIDE DEF new, n
<1> QED
  <2>1. TradedOn(t, new, p, c)
    BY <1>2, <1>3, <1>4, <1>6 DEF TradedOn
  <2>2. SignalledOn(t, new, p, c)
    BY <1>5 DEF SignalledOn
  <2> QED
    BY <2>1, <2>2 DEF new

LEMMA CountsGrow ==
    ASSUME NEW tp \in Seq(TapeBar), NEW bar \in TapeBar, NEW e, CountsOn(e, tp),
           bar.day # 0, Len(tp) # 0 => tp[Len(tp)].day <= bar.day
    PROVE  /\ VolumeAfter(e, bar) = VolumeIn(Append(tp, bar), Len(tp) + 1)
           /\ OpenAfter(e, bar) = OpenIn(Append(tp, bar), Len(tp) + 1)
           /\ \A i \in 1..(Len(tp) + 1) : Append(tp, bar)[i].day <= bar.day
<1> DEFINE n   == Len(tp)
           new == Append(tp, bar)
<1>1. /\ n \in Nat /\ new[n + 1] = bar /\ \A i \in 1..n : new[i] = tp[i]
      /\ \A i \in 1..(n + 1) : i = n + 1 \/ i \in 1..n
  BY Grown
<1>2. bar.day \in Nat
  BY DEF TapeBar
<1>3. \A i \in 1..n : n # 0 /\ tp[i].day \in Nat /\ tp[n].day \in Nat
  <2>1. \A i \in 1..n : n \in 1..n /\ n # 0
    BY <1>1
  <2> QED
    BY <2>1, BarTyped
<1>4. \A i \in 1..n : tp[i].day <= tp[n].day
  <2>1. \A i \in 1..n : tp # <<>>
    BY <1>1
  <2> QED
    BY <2>1 DEF CountsOn
<1>5. \A i \in 1..(n + 1) : new[i].day <= bar.day
  <2>1. \A i \in 1..n : new[i].day <= bar.day
    BY <1>1, <1>2, <1>3, <1>4
  <2> HIDE DEF new, n
  <2> QED
    BY <1>1, <1>2, <2>1
<1>6. LET old == n # 0 /\ tp[n].day = bar.day
      IN  /\ VolumeIn(new, n + 1) = (IF old THEN VolumeIn(tp, n) ELSE 0) + bar.volume
          /\ OpenIn(new, n + 1) = IF old THEN OpenIn(tp, n) ELSE bar.open
  BY <1>4, DayGrows
<1> HIDE DEF new
<1>7. CASE tp = <<>>
  <2>1. n = 0 /\ e.day = 0
    BY <1>7 DEF CountsOn
  <2> QED
    BY <1>5, <1>6, <2>1 DEF VolumeAfter, OpenAfter, new
<1>8. CASE tp # <<>>
  <2>1. n # 0 /\ e.day = tp[n].day /\ e.volume = VolumeIn(tp, n) /\ e.dayOpen = OpenIn(tp, n)
    BY <1>8 DEF CountsOn
  <2> HIDE DEF n
  <2> QED
    BY <1>5, <1>6, <2>1 DEF VolumeAfter, OpenAfter, new, n
<1> QED
  BY <1>7, <1>8

LEMMA OpenedIsHeld ==
    ASSUME NEW tp \in Seq(TapeBar), NEW bar \in TapeBar, NEW p, NEW c,
           NEW e, CountsOn(e, tp), bar.day # 0, Len(tp) # 0 => tp[Len(tp)].day <= bar.day,
           NEW y, OpenedAt(y, e, p, c, bar, Len(tp) + 1)
    PROVE  HeldOn(y, Append(tp, bar), p, c)
<1> DEFINE n   == Len(tp)
           new == Append(tp, bar)
<1>1. n \in Nat /\ new \in Seq(TapeBar) /\ Len(new) = n + 1 /\ new[n + 1] = bar
  BY Grown
<1>2. y.at = n + 1 /\ y.price = bar.close /\ y.peak = bar.close
  BY DEF OpenedAt
<1>3. VolumeAfter(e, bar) = VolumeIn(new, n + 1) /\ OpenAfter(e, bar) = OpenIn(new, n + 1)
  BY CountsGrow
<1> HIDE DEF new
<1>4. n + 1 \in 1..Len(new) /\ (n + 1 + 1)..(n + 1) = {}
  BY <1>1
<1>5. PeakOf(new, n + 1, n + 1) = bar.close
  BY <1>1, <1>4, PeakAtEntry
<1>6. QuietOn(new, p, c, n + 1, n + 1)
  BY <1>4 DEF QuietOn
<1>7. BoughtOn(new, p, c, n + 1)
  BY <1>1, <1>3 DEF BoughtOn, OpenedAt
<1>8. HeldOn(y, new, p, c)
  BY <1>1, <1>2, <1>4, <1>5, <1>6, <1>7 DEF HeldOn
<1> QED
  BY <1>8 DEF new

LEMMA CloseAllIs ==
    ASSUME NEW e, IsEngine(e), NEW bars
    PROVE  LET new == CloseAll(e, bars)
               n   == Len(bars)
           IN  /\ IsEngine(new) /\ new.positions = <<>>
               /\ new.volume = e.volume /\ new.dayOpen = e.dayOpen /\ new.day = e.day
               /\ \A k \in DOMAIN new.trades :
                     \/ k \in DOMAIN e.trades /\ new.trades[k] = e.trades[k]
                     \/ \E i \in DOMAIN e.positions :
                           ClosedAt(new.trades[k], e.positions[i], n, bars[n].close, "force_close")
<1> DEFINE n    == Len(bars)
           sold == [i \in DOMAIN e.positions |->
                      Trade(e.positions[i], n, bars[n].close, "force_close")]
           all  == e.trades \o sold
           new  == [e EXCEPT !.trades = @ \o sold, !.positions = <<>>]
<1>1. CloseAll(e, bars) = new
  BY DEF CloseAll
<1>2. e.positions \in Seq(Position) /\ IsList(e.trades) /\ DOMAIN e = Parts
  BY DEF IsEngine
<1>3. DOMAIN e.positions = 1..Len(e.positions) /\ Len(e.positions) \in Nat
  BY <1>2
<1>4. \A i \in DOMAIN e.positions :
         ClosedAt(sold[i], e.positions[i], n, bars[n].close, "force_close")
  BY DEF ClosedAt, Trade
<1>5. IsList(sold) /\ DOMAIN sold = DOMAIN e.positions
  <2> DEFINE m    == Len(e.positions)
             r(i) == Trade(e.positions[i], n, bars[n].close, "force_close")
             H    == {r(i) : i \in 1..m}
  <2>1. sold = [i \in 1..m |-> r(i)] /\ \A i \in 1..m : r(i) \in H
    BY <1>3
  <2> HIDE DEF r, H, sold, m
  <2>2. sold \in Seq(H)
    BY <1>3, <2>1 DEF m
  <2> QED
    BY <1>3, <2>1, <2>2 DEF IsList, m
<1> HIDE DEF sold, n
<1>6. /\ IsList(all)
      /\ \A k \in DOMAIN all :
            \/ k \in DOMAIN e.trades /\ all[k] = e.trades[k]
            \/ k - Len(e.trades) \in DOMAIN sold /\ all[k] = sold[k - Len(e.trades)]
  BY <1>2, <1>5, ListsJoin
<1> HIDE DEF all
<1>7. /\ DOMAIN new = Parts /\ new.trades = all /\ new.positions = <<>>
      /\ new.volume = e.volume /\ new.dayOpen = e.dayOpen /\ new.day = e.day
  <2>1. new = [e EXCEPT !.trades = all, !.positions = <<>>]
    BY DEF all
  <2> HIDE DEF new
  <2> QED
    BY <1>2, <2>1 DEF Parts
<1> HIDE DEF new
<1>8. IsEngine(new)
  <2>1. <<>> \in Seq(Position)
    OBVIOUS
  <2> QED
    BY <1>6, <1>7, <2>1 DEF IsEngine
<1>9. \A k \in DOMAIN all :
         \/ k \in DOMAIN e.trades /\ all[k] = e.trades[k]
         \/ \E i \in DOMAIN e.positions :
               ClosedAt(all[k], e.positions[i], n, bars[n].close, "force_close")
  BY <1>4, <1>5, <1>6
<1> QED
  BY <1>1, <1>7, <1>8, <1>9 DEF n

ForcedOn(t, tp) == t.why = "force_close" /\ t.until = Len(tp)
BooksOn(e, tp, p, c, over) ==
    /\ tp \in Seq(TapeBar) /\ IsEngine(e) /\ CountsOn(e, tp)
    /\ \A k \in DOMAIN e.positions : HeldOn(e.positions[k], tp, p, c)
    /\ \A k \in DOMAIN e.trades :
          /\ TradedOn(e.trades[k], tp, p, c)
          /\ SignalledOn(e.trades[k], tp, p, c) \/ (over /\ ForcedOn(e.trades[k], tp))
CalcOn(c, days) ==
    days \in Seq(DailyPrice) /\ c.high = YearHigh(days) /\ c.average = MeanVolume(days)
ReplayInv ==
    /\ BooksOn(engine, tape, params, calc, report # NoReport)
    /\ queue = <<>> \/ reader = "backtest" => tape = <<>>
    /\ queue # <<>> /\ reader # "backtest" => CalcOn(calc, daily)

LEMMA EmptyTape ==
    ASSUME NEW e, NEW p, NEW c, NEW over, BooksOn(e, <<>>, p, c, over)
    PROVE  \A p2, c2, over2 : BooksOn(e, <<>>, p2, c2, over2)
<1>1. \A k \in DOMAIN e.positions : FALSE
  BY DEF BooksOn, HeldOn
<1>2. \A k \in DOMAIN e.trades : FALSE
  BY DEF BooksOn, TradedOn
<1>3. <<>> \in Seq(TapeBar) /\ IsEngine(e) /\ CountsOn(e, <<>>)
  BY DEF BooksOn
<1> QED
  BY <1>1, <1>2, <1>3 DEF BooksOn

LEMMA FreshBooks == \A p, c, over : BooksOn(Fresh, <<>>, p, c, over)
<1>1. /\ DOMAIN Fresh = Parts /\ Fresh.positions = <<>> /\ Fresh.trades = <<>>
      /\ Fresh.volume = 0 /\ Fresh.dayOpen = 0 /\ Fresh.day = 0
  BY DEF Fresh, Parts
<1>2. <<>> \in Seq(Position) /\ <<>> \in Seq({}) /\ <<>> \in Seq(TapeBar) /\ DOMAIN <<>> = {}
  OBVIOUS
<1>3. IsList(<<>>)
  BY <1>2 DEF IsList
<1>4. IsEngine(Fresh) /\ CountsOn(Fresh, <<>>)
  BY <1>1, <1>2, <1>3 DEF IsEngine, CountsOn
<1> QED
  BY <1>1, <1>2, <1>4 DEF BooksOn

LEMMA ReplayInvInit == Init => ReplayInv
<1> SUFFICES ASSUME Init PROVE ReplayInv
  OBVIOUS
<1>1. engine = Fresh /\ tape = <<>> /\ queue = <<>>
  BY DEF Init, BacktestInit
<1> QED
  BY <1>1, FreshBooks DEF ReplayInv

\* A bar is played as the books say.
LEMMA BarPlayed ==
    ASSUME BooksOn(engine, tape, params, calc, report # NoReport), report = NoReport,
           NEW bar \in TapeBar, bar.day # 0,
           Len(tape) # 0 => tape[Len(tape)].day <= bar.day
    PROVE  LET e == Play(params, calc, engine, bar, Len(tape) + 1)
               tp == Append(tape, bar)
           IN  /\ tp \in Seq(TapeBar) /\ IsEngine(e) /\ CountsOn(e, tp)
               /\ \A k \in DOMAIN e.positions : HeldOn(e.positions[k], tp, params, calc)
               /\ \A k \in DOMAIN e.trades : /\ TradedOn(e.trades[k], tp, params, calc)
                                             /\ SignalledOn(e.trades[k], tp, params, calc)
<1> DEFINE n  == Len(tape)
           e  == Play(params, calc, engine, bar, n + 1)
           tp == Append(tape, bar)
<1>1. /\ tape \in Seq(TapeBar) /\ IsEngine(engine) /\ CountsOn(engine, tape)
      /\ \A k \in DOMAIN engine.positions : HeldOn(engine.positions[k], tape, params, calc)
      /\ \A k \in DOMAIN engine.trades : /\ TradedOn(engine.trades[k], tape, params, calc)
                                         /\ SignalledOn(engine.trades[k], tape, params, calc)
  BY DEF BooksOn, ForcedOn
<1>2. n \in Nat /\ n + 1 \in Nat /\ tp \in Seq(TapeBar) /\ Len(tp) = n + 1 /\ tp[n + 1] = bar
  BY <1>1, Grown
<1>3. /\ IsEngine(e)
      /\ e.volume = VolumeAfter(engine, bar) /\ e.dayOpen = OpenAfter(engine, bar)
      /\ e.day = bar.day
      /\ \A k \in DOMAIN e.trades :
            \/ k \in DOMAIN engine.trades /\ e.trades[k] = engine.trades[k]
            \/ \E i \in DOMAIN engine.positions :
                  ClosedAt(e.trades[k], engine.positions[i], n + 1, bar.close,
                           ExitAfter(params, calc, engine.positions[i], bar))
      /\ \A k \in DOMAIN e.positions :
            \/ \E i \in DOMAIN engine.positions :
                  KeptAt(e.positions[k], engine.positions[i], params, calc, bar)
            \/ OpenedAt(e.positions[k], engine, params, calc, bar, n + 1)
  BY <1>1, <1>2, PlayIs
<1> HIDE DEF e
<1>4. CountsOn(e, tp)
  <2>1. /\ VolumeAfter(engine, bar) = VolumeIn(tp, n + 1)
        /\ OpenAfter(engine, bar) = OpenIn(tp, n + 1)
        /\ \A i \in 1..(n + 1) : tp[i].day <= bar.day
    BY <1>1, CountsGrow
  <2> HIDE DEF tp
  <2>2. tp # <<>>
    BY <1>2
  <2> QED
    BY <1>2, <1>3, <2>1, <2>2 DEF CountsOn
<1>5. ASSUME NEW k \in DOMAIN e.positions PROVE HeldOn(e.positions[k], tp, params, calc)
  <2>1. CASE OpenedAt(e.positions[k], engine, params, calc, bar, n + 1)
    BY <1>1, <2>1, OpenedIsHeld
  <2>2. ASSUME NEW i \in DOMAIN engine.positions,
               KeptAt(e.positions[k], engine.positions[i], params, calc, bar)
        PROVE  HeldOn(e.positions[k], tp, params, calc)
    BY <1>1, <2>2, HeldGrows
  <2> QED
    BY <1>3, <2>1, <2>2
<1>6. ASSUME NEW k \in DOMAIN e.trades
      PROVE  TradedOn(e.trades[k], tp, params, calc) /\ SignalledOn(e.trades[k], tp, params, calc)
  <2>1. CASE k \in DOMAIN engine.trades /\ e.trades[k] = engine.trades[k]
    <3>1. TradedOn(e.trades[k], tape, params, calc) /\ SignalledOn(e.trades[k], tape, params, calc)
      BY <1>1, <2>1
    <3> QED
      BY <1>1, <3>1, TradedGrows
  <2>2. ASSUME NEW i \in DOMAIN engine.positions,
               ClosedAt(e.trades[k], engine.positions[i], n + 1, bar.close,
                        ExitAfter(params, calc, engine.positions[i], bar))
        PROVE  TradedOn(e.trades[k], tp, params, calc) /\ SignalledOn(e.trades[k], tp, params, calc)
    BY <1>1, <2>2, ClosedIsTraded
  <2> QED
    BY <1>3, <2>1, <2>2
<1> QED
  BY <1>2, <1>3, <1>4, <1>5, <1>6 DEF e

(***************************************************************************)
(* The steps.                                                              *)
(***************************************************************************)

LEMMA SameBooks ==
    ASSUME ReplayInv, UNCHANGED testVars, queue = <<>> \/ reader' = reader
    PROVE  ReplayInv'
<1>1. /\ queue' = queue /\ daily' = daily /\ calc' = calc /\ params' = params
      /\ tape' = tape /\ engine' = engine /\ report' = report
  BY DEF testVars
<1> QED
  BY <1>1 DEF ReplayInv

LEMMA NextReplay ==
    ASSUME ScreenInv, queue # <<>>, NextStock
    PROVE  ReplayInv'
<1>1. engine' = Fresh /\ tape' = <<>> /\ queue' = Tail(queue)
  BY DEF NextStock
<1>2. queue' # <<>> => reader' = "backtest"
  <2>1. CASE Len(queue) > 1
    BY <2>1 DEF NextStock, Ask
  <2>2. CASE ~(Len(queue) > 1)
    BY <1>1, <2>2 DEF ScreenInv, QueueInv
  <2> QED
    BY <2>1, <2>2
<1>3. BooksOn(engine', tape', params', calc', report' # NoReport)
  BY <1>1, FreshBooks
<1> QED
  BY <1>1, <1>2, <1>3 DEF ReplayInv

LEMMA ReplayStarts ==
    ASSUME ScreenInv, ReplayInv, AutoBacktest
    PROVE  ReplayInv'
<1>1. /\ queue = <<>> /\ reader' = "backtest"
      /\ tape' = tape /\ engine' = engine
  BY DEF AutoBacktest, StartBacktest, Ask
<1>2. tape = <<>> /\ BooksOn(engine, <<>>, params, calc, report # NoReport)
  BY <1>1 DEF ReplayInv
<1>3. BooksOn(engine', tape', params', calc', report' # NoReport)
  BY <1>1, <1>2, EmptyTape
<1> QED
  BY <1>1, <1>2, <1>3 DEF ReplayInv

LEMMA DaysCollected ==
    ASSUME ScreenInv, ReplayInv, DailyCollected
    PROVE  ReplayInv'
<1>1. /\ reader = "backtest" /\ Read /\ daily' = Daily /\ calc' = Calc(params, Daily)
      /\ tape' = tape /\ engine' = engine /\ params' = params /\ report' = report
  BY DEF DailyCollected
<1>2. tape = <<>> /\ BooksOn(engine, <<>>, params, calc, report # NoReport)
  BY <1>1 DEF ReplayInv
<1>3. BooksOn(engine', tape', params', calc', report' # NoReport)
  BY <1>1, <1>2, EmptyTape
<1>4. CalcOn(calc', daily')
  <2>1. Daily \in Seq(DailyPrice)
    BY <1>1, ReadIsReading, DailyTyped DEF ScreenInv
  <2>2. /\ Calc(params, Daily).high = YearHigh(Daily)
        /\ Calc(params, Daily).average = MeanVolume(Daily)
    BY DEF Calc
  <2> QED
    BY <1>1, <2>1, <2>2 DEF CalcOn
<1> QED
  BY <1>1, <1>2, <1>3, <1>4 DEF ReplayInv

LEMMA TapeGoesOn ==
    ASSUME ScreenInv, ReplayInv, NextBar
    PROVE  ReplayInv'
<1>1. /\ queue # <<>> /\ report = NoReport /\ UNCHANGED pageVars
      /\ queue' = queue /\ daily' = daily /\ calc' = calc /\ params' = params /\ report' = report
  BY DEF NextBar, Collected
<1>2. reader' = reader
  BY <1>1 DEF pageVars
<1>3. reader # "backtest"
  BY DEF NextBar, Collected, ScreenInv
<1>4. PICK b \in Bars, t \in Times, day \in {engine.day, engine.day + 1} :
        LET bar == [day |-> day, time |-> t, open |-> b.open, high |-> b.high,
                    close |-> b.close, volume |-> b.volume]
        IN  /\ Later(day, t)
            /\ tape' = Append(tape, bar)
            /\ engine' = Play(params, calc, engine, bar, Len(tape) + 1)
  BY DEF NextBar
<1> DEFINE bar == [day |-> day, time |-> t, open |-> b.open, high |-> b.high,
                   close |-> b.close, volume |-> b.volume]
<1>5. BooksOn(engine, tape, params, calc, report # NoReport)
  BY DEF ReplayInv
<1>6. tape \in Seq(TapeBar) /\ engine.day \in Nat /\ CountsOn(engine, tape)
  BY <1>5 DEF BooksOn, IsEngine
<1>7. bar \in TapeBar
  <2>1. b.open \in Nat /\ b.high \in Nat /\ b.close \in Nat /\ b.volume \in Nat
    BY ResearchAssumption DEF ResearchAssumption
  <2>2. t \in Nat
    BY BacktestAssumption DEF BacktestAssumption
  <2>3. day \in Nat
    BY <1>6
  <2> QED
    BY <2>1, <2>2, <2>3 DEF TapeBar
<1>8. bar.day = day
  OBVIOUS
<1>9. day # 0 /\ (Len(tape) # 0 => tape[Len(tape)].day <= day)
  <2>1. CASE tape = <<>>
    <3>1. day = 1
      BY <1>4, <2>1 DEF Later
    <3> QED
      BY <2>1, <3>1
  <2>2. CASE tape # <<>>
    <3>1. Len(tape) \in Nat /\ Len(tape) # 0 /\ Len(tape) \in 1..Len(tape)
      BY <1>6, <2>2
    <3>2. tape[Len(tape)].day \in Nat /\ engine.day = tape[Len(tape)].day
      BY <1>6, <2>2, <3>1, BarTyped DEF CountsOn
    <3>3. tape[Len(tape)].day <= day
      BY <3>2
    <3>4. day # 0
      BY <1>6, <2>2 DEF CountsOn
    <3> QED
      BY <3>3, <3>4
  <2> QED
    BY <2>1, <2>2
<1> HIDE DEF bar
<1> DEFINE e  == Play(params, calc, engine, bar, Len(tape) + 1)
           tp == Append(tape, bar)
<1>10. /\ tp \in Seq(TapeBar) /\ IsEngine(e) /\ CountsOn(e, tp)
       /\ \A k \in DOMAIN e.positions : HeldOn(e.positions[k], tp, params, calc)
       /\ \A k \in DOMAIN e.trades : /\ TradedOn(e.trades[k], tp, params, calc)
                                     /\ SignalledOn(e.trades[k], tp, params, calc)
  BY <1>1, <1>5, <1>7, <1>8, <1>9, BarPlayed
<1>11. tape' = tp /\ engine' = e
  BY <1>4 DEF bar
<1> HIDE DEF e, tp
<1>12. BooksOn(engine', tape', params', calc', report' # NoReport)
  BY <1>1, <1>10, <1>11 DEF BooksOn
<1>13. queue' # <<>> /\ reader' # "backtest" /\ CalcOn(calc', daily')
  BY <1>1, <1>2, <1>3 DEF ReplayInv
<1> QED
  BY <1>12, <1>13 DEF ReplayInv

LEMMA TapeEnds ==
    ASSUME ScreenInv, ReplayInv, LastBar
    PROVE  ReplayInv'
<1> DEFINE n == Len(tape)
           e == CloseAll(engine, tape)
<1>1. /\ queue # <<>> /\ report = NoReport /\ UNCHANGED pageVars /\ tape # <<>>
      /\ queue' = queue /\ daily' = daily /\ calc' = calc /\ params' = params
      /\ tape' = tape /\ engine' = e
  BY DEF LastBar, Collected
<1>2. report' # NoReport
  <2> DEFINE grid == Grids[ModeFor(daily)]
             each == [k \in DOMAIN grid |-> Metrics(Replay(grid[k], daily, tape).trades)]
             made == [metrics |-> Metrics(engine'.trades), order |-> RankedGrid(each)]
  <2>1. report' = made
    BY DEF LastBar
  <2>2. "metrics" \in DOMAIN made
    OBVIOUS
  <2>3. DOMAIN NoReport = {}
    BY DEF NoReport
  <2> QED
    BY <2>1, <2>2, <2>3
<1>3. reader' = reader /\ reader # "backtest"
  BY <1>1 DEF pageVars, LastBar, Collected
<1>4. BooksOn(engine, tape, params, calc, report # NoReport)
  BY DEF ReplayInv
<1>5. /\ tape \in Seq(TapeBar) /\ IsEngine(engine) /\ CountsOn(engine, tape)
      /\ \A k \in DOMAIN engine.positions : HeldOn(engine.positions[k], tape, params, calc)
      /\ \A k \in DOMAIN engine.trades : /\ TradedOn(engine.trades[k], tape, params, calc)
                                         /\ SignalledOn(engine.trades[k], tape, params, calc)
  BY <1>1, <1>4 DEF BooksOn
<1>6. n \in Nat /\ n \in 1..n
  BY <1>1, <1>5
<1>7. /\ IsEngine(e) /\ e.positions = <<>>
      /\ e.volume = engine.volume /\ e.dayOpen = engine.dayOpen /\ e.day = engine.day
      /\ \A k \in DOMAIN e.trades :
            \/ k \in DOMAIN engine.trades /\ e.trades[k] = engine.trades[k]
            \/ \E i \in DOMAIN engine.positions :
                  ClosedAt(e.trades[k], engine.positions[i], n, tape[n].close, "force_close")
  BY <1>5, CloseAllIs
<1> HIDE DEF e
<1>8. CountsOn(e, tape)
  BY <1>1, <1>5, <1>7 DEF CountsOn
<1>9. ASSUME NEW k \in DOMAIN e.trades
      PROVE  /\ TradedOn(e.trades[k], tape, params, calc)
             /\ \/ SignalledOn(e.trades[k], tape, params, calc)
                \/ ForcedOn(e.trades[k], tape)
  <2>1. CASE k \in DOMAIN engine.trades /\ e.trades[k] = engine.trades[k]
    BY <1>5, <2>1
  <2>2. ASSUME NEW i \in DOMAIN engine.positions,
               ClosedAt(e.trades[k], engine.positions[i], n, tape[n].close, "force_close")
        PROVE  TradedOn(e.trades[k], tape, params, calc) /\ ForcedOn(e.trades[k], tape)
    <3> DEFINE t == e.trades[k]
               x == engine.positions[i]
    <3>1. HeldOn(x, tape, params, calc)
      BY <1>5
    <3>2. x.at \in 1..n /\ x.price = tape[x.at].close /\ QuietOn(tape, params, calc, x.at, n)
      BY <3>1 DEF HeldOn
    <3>3. /\ t.at = x.at /\ t.entry = x.price /\ t.until = n
          /\ t.exit = tape[n].close /\ t.why = "force_close"
      BY <2>2 DEF ClosedAt
    <3> HIDE DEF t, x, n
    <3>4. n \in x.at..n /\ \A m \in (x.at + 1)..(n - 1) : m \in (x.at + 1)..n
      BY <1>6, <3>2
    <3>5. QuietOn(tape, params, calc, x.at, n - 1)
      BY <3>2, <3>4 DEF QuietOn
    <3>6. TradedOn(t, tape, params, calc)
      BY <3>2, <3>3, <3>4, <3>5 DEF TradedOn, n
    <3>7. ForcedOn(t, tape)
      BY <3>3 DEF ForcedOn, n
    <3> QED
      BY <3>6, <3>7 DEF t
  <2> QED
    BY <1>7, <2>1, <2>2
<1>10. \A k \in DOMAIN e.positions : FALSE
  BY <1>7
<1>11. BooksOn(engine', tape', params', calc', report' # NoReport)
  BY <1>1, <1>2, <1>5, <1>7, <1>8, <1>9, <1>10 DEF BooksOn
<1>12. queue' # <<>> /\ reader' # "backtest" /\ CalcOn(calc', daily')
  BY <1>1, <1>3 DEF ReplayInv
<1> QED
  BY <1>11, <1>12 DEF ReplayInv

LEMMA ReplayInvStep == ScreenInv /\ ReplayInv /\ [Next]_vars => ReplayInv'
<1> SUFFICES ASSUME ScreenInv, ReplayInv, [Next]_vars PROVE ReplayInv'
  OBVIOUS
<1>1. CASE queue = <<>> /\ UNCHANGED testVars
  BY <1>1, SameBooks
<1>2. CASE Reads /\ UNCHANGED testVars
  <2>1. reader' = reader
    BY <1>2 DEF Reads, PageArrives, PageFails
  <2> QED
    BY <1>2, <2>1, SameBooks
<1>3. CASE AutoBacktest
  BY <1>3, ReplayStarts
<1>4. CASE BacktestStep
  <2>1. queue # <<>>
    BY <1>4 DEF BacktestStep, CollectFails, DailyCollected, NoMinutes, NextBar, LastBar, Done,
           Collected, ScreenInv, QueueInv
  <2> QED
    BY <1>4, <2>1, NextReplay, DaysCollected, TapeGoesOn, TapeEnds
       DEF BacktestStep, CollectFails, NoMinutes, Done
<1>5. CASE UNCHANGED otherVars
  <2>1. UNCHANGED testVars /\ UNCHANGED pageVars
    BY <1>5 DEF otherVars
  <2>2. reader' = reader
    BY <2>1 DEF pageVars
  <2> QED
    BY <2>1, <2>2, SameBooks
<1> QED
  BY <1>1, <1>2, <1>3, <1>4, <1>5 DEF Next, DailyStep, vars

-----------------------------------------------------------------------------
(***************************************************************************)
(* What the replay shows.                                                  *)
(***************************************************************************)

LEMMA BooksGiveFirstExit == ReplayInv => FirstExit
<1> SUFFICES ASSUME ReplayInv PROVE FirstExit
  OBVIOUS
<1>1. /\ \A k \in DOMAIN engine.positions : HeldOn(engine.positions[k], tape, params, calc)
      /\ \A k \in DOMAIN engine.trades :
            /\ TradedOn(engine.trades[k], tape, params, calc)
            /\ \/ SignalledOn(engine.trades[k], tape, params, calc)
               \/ report # NoReport /\ ForcedOn(engine.trades[k], tape)
  BY DEF ReplayInv, BooksOn
<1>2. \A at, n : ExitHere(at, n) = ExitOf(tape, params, calc, at, n)
  BY DEF ExitHere, ExitOf, Peak, PeakOf, HighsOf
<1>3. \A at, n : ExitHere(at, n) = "" <=> Stays(ExitOf(tape, params, calc, at, n))
  BY <1>2, Zenon DEF Stays
<1>4. ASSUME NEW k \in DOMAIN engine.trades
      PROVE  LET t == engine.trades[k]
             IN  /\ t.entry = tape[t.at].close /\ t.exit = tape[t.until].close
                 /\ \A n \in (t.at + 1)..(t.until - 1) : ExitHere(t.at, n) = ""
                 /\ \/ t.until > t.at /\ t.why = ExitHere(t.at, t.until)
                    \/ t.why = "force_close" /\ report # NoReport /\ t.until = Len(tape)
  <2> DEFINE t == engine.trades[k]
  <2>1. /\ TradedOn(t, tape, params, calc)
        /\ SignalledOn(t, tape, params, calc) \/ (report # NoReport /\ ForcedOn(t, tape))
    BY <1>1
  <2> HIDE DEF t
  <2>2. t.entry = tape[t.at].close /\ t.exit = tape[t.until].close
    BY <2>1 DEF TradedOn
  <2>3. \A n \in (t.at + 1)..(t.until - 1) : Stays(ExitOf(tape, params, calc, t.at, n))
    BY <2>1 DEF TradedOn, QuietOn
  <2>4. \A n \in (t.at + 1)..(t.until - 1) : ExitHere(t.at, n) = ""
    BY <1>3, <2>3, Zenon
  <2>5. \/ t.until > t.at /\ t.why = ExitHere(t.at, t.until)
        \/ t.why = "force_close" /\ report # NoReport /\ t.until = Len(tape)
    BY <1>2, <2>1 DEF SignalledOn, ForcedOn
  <2> QED
    BY <2>2, <2>4, <2>5, Zenon DEF t
<1>5. ASSUME NEW k \in DOMAIN engine.positions,
             NEW n \in (engine.positions[k].at + 1)..Len(tape)
      PROVE  ExitHere(engine.positions[k].at, n) = ""
  <2>1. HeldOn(engine.positions[k], tape, params, calc)
    BY <1>1
  <2>2. Stays(ExitOf(tape, params, calc, engine.positions[k].at, n))
    BY <2>1 DEF HeldOn, QuietOn
  <2> QED
    BY <1>3, <2>2, Zenon
<1> QED
  BY <1>4, <1>5, Zenon DEF FirstExit

\* Within the engine's year both strategies look at the same high and the same
\* average volume.
LEMMA EntryLikeTrader ==
    ASSUME NEW days \in Seq(DailyPrice), Len(days) <= YearDays,
           NEW p, NEW price, NEW volume, NEW rsi, NEW dayOpen, NEW barOpen, NEW time,
           EntrySignal(p, price, YearHigh(days), volume, MeanVolume(days), rsi,
                       dayOpen, barOpen, time)
    PROVE  MomentumEntry(p, days, price, volume, <<1, 1>>, dayOpen, time)
<1> DEFINE recent == Recent(days, VolumeDays)
           list   == [i \in DOMAIN recent |-> recent[i].volume]
           total  == SumOf(list)
           year   == Recent(days, YearDays)
           mean   == (total * <<1, 1>>[1]) \div (Len(recent) * <<1, 1>>[2])
           high   == Max({days[i].high : i \in DOMAIN days})
<1>1. VolumeDays \in Nat /\ YearDays \in Nat
  BY StrategiesAssumption DEF StrategiesAssumption
<1>2. days # <<>>
  <2>1. MeanVolume(days) > 0
    BY DEF EntrySignal
  <2>2. days = <<>> => MeanVolume(days) = 0
    BY DEF MeanVolume
  <2> QED
    BY <2>1, <2>2
<1>3. YearHigh(days) = high
  <2>1. /\ year \in Seq(DailyPrice)
        /\ Len(year) = IF YearDays <= Len(days) THEN YearDays ELSE Len(days)
        /\ \A i \in 1..Len(year) : year[i] = days[i + (Len(days) - Len(year))]
    BY <1>1, RecentIs
  <2>2. Len(days) \in Nat /\ DOMAIN days = 1..Len(days) /\ DOMAIN year = 1..Len(year)
    BY <2>1
  <2>3. YearHigh(days) = Max({year[i].high : i \in DOMAIN year})
    BY <1>2 DEF YearHigh
  <2> HIDE DEF year
  <2>4. Len(year) = Len(days)
    <3> DEFINE a == Len(year)
               b == Len(days)
    <3>1. a = (IF YearDays <= b THEN YearDays ELSE b) /\ b <= YearDays /\ b \in Nat
      BY <2>1, <2>2
    <3> HIDE DEF a, b
    <3>2. a = b
      BY <1>1, <3>1
    <3> QED
      BY <3>2 DEF a, b
  <2>5. \A i \in 1..Len(days) : i + (Len(days) - Len(year)) = i
    BY <2>2, <2>4
  <2>6. \A i \in 1..Len(days) : year[i] = days[i]
    BY <2>1, <2>4, <2>5
  <2>7. {year[i].high : i \in DOMAIN year} = {days[i].high : i \in DOMAIN days}
    BY <2>2, <2>4, <2>6
  <2> QED
    BY <2>3, <2>7
<1>4. MeanVolume(days) = mean
  <2>1. recent \in Seq(DailyPrice)
    BY <1>1, RecentIs
  <2>2. Len(recent) \in Nat
    BY <2>1
  <2>3. total \in Nat
    <3>1. DOMAIN recent = 1..Len(recent) /\ \A i \in 1..Len(recent) : recent[i] \in DailyPrice
      BY <2>1
    <3>2. \A i \in 1..Len(recent) : recent[i].volume \in Nat
      BY <3>1 DEF DailyPrice
    <3>3. list \in Seq(Nat)
      BY <2>2, <3>1, <3>2
    <3> HIDE DEF list
    <3> QED
      BY <3>3, SumOfNumbers
  <2>4. MeanVolume(days) = total \div Len(recent)
    BY <1>2 DEF MeanVolume
  <2> HIDE DEF recent, total
  <2>5. total * <<1, 1>>[1] = total /\ Len(recent) * <<1, 1>>[2] = Len(recent)
    BY <2>2, <2>3
  <2> QED
    BY <2>4, <2>5
<1>5. MomentumEntry(p, days, price, volume, <<1, 1>>, dayOpen, time)
        <=> /\ days # <<>>
            /\ EntrySignal(p, price, high, volume, mean, <<>>, dayOpen, 0, time)
  BY DEF MomentumEntry
<1> HIDE DEF high, mean
<1>6. EntrySignal(p, price, high, volume, mean, rsi, dayOpen, barOpen, time)
  BY <1>3, <1>4
<1>7. EntrySignal(p, price, high, volume, mean, <<>>, dayOpen, 0, time)
  BY <1>6 DEF EntrySignal
<1> QED
  BY <1>2, <1>5, <1>7

LEMMA BooksGiveTheTradersEntry == ReplayInv => ReplayBuysLikeTheTrader
<1> SUFFICES ASSUME ReplayInv, Len(daily) <= YearDays, NEW k \in DOMAIN engine.positions
             PROVE  LET n   == engine.positions[k].at
                        day == DayOf(n)
                        volume == SumFunctionOnSet([i \in DOMAIN tape |-> tape[i].volume], day)
                    IN  MomentumEntry(params, daily, tape[n].close, volume, <<1, 1>>,
                                      tape[Min(day)].open, tape[n].time)
  BY DEF ReplayBuysLikeTheTrader
<1> DEFINE n == engine.positions[k].at
<1>1. HeldOn(engine.positions[k], tape, params, calc) /\ tape \in Seq(TapeBar)
  BY DEF ReplayInv, BooksOn
<1>2. n \in 1..Len(tape) /\ BoughtOn(tape, params, calc, n)
  BY <1>1 DEF HeldOn
<1>3. CalcOn(calc, daily)
  <2>1. tape # <<>>
    BY <1>2
  <2> QED
    BY <2>1 DEF ReplayInv
<1> HIDE DEF n
<1>4. EntrySignal(params, tape[n].close, YearHigh(daily), VolumeIn(tape, n), MeanVolume(daily),
                  calc.rsi, OpenIn(tape, n), tape[n].open, tape[n].time)
  BY <1>2, <1>3 DEF BoughtOn, CalcOn
<1>5. MomentumEntry(params, daily, tape[n].close, VolumeIn(tape, n), <<1, 1>>,
                    OpenIn(tape, n), tape[n].time)
  BY <1>3, <1>4, EntryLikeTrader DEF CalcOn
<1>6. /\ VolumeIn(tape, n)
           = SumFunctionOnSet([i \in DOMAIN tape |-> tape[i].volume], DayOf(n))
      /\ OpenIn(tape, n) = tape[Min(DayOf(n))].open
  BY DEF VolumeIn, OpenIn, Volumes, DayIn, DayOf
<1> QED
  BY <1>5, <1>6 DEF n

\* A position is closed at the first bar at which the strategy says so, with
\* the highest price since its entry as peak, and not a bar earlier or later:
\* whatever the bars, the parameters and the daily prices (BacktestEngine.run
\* keeps peaks and positions from bar to bar).
THEOREM ExitsAtFirstSignal == Spec => []FirstExit
<1>1. ScreenInv /\ ReplayInv /\ [Next]_vars => (ScreenInv /\ ReplayInv)'
  BY ScreenInvStep, ReplayInvStep
<1> QED
  BY ScreenInvInit, ReplayInvInit, <1>1, BooksGiveFirstExit, PTL DEF Spec

\* What the replay buys, the trader's momentum strategy buys at that price too:
\* the engine's own high, average, cumulative volume and opening price are
\* those the trader is told by the broker.
THEOREM ReplayFollowsTheTrader == Spec => []ReplayBuysLikeTheTrader
<1>1. ScreenInv /\ ReplayInv /\ [Next]_vars => (ScreenInv /\ ReplayInv)'
  BY ScreenInvStep, ReplayInvStep
<1> QED
  BY ScreenInvInit, ReplayInvInit, <1>1, BooksGiveTheTradersEntry, PTL DEF Spec
=============================================================================
