----------------------------- MODULE DataLemmas ----------------------------
(***************************************************************************)
(* Induction, sums and lists, for the proofs about money, prices and       *)
(* choices.  The induction principles quantify over sets instead of        *)
(* predicates, so that the provers can instantiate them: the P of a proof  *)
(* is the set of numbers or subsets for which the claim holds.  From them  *)
(* follow the facts about SumFunctionOnSet that a change of one position,  *)
(* order or task needs, and what a filtered and a sorted list consist of.  *)
(***************************************************************************)
EXTENDS Lists, Functions, FiniteSetTheorems, WellFoundedInduction, TLAPS

\* A set of numbers that has 0 and the successor of each of its members has
\* them all: otherwise take the smallest number it lacks.
LEMMA NumbersByInduction ==
    ASSUME NEW P, 0 \in P, \A n \in Nat : n \in P => n + 1 \in P
    PROVE  \A n \in Nat : n \in P
  <1> SUFFICES ASSUME NEW m \in Nat, m \notin P PROVE FALSE
    OBVIOUS
  <1> DEFINE Less == OpToRel(<, Nat)
             Missing == {n \in Nat : n \notin P}
  <1>1. IsWellFoundedOn(Less, Nat)
    BY NatLessThanWellFounded
  <1>2. \A x, y \in Nat : x < y => <<x, y>> \in Less
    BY DEF OpToRel
  <1> HIDE DEF Less
  <1>3. PICK k \in Missing : \A n \in Missing : ~(<<n, k>> \in Less)
    <2>1. Missing \subseteq Nat /\ Missing # {}
      OBVIOUS
    <2> HIDE DEF Missing
    <2> QED
      BY <1>1, <2>1, WFMin
  <1>4. k \in Nat /\ k # 0 /\ k \notin P
    BY <1>3
  <1>5. k - 1 \in Nat /\ k - 1 < k /\ (k - 1) + 1 = k
    BY <1>4
  <1>6. k - 1 \notin Missing
    BY <1>2, <1>3, <1>4, <1>5
  <1> QED
    BY <1>4, <1>5, <1>6

\* A set of subsets of a finite S that has every subset all of whose one
\* smaller subsets it has (the empty set at once) has S itself.
LEMMA SubsetsByInduction ==
    ASSUME NEW S, IsFiniteSet(S), NEW P,
           \A T \in SUBSET S : (\A x \in T : T \ {x} \in P) => T \in P
    PROVE  \A T \in SUBSET S : T \in P
  <1> DEFINE Q == {n \in Nat : \A T \in SUBSET S : Cardinality(T) = n => T \in P}
  <1>a. \A T \in SUBSET S : IsFiniteSet(T) /\ Cardinality(T) \in Nat
    BY FS_Subset, FS_CardinalityType
  <1>1. 0 \in Q
    <2>1. ASSUME NEW T \in SUBSET S, Cardinality(T) = 0 PROVE T = {}
      BY <1>a, <2>1, FS_EmptySet
    <2> QED
      BY <2>1
  <1>2. ASSUME NEW n \in Nat, n \in Q PROVE n + 1 \in Q
    <2> SUFFICES ASSUME NEW T \in SUBSET S, Cardinality(T) = n + 1,
                        NEW x \in T
                 PROVE  Cardinality(T \ {x}) = n
      BY <1>2
    <2>1. Cardinality(T \ {x}) = Cardinality(T) - 1
      BY <1>a, FS_RemoveElement
    <2> QED
      BY <2>1
  <1>3. \A n \in Nat : n \in Q
    <2> HIDE DEF Q
    <2> QED
      BY <1>1, <1>2, NumbersByInduction
  <1> QED
    BY <1>a, <1>3

-----------------------------------------------------------------------------
(***************************************************************************)
(* The recursive function under SumFunctionOnSet.  It exists because its   *)
(* restriction to the subsets of at most n members exists for every n.     *)
(***************************************************************************)

Some(s) == CHOOSE x \in s : TRUE

IsPartialSum(g, f, D) ==
    g = [s \in D |-> IF s = {} THEN 0 ELSE f[Some(s)] + g[s \ {Some(s)}]]

IsSum(g, f, S) == IsPartialSum(g, f, SUBSET S)

LEMMA SumIsChosen ==
    ASSUME NEW f, NEW S
    PROVE  SumFunctionOnSet(f, S) =
             (CHOOSE g : IsPartialSum(g, f, SUBSET S))[S]
  BY DEF SumFunctionOnSet, FoldFunctionOnSet, MapThenFoldSet, IsPartialSum, Some

LEMMA SomeIsIn == \A s : s # {} => Some(s) \in s
  BY DEF Some

LEMMA PartialSumExists ==
    ASSUME NEW f, NEW S, IsFiniteSet(S)
    PROVE  \E g : IsPartialSum(g, f, SUBSET S)
  <1> DEFINE Upto(n) == {s \in SUBSET S : Cardinality(s) <= n}
             Q == {n \in Nat : \E g : IsPartialSum(g, f, Upto(n))}
  <1>1. 0 \in Q
    <2>1. Upto(0) = {{}}
      BY FS_Subset, FS_EmptySet, FS_CardinalityType
    <2> DEFINE g == [s \in {{}} |-> 0]
    <2>2. IsPartialSum(g, f, {{}})
      BY DEF IsPartialSum
    <2> QED
      BY <2>1, <2>2
  <1>2. ASSUME NEW n \in Nat, n \in Q PROVE n + 1 \in Q
    <2>1. PICK g : IsPartialSum(g, f, Upto(n))
      BY <1>2
    <2> DEFINE h == [s \in Upto(n + 1) |->
                        IF s = {} THEN 0 ELSE f[Some(s)] + g[s \ {Some(s)}]]
    <2>2. ASSUME NEW s \in Upto(n + 1), s # {}
          PROVE  /\ s \ {Some(s)} \in Upto(n)
                 /\ s \ {Some(s)} \in Upto(n + 1)
      <3>1. IsFiniteSet(s) /\ Some(s) \in s
        BY <2>2, FS_Subset, SomeIsIn
      <3>2. Cardinality(s \ {Some(s)}) = Cardinality(s) - 1
        BY <3>1, FS_RemoveElement
      <3>3. Cardinality(s) \in Nat /\ Cardinality(s) <= n + 1
        BY <3>1, FS_CardinalityType
      <3> QED
        BY <3>2, <3>3
    <2>3. ASSUME NEW s \in Upto(n) PROVE h[s] = g[s]
      <3>1. s \in Upto(n + 1)
        BY FS_Subset, FS_CardinalityType
      <3> HIDE DEF Upto
      <3>2. h[s] = IF s = {} THEN 0 ELSE f[Some(s)] + g[s \ {Some(s)}]
        BY <3>1
      <3>3. g[s] = IF s = {} THEN 0 ELSE f[Some(s)] + g[s \ {Some(s)}]
        BY <2>1 DEF IsPartialSum
      <3> QED
        BY <3>2, <3>3
    <2>4. IsPartialSum(h, f, Upto(n + 1))
      <3> HIDE DEF Upto
      <3>1. ASSUME NEW s \in Upto(n + 1), s # {}
            PROVE  h[s \ {Some(s)}] = g[s \ {Some(s)}]
        BY <2>2, <2>3, <3>1
      <3> QED
        BY <3>1 DEF IsPartialSum
    <2> QED
      BY <2>4
  <1>3. \A n \in Nat : n \in Q
    <2> HIDE DEF Q
    <2> QED
      BY <1>1, <1>2, NumbersByInduction
  <1>4. Cardinality(S) \in Nat /\ Upto(Cardinality(S)) = SUBSET S
    BY FS_CardinalityType, FS_Subset
  <1> QED
    BY <1>3, <1>4

LEMMA PartialSumUnique ==
    ASSUME NEW f, NEW S, IsFiniteSet(S), NEW T \in SUBSET S,
           NEW g, IsSum(g, f, S), NEW h, IsSum(h, f, T)
    PROVE  g[T] = h[T]
  <1> DEFINE P == {U \in SUBSET T : g[U] = h[U]}
  <1>1. \A U \in SUBSET T :
          /\ g[U] = IF U = {} THEN 0 ELSE f[Some(U)] + g[U \ {Some(U)}]
          /\ h[U] = IF U = {} THEN 0 ELSE f[Some(U)] + h[U \ {Some(U)}]
    BY DEF IsSum, IsPartialSum
  <1>2. ASSUME NEW U \in SUBSET T, \A x \in U : U \ {x} \in P
        PROVE  U \in P
    BY <1>1, <1>2, SomeIsIn
  <1>3. IsFiniteSet(T)
    BY FS_Subset
  <1> HIDE DEF P
  <1>4. T \in P
    BY <1>2, <1>3, SubsetsByInduction
  <1> QED
    BY <1>4 DEF P

LEMMA SumIsPartialSum ==
    ASSUME NEW f, NEW S, IsFiniteSet(S)
    PROVE  \E g : IsSum(g, f, S) /\ SumFunctionOnSet(f, S) = g[S]
  <1> DEFINE g == CHOOSE h : IsSum(h, f, S)
  <1>1. IsSum(g, f, S)
    BY PartialSumExists DEF IsSum
  <1>2. SumFunctionOnSet(f, S) = g[S]
    BY SumIsChosen DEF IsSum
  <1> HIDE DEF g
  <1> QED
    BY <1>1, <1>2

-----------------------------------------------------------------------------
(***************************************************************************)
(* What the proofs use.                                                    *)
(***************************************************************************)

LEMMA SumOfNothing ==
    ASSUME NEW f
    PROVE  SumFunctionOnSet(f, {}) = 0
  <1>1. PICK g : /\ IsSum(g, f, {})
                 /\ SumFunctionOnSet(f, {}) = g[{}]
    BY SumIsPartialSum, FS_EmptySet
  <1> QED
    BY <1>1 DEF IsSum, IsPartialSum

LEMMA SumOfSome ==
    ASSUME NEW f, NEW S, IsFiniteSet(S), S # {}
    PROVE  SumFunctionOnSet(f, S) =
             f[Some(S)] + SumFunctionOnSet(f, S \ {Some(S)})
  <1> DEFINE T == S \ {Some(S)}
  <1>1. PICK g : /\ IsSum(g, f, S)
                 /\ SumFunctionOnSet(f, S) = g[S]
    BY SumIsPartialSum
  <1>2. IsFiniteSet(T) /\ T \in SUBSET S
    BY FS_Subset
  <1> HIDE DEF T
  <1>3. PICK h : /\ IsSum(h, f, T)
                 /\ SumFunctionOnSet(f, T) = h[T]
    BY <1>2, SumIsPartialSum
  <1>4. g[T] = h[T]
    BY <1>1, <1>2, <1>3, PartialSumUnique
  <1>5. g[S] = f[Some(S)] + g[T]
    BY <1>1 DEF IsSum, IsPartialSum, T
  <1> QED
    BY <1>1, <1>3, <1>4, <1>5 DEF T

\* A sum of numbers is a number, and any member can be taken out first.
LEMMA SumTyped ==
    ASSUME NEW f, NEW S, IsFiniteSet(S), \A x \in S : f[x] \in Nat
    PROVE  SumFunctionOnSet(f, S) \in Nat
  <1> DEFINE P == {T \in SUBSET S : SumFunctionOnSet(f, T) \in Nat}
  <1>1. ASSUME NEW T \in SUBSET S, \A x \in T : T \ {x} \in P
        PROVE  T \in P
    <2>1. CASE T = {}
      BY <2>1, SumOfNothing
    <2>2. CASE T # {}
      <3>1. Some(T) \in T /\ IsFiniteSet(T)
        BY <2>2, SomeIsIn, FS_Subset
      <3>2. SumFunctionOnSet(f, T) =
               f[Some(T)] + SumFunctionOnSet(f, T \ {Some(T)})
        BY <2>2, <3>1, SumOfSome
      <3>3. SumFunctionOnSet(f, T \ {Some(T)}) \in Nat /\ f[Some(T)] \in Nat
        BY <1>1, <3>1
      <3> QED
        BY <3>2, <3>3
    <2> QED
      BY <2>1, <2>2
  <1> HIDE DEF P
  <1>2. \A T \in SUBSET S : T \in P
    BY <1>1, SubsetsByInduction
  <1> QED
    BY <1>2 DEF P

LEMMA SumWithout ==
    ASSUME NEW f, NEW S, IsFiniteSet(S), \A x \in S : f[x] \in Nat
    PROVE  \A a \in S : SumFunctionOnSet(f, S) =
                          f[a] + SumFunctionOnSet(f, S \ {a})
  <1> DEFINE Out(T, x) == SumFunctionOnSet(f, T) =
                            f[x] + SumFunctionOnSet(f, T \ {x})
             P == {T \in SUBSET S : \A x \in T : Out(T, x)}
  <1>1. ASSUME NEW T \in SUBSET S, \A x \in T : T \ {x} \in P, NEW x \in T
        PROVE  Out(T, x)
    <2> DEFINE y == Some(T)
    <2>1. IsFiniteSet(T) /\ y \in T
      BY FS_Subset, SomeIsIn
    <2>2. Out(T, y)
      BY <2>1, SumOfSome
    <2> HIDE DEF y
    <2>3. CASE x = y
      BY <2>2, <2>3
    <2>4. CASE x # y
      <3>1. Out(T \ {y}, x) /\ Out(T \ {x}, y)
        <4>1. /\ T \ {y} \in P /\ x \in T \ {y}
              /\ T \ {x} \in P /\ y \in T \ {x}
          BY <1>1, <2>1, <2>4
        <4> HIDE DEF Out
        <4> QED
          BY <4>1
      <3>2. SumFunctionOnSet(f, (T \ {y}) \ {x}) =
              SumFunctionOnSet(f, (T \ {x}) \ {y})
        <4>1. (T \ {y}) \ {x} = (T \ {x}) \ {y}
          OBVIOUS
        <4> QED
          BY <4>1
      <3>3. /\ f[x] \in Nat /\ f[y] \in Nat
            /\ SumFunctionOnSet(f, (T \ {x}) \ {y}) \in Nat
        <4>1. IsFiniteSet((T \ {x}) \ {y})
          BY <2>1, FS_Subset
        <4> QED
          BY <2>1, <4>1, SumTyped
      <3> QED
        BY <2>2, <3>1, <3>2, <3>3
    <2> QED
      BY <2>3, <2>4
  <1>2. \A T \in SUBSET S : T \in P
    <2>1. \A T \in SUBSET S : (\A x \in T : T \ {x} \in P) => T \in P
      BY <1>1
    <2> HIDE DEF P
    <2> QED
      BY <2>1, SubsetsByInduction
  <1> QED
    BY <1>2

\* Only the values on the set count.
LEMMA SumOfSameValues ==
    ASSUME NEW f, NEW g, NEW S, IsFiniteSet(S), \A x \in S : f[x] = g[x]
    PROVE  SumFunctionOnSet(f, S) = SumFunctionOnSet(g, S)
  <1> DEFINE P == {T \in SUBSET S :
                     SumFunctionOnSet(f, T) = SumFunctionOnSet(g, T)}
  <1>1. ASSUME NEW T \in SUBSET S, \A x \in T : T \ {x} \in P
        PROVE  T \in P
    <2>1. CASE T = {}
      BY <2>1, SumOfNothing
    <2>2. CASE T # {}
      <3>1. Some(T) \in T /\ IsFiniteSet(T)
        BY <2>2, SomeIsIn, FS_Subset
      <3>2. /\ SumFunctionOnSet(f, T) =
                 f[Some(T)] + SumFunctionOnSet(f, T \ {Some(T)})
            /\ SumFunctionOnSet(g, T) =
                 g[Some(T)] + SumFunctionOnSet(g, T \ {Some(T)})
        BY <2>2, <3>1, SumOfSome
      <3> QED
        BY <1>1, <3>1, <3>2
    <2> QED
      BY <2>1, <2>2
  <1> HIDE DEF P
  <1>2. \A T \in SUBSET S : T \in P
    BY <1>1, SubsetsByInduction
  <1> QED
    BY <1>2 DEF P

LEMMA SumWith ==
    ASSUME NEW f, NEW S, IsFiniteSet(S), NEW a, a \notin S,
           f[a] \in Nat, \A x \in S : f[x] \in Nat
    PROVE  SumFunctionOnSet(f, S \cup {a}) = f[a] + SumFunctionOnSet(f, S)
  <1> DEFINE T == S \cup {a}
  <1>1. IsFiniteSet(T) /\ a \in T /\ T \ {a} = S
    BY FS_AddElement
  <1>2. \A x \in T : f[x] \in Nat
    OBVIOUS
  <1> HIDE DEF T
  <1>3. SumFunctionOnSet(f, T) = f[a] + SumFunctionOnSet(f, T \ {a})
    BY <1>1, <1>2, SumWithout
  <1> QED
    BY <1>1, <1>3 DEF T

\* A part of the set has at most its sum.
LEMMA SumOfPart ==
    ASSUME NEW f, NEW S, IsFiniteSet(S), \A x \in S : f[x] \in Nat
    PROVE  \A T \in SUBSET S : SumFunctionOnSet(f, T) <= SumFunctionOnSet(f, S)
  <1> DEFINE P == {U \in SUBSET S : \A T \in SUBSET U :
                     SumFunctionOnSet(f, T) <= SumFunctionOnSet(f, U)}
  <1>1. ASSUME NEW U \in SUBSET S, \A x \in U : U \ {x} \in P,
               NEW T \in SUBSET U
        PROVE  SumFunctionOnSet(f, T) <= SumFunctionOnSet(f, U)
    <2>1. IsFiniteSet(U) /\ IsFiniteSet(T)
      BY FS_Subset
    <2>2. SumFunctionOnSet(f, U) \in Nat /\ SumFunctionOnSet(f, T) \in Nat
      BY <2>1, SumTyped
    <2>3. CASE T = U
      BY <2>2, <2>3
    <2>4. CASE T # U
      <3>1. PICK x \in U : x \notin T
        BY <2>4
      <3> DEFINE V == U \ {x}
      <3>2. V \in P /\ T \in SUBSET V /\ IsFiniteSet(V)
        BY <1>1, <2>1, <3>1, FS_Subset
      <3>3. SumFunctionOnSet(f, U) = f[x] + SumFunctionOnSet(f, V)
        BY <2>1, <3>1, SumWithout
      <3>4. SumFunctionOnSet(f, V) \in Nat /\ f[x] \in Nat
        BY <3>2, SumTyped
      <3> HIDE DEF V
      <3>5. SumFunctionOnSet(f, T) <= SumFunctionOnSet(f, V)
        BY <3>2
      <3> QED
        BY <2>2, <3>3, <3>4, <3>5
    <2> QED
      BY <2>3, <2>4
  <1>2. \A U \in SUBSET S : U \in P
    <2>1. \A U \in SUBSET S : (\A x \in U : U \ {x} \in P) => U \in P
      BY <1>1
    <2> HIDE DEF P
    <2> QED
      BY <2>1, SubsetsByInduction
  <1> QED
    BY <1>2

\* n numbers up to c have a sum of at most n * c.
LEMMA SumAtMost ==
    ASSUME NEW f, NEW S, IsFiniteSet(S), NEW c \in Nat,
           \A x \in S : f[x] \in Nat /\ f[x] <= c
    PROVE  SumFunctionOnSet(f, S) <= Cardinality(S) * c
  <1> DEFINE Bounded(T) == SumFunctionOnSet(f, T) <= Cardinality(T) * c
             P == {T \in SUBSET S : Bounded(T)}
  <1>1. ASSUME NEW T \in SUBSET S, \A x \in T : T \ {x} \in P
        PROVE  Bounded(T)
    <2>1. CASE T = {}
      BY <2>1, SumOfNothing, FS_EmptySet
    <2>2. CASE T # {}
      <3>1. PICK x \in T : TRUE
        BY <2>2
      <3> DEFINE U == T \ {x}
      <3>2. IsFiniteSet(T) /\ IsFiniteSet(U) /\ U \in P
        BY <1>1, FS_Subset
      <3>3. SumFunctionOnSet(f, T) = f[x] + SumFunctionOnSet(f, U)
        BY <3>2, SumWithout
      <3>4. Cardinality(T) = Cardinality(U) + 1
        <4>1. Cardinality(U) = Cardinality(T) - 1 /\ Cardinality(T) \in Nat
          BY <3>2, FS_RemoveElement, FS_CardinalityType
        <4> QED
          BY <4>1
      <3>5. /\ SumFunctionOnSet(f, U) \in Nat /\ f[x] \in Nat /\ f[x] <= c
            /\ Cardinality(U) \in Nat
        BY <3>2, SumTyped, FS_CardinalityType
      <3>6. SumFunctionOnSet(f, U) <= Cardinality(U) * c
        BY <3>2
      <3>7. \A n \in Nat : (n + 1) * c = n * c + c /\ n * c \in Nat
        OBVIOUS
      <3> HIDE DEF U
      <3>8. Cardinality(T) * c = Cardinality(U) * c + c
        BY <3>4, <3>5, <3>7
      <3> QED
        BY <3>3, <3>5, <3>6, <3>7, <3>8
    <2> QED
      BY <2>1, <2>2
  <1>2. \A T \in SUBSET S : T \in P
    <2>1. \A T \in SUBSET S : (\A x \in T : T \ {x} \in P) => T \in P
      BY <1>1
    <2> HIDE DEF P
    <2> QED
      BY <2>1, SubsetsByInduction
  <1> QED
    BY <1>2

\* Two sets together have at most the sum of both.
LEMMA SumOfUnion ==
    ASSUME NEW f, NEW S, IsFiniteSet(S), NEW T, IsFiniteSet(T),
           \A x \in S \cup T : f[x] \in Nat
    PROVE  SumFunctionOnSet(f, S \cup T) <=
             SumFunctionOnSet(f, S) + SumFunctionOnSet(f, T)
  <1> DEFINE Both(U) == SumFunctionOnSet(f, S \cup U) <=
                          SumFunctionOnSet(f, S) + SumFunctionOnSet(f, U)
             P == {U \in SUBSET T : Both(U)}
  <1>0. SumFunctionOnSet(f, S) \in Nat
    BY SumTyped
  <1>1. ASSUME NEW U \in SUBSET T, \A x \in U : U \ {x} \in P
        PROVE  Both(U)
    <2>1. CASE U = {}
      <3>1. S \cup U = S
        BY <2>1
      <3> QED
        BY <1>0, <2>1, <3>1, SumOfNothing
    <2>2. CASE U # {}
      <3>1. PICK x \in U : TRUE
        BY <2>2
      <3> DEFINE V == U \ {x}
      <3>2. IsFiniteSet(U) /\ IsFiniteSet(V) /\ Both(V)
        BY <1>1, FS_Subset
      <3>3. SumFunctionOnSet(f, U) = f[x] + SumFunctionOnSet(f, V)
        BY <3>2, SumWithout
      <3>4. IsFiniteSet(S \cup V) /\ x \in T /\ V \in SUBSET T
        BY <3>2, FS_Union
      <3>5. /\ SumFunctionOnSet(f, V) \in Nat /\ f[x] \in Nat
            /\ SumFunctionOnSet(f, S \cup V) \in Nat
        BY <3>2, <3>4, SumTyped
      <3>6. CASE x \in S
        <4>1. S \cup U = S \cup V
          BY <3>6
        <4> HIDE DEF V
        <4>2. SumFunctionOnSet(f, S \cup U) = SumFunctionOnSet(f, S \cup V)
          BY <4>1
        <4> QED
          BY <1>0, <3>2, <3>3, <3>5, <4>2
      <3>7. CASE x \notin S
        <4>1. S \cup U = (S \cup V) \cup {x} /\ x \notin S \cup V
          BY <3>7
        <4>2. \A y \in S \cup V : f[y] \in Nat
          BY <3>4
        <4> HIDE DEF V
        <4>3. SumFunctionOnSet(f, (S \cup V) \cup {x}) =
                f[x] + SumFunctionOnSet(f, S \cup V)
          <5> DEFINE W == S \cup V
          <5>1. IsFiniteSet(W) /\ x \notin W /\ \A y \in W : f[y] \in Nat
            BY <3>4, <4>1, <4>2
          <5> HIDE DEF W
          <5>2. SumFunctionOnSet(f, W \cup {x}) = f[x] + SumFunctionOnSet(f, W)
            BY <3>5, <5>1, SumWith
          <5> QED
            BY <5>2 DEF W
        <4>4. SumFunctionOnSet(f, S \cup U) =
                f[x] + SumFunctionOnSet(f, S \cup V)
          BY <4>1, <4>3
        <4> QED
          BY <1>0, <3>2, <3>3, <3>5, <4>4
      <3> QED
        BY <3>6, <3>7
    <2> QED
      BY <2>1, <2>2
  <1>2. \A U \in SUBSET T : U \in P
    <2>1. \A U \in SUBSET T : (\A x \in U : U \ {x} \in P) => U \in P
      BY <1>1
    <2> HIDE DEF P
    <2> QED
      BY <2>1, SubsetsByInduction
  <1> QED
    BY <1>2

(***************************************************************************)
(* What a filter of a list leaves.  The recursive function exists because  *)
(* it exists up to every number.                                           *)
(***************************************************************************)

IsPicking(g, list, positions, n) ==
    g = [m \in 0..n |-> IF m = 0 THEN <<>>
                        ELSE IF m \in positions THEN Append(g[m - 1], list[m])
                                                ELSE g[m - 1]]

LEMMA PickedIsChosen ==
    ASSUME NEW list, NEW positions
    PROVE  Picked(list, positions) =
              (CHOOSE g : IsPicking(g, list, positions, Len(list)))[Len(list)]
BY DEF Picked, IsPicking

LEMMA PickingExists ==
    ASSUME NEW list, NEW positions
    PROVE  \A n \in Nat : \E g : IsPicking(g, list, positions, n)
<1> DEFINE Q == {n \in Nat : \E g : IsPicking(g, list, positions, n)}
<1>1. 0 \in Q
  <2> DEFINE g == [m \in 0..0 |-> <<>>]
  <2>1. IsPicking(g, list, positions, 0)
    BY DEF IsPicking
  <2> QED
    BY <2>1
<1>2. ASSUME NEW n \in Nat, n \in Q PROVE n + 1 \in Q
  <2>1. PICK g : IsPicking(g, list, positions, n)
    BY <1>2
  <2> DEFINE Next1(m) == IF m \in positions THEN Append(g[m - 1], list[m])
                                            ELSE g[m - 1]
             h == [m \in 0..(n + 1) |-> IF m = 0 THEN <<>> ELSE Next1(m)]
  <2>2. \A m \in 0..n : g[m] = IF m = 0 THEN <<>> ELSE Next1(m)
    BY <2>1 DEF IsPicking
  <2>3. \A m \in 0..(n + 1) : h[m] = IF m = 0 THEN <<>> ELSE Next1(m)
    OBVIOUS
  <2>4. \A m \in 0..n : m \in 0..(n + 1) /\ h[m] = g[m]
    BY <2>2, <2>3
  <2>5. \A m \in 1..(n + 1) : m - 1 \in 0..n
    OBVIOUS
  <2>6. ASSUME NEW m \in 0..(n + 1), m # 0
        PROVE  Next1(m) = IF m \in positions THEN Append(h[m - 1], list[m])
                                             ELSE h[m - 1]
    <3>1. m - 1 \in 0..n
      <4>1. m \in 1..(n + 1)
        BY <2>6
      <4> QED
        BY <2>5, <4>1
    <3>2. h[m - 1] = g[m - 1]
      BY <2>4, <3>1
    <3> HIDE DEF h
    <3> QED
      BY <3>2
  <2>7. IsPicking(h, list, positions, n + 1)
    BY <2>6 DEF IsPicking
  <2> QED
    BY <2>7
<1> HIDE DEF Q
<1>3. \A n \in Nat : n \in Q
  BY <1>1, <1>2, NumbersByInduction
<1> QED
  BY <1>3 DEF Q

LEMMA PickedFrom ==
    ASSUME NEW list, Len(list) \in Nat, NEW positions, NEW G,
           \A i \in 1..Len(list) : i \in positions => list[i] \in G
    PROVE  Picked(list, positions) \in Seq(G)
<1> DEFINE n == Len(list)
           g == CHOOSE f : IsPicking(f, list, positions, n)
           Q == {m \in Nat : m <= n => g[m] \in Seq(G)}
<1>1. IsPicking(g, list, positions, n)
  BY PickingExists
<1> HIDE DEF g
<1>2. \A m \in 0..n : g[m] = IF m = 0 THEN <<>>
                    ELSE IF m \in positions THEN Append(g[m - 1], list[m])
                                            ELSE g[m - 1]
  BY <1>1 DEF IsPicking
<1>3. 0 \in Q
  <2>1. 0 \in 0..n /\ <<>> \in Seq(G)
    OBVIOUS
  <2>2. g[0] = <<>>
    BY <1>2, <2>1
  <2> QED
    BY <2>1, <2>2
<1>4. ASSUME NEW m \in Nat, m \in Q PROVE m + 1 \in Q
  <2>1. CASE m + 1 <= n
    <3>1. m + 1 \in 0..n /\ m + 1 \in 1..n /\ m + 1 # 0 /\ (m + 1) - 1 = m
      BY <2>1
    <3>2. g[m] \in Seq(G)
      BY <1>4, <2>1
    <3>3. g[m + 1] = IF m + 1 \in positions THEN Append(g[m], list[m + 1])
                                            ELSE g[m]
      BY <1>2, <3>1
    <3>4. \A s \in Seq(G), e \in G : Append(s, e) \in Seq(G)
      OBVIOUS
    <3>5. m + 1 \in positions => list[m + 1] \in G
      BY <3>1
    <3>6. g[m + 1] \in Seq(G)
      BY <3>2, <3>3, <3>4, <3>5
    <3> QED
      BY <1>4, <3>6
  <2>2. CASE ~(m + 1 <= n)
    BY <2>2
  <2> QED
    BY <2>1, <2>2
<1> HIDE DEF Q
<1>5. n \in Q
  BY <1>3, <1>4, NumbersByInduction
<1> QED
  BY <1>5, PickedIsChosen DEF Q, g

\* A filter of a list without repetitions has none.
LEMMA PickedDistinct ==
    ASSUME NEW list, Len(list) \in Nat, NEW positions,
           \A i, j \in 1..Len(list) : list[i] = list[j] => i = j
    PROVE  \A i, j \in DOMAIN Picked(list, positions) :
              Picked(list, positions)[i] = Picked(list, positions)[j] => i = j
<1> DEFINE n == Len(list)
           g == CHOOSE f : IsPicking(f, list, positions, n)
           From(m) == {list[i] : i \in 1..m}
           Distinct(s) == \A i, j \in DOMAIN s : s[i] = s[j] => i = j
           Q == {m \in Nat : m <= n => g[m] \in Seq(From(m)) /\ Distinct(g[m])}
<1>1. IsPicking(g, list, positions, n)
  BY PickingExists
<1> HIDE DEF g
<1>2. \A m \in 0..n : g[m] = IF m = 0 THEN <<>>
                    ELSE IF m \in positions THEN Append(g[m - 1], list[m])
                                            ELSE g[m - 1]
  BY <1>1 DEF IsPicking
<1>3. 0 \in Q
  <2>1. 0 \in 0..n
    OBVIOUS
  <2>2. g[0] = <<>>
    BY <1>2, <2>1
  <2>3. <<>> \in Seq(From(0)) /\ DOMAIN <<>> = {}
    OBVIOUS
  <2>4. g[0] \in Seq(From(0)) /\ DOMAIN g[0] = {}
    BY <2>2, <2>3
  <2> QED
    BY <2>4
<1>4. ASSUME NEW m \in Nat, m \in Q PROVE m + 1 \in Q
  <2>1. CASE m + 1 <= n
    <3>1. m + 1 \in 0..n /\ m + 1 \in 1..n /\ m + 1 # 0 /\ (m + 1) - 1 = m
      BY <2>1
    <3>2. g[m] \in Seq(From(m)) /\ Distinct(g[m])
      BY <1>4, <2>1
    <3>3. g[m + 1] = IF m + 1 \in positions THEN Append(g[m], list[m + 1])
                                            ELSE g[m]
      BY <1>2, <3>1
    <3>4. From(m) \subseteq From(m + 1) /\ list[m + 1] \in From(m + 1)
      OBVIOUS
    <3>5. list[m + 1] \notin From(m)
      BY <3>1
    <3> DEFINE s == g[m]
               e == list[m + 1]
    <3> HIDE DEF s, e, From
    <3>6. s \in Seq(From(m + 1)) /\ e \in From(m + 1)
      BY <3>2, <3>4 DEF s, e
    <3>7. /\ Append(s, e) \in Seq(From(m + 1))
          /\ DOMAIN s = 1..Len(s) /\ Len(s) \in Nat
          /\ DOMAIN Append(s, e) = 1..(Len(s) + 1)
          /\ Append(s, e)[Len(s) + 1] = e
          /\ \A i \in 1..Len(s) : Append(s, e)[i] = s[i]
      BY <3>6
    <3>8. \A i \in 1..Len(s) : s[i] # e
      BY <3>2, <3>5 DEF s, e
    <3>9. Distinct(Append(s, e))
      BY <3>2, <3>7, <3>8, SMTT(20) DEF s
    <3>10. g[m + 1] = s \/ g[m + 1] = Append(s, e)
      BY <3>3 DEF s, e
    <3> HIDE DEF Distinct
    <3>11. g[m + 1] \in Seq(From(m + 1)) /\ Distinct(g[m + 1])
      BY <3>2, <3>6, <3>7, <3>9, <3>10 DEF s
    <3> QED
      BY <1>4, <3>11
  <2>2. CASE ~(m + 1 <= n)
    BY <2>2
  <2> QED
    BY <2>1, <2>2
<1> HIDE DEF Q
<1>5. n \in Q
  BY <1>3, <1>4, NumbersByInduction
<1>6. Distinct(g[n])
  BY <1>5 DEF Q
<1>7. Picked(list, positions) = g[n]
  BY PickedIsChosen DEF g
<1> QED
  BY <1>6, <1>7

\* A filter keeps everything that is asked for.
LEMMA PickedAll ==
    ASSUME NEW list, Len(list) \in Nat, NEW positions
    PROVE  \A i \in 1..Len(list) : i \in positions =>
              \E k \in DOMAIN Picked(list, positions) :
                 Picked(list, positions)[k] = list[i]
<1> DEFINE n == Len(list)
           g == CHOOSE f : IsPicking(f, list, positions, n)
           G == {list[i] : i \in 1..n}
           Has(s, e) == \E k \in 1..Len(s) : s[k] = e
           HasUpTo(s, m) == \A i \in 1..m : i \in positions => Has(s, list[i])
           Q == {m \in Nat : m <= n => g[m] \in Seq(G) /\ HasUpTo(g[m], m)}
<1>1. IsPicking(g, list, positions, n)
  BY PickingExists
<1> HIDE DEF g
<1>2. \A m \in 0..n : g[m] = IF m = 0 THEN <<>>
                    ELSE IF m \in positions THEN Append(g[m - 1], list[m])
                                            ELSE g[m - 1]
  BY <1>1 DEF IsPicking
<1>3. 0 \in Q
  <2>1. 0 \in 0..n /\ <<>> \in Seq(G) /\ 1..0 = {}
    OBVIOUS
  <2>2. g[0] = <<>>
    BY <1>2, <2>1
  <2> QED
    BY <2>1, <2>2
<1>4. ASSUME NEW m \in Nat, m \in Q PROVE m + 1 \in Q
  <2>1. CASE m + 1 <= n
    <3>1. m + 1 \in 0..n /\ m + 1 \in 1..n /\ m + 1 # 0 /\ (m + 1) - 1 = m
      BY <2>1
    <3>2. g[m] \in Seq(G) /\ HasUpTo(g[m], m)
      BY <1>4, <2>1
    <3>3. g[m + 1] = IF m + 1 \in positions THEN Append(g[m], list[m + 1])
                                            ELSE g[m]
      BY <1>2, <3>1
    <3>4. list[m + 1] \in G
      BY <3>1
    <3> DEFINE s == g[m]
               e == list[m + 1]
    <3> HIDE DEF s, e, G
    <3>5. s \in Seq(G) /\ e \in G
      BY <3>2, <3>4 DEF s, e
    <3>6. /\ Append(s, e) \in Seq(G) /\ Len(s) \in Nat
          /\ Len(Append(s, e)) = Len(s) + 1
          /\ Append(s, e)[Len(s) + 1] = e
          /\ \A k \in 1..Len(s) : Append(s, e)[k] = s[k]
      BY <3>5
    <3>7. Has(Append(s, e), e) /\ \A d : Has(s, d) => Has(Append(s, e), d)
      BY <3>6
    <3> HIDE DEF Has
    <3>8. \A i \in 1..(m + 1) : i \in 1..m \/ i = m + 1
      OBVIOUS
    <3>9. ASSUME m + 1 \in positions
          PROVE  g[m + 1] \in Seq(G) /\ HasUpTo(g[m + 1], m + 1)
      <4>1. g[m + 1] = Append(s, e)
        BY <3>3, <3>9 DEF s, e
      <4>2. HasUpTo(g[m + 1], m + 1)
        BY <3>2, <3>7, <3>8, <4>1 DEF s, e
      <4> QED
        BY <3>6, <4>1, <4>2
    <3>10. ASSUME m + 1 \notin positions
           PROVE  g[m + 1] \in Seq(G) /\ HasUpTo(g[m + 1], m + 1)
      <4>1. g[m + 1] = s
        BY <3>3, <3>10 DEF s
      <4>2. HasUpTo(g[m + 1], m + 1)
        BY <3>2, <3>8, <3>10, <4>1 DEF s
      <4> QED
        BY <3>5, <4>1, <4>2
    <3>11. g[m + 1] \in Seq(G) /\ HasUpTo(g[m + 1], m + 1)
      BY <3>9, <3>10
    <3> HIDE DEF HasUpTo
    <3> QED
      BY <1>4, <3>11
  <2>2. CASE ~(m + 1 <= n)
    BY <2>2
  <2> QED
    BY <2>1, <2>2
<1> HIDE DEF Q
<1>5. n \in Q
  BY <1>3, <1>4, NumbersByInduction
<1>6. g[n] \in Seq(G) /\ HasUpTo(g[n], n)
  BY <1>5 DEF Q
<1>7. Picked(list, positions) = g[n]
  BY PickedIsChosen DEF g
<1> QED
  BY <1>6, <1>7

\* Where a list does not repeat itself from a position on, its filter does not
\* either, and has there what was asked for of that part.
DistinctFrom(c, list) == \A i, j \in (c + 1)..Len(list) : list[i] = list[j] => i = j
KeptFrom(k, p, c, list, positions) ==
    /\ \A i \in (k + 1)..Len(p) :
          \E j \in positions \cap ((c + 1)..Len(list)) : p[i] = list[j]
    /\ \A j \in positions \cap ((c + 1)..Len(list)) :
          \E i \in (k + 1)..Len(p) : p[i] = list[j]

LEMMA PickedTail ==
    ASSUME NEW list, Len(list) \in Nat, NEW positions, NEW c \in 0..Len(list),
           DistinctFrom(c, list)
    PROVE  \E k \in 0..Len(Picked(list, positions)) :
              /\ DistinctFrom(k, Picked(list, positions))
              /\ KeptFrom(k, Picked(list, positions), c, list, positions)
<1> DEFINE n == Len(list)
           g == CHOOSE f : IsPicking(f, list, positions, n)
           G == {list[i] : i \in 1..n}
           From(m) == {list[i] : i \in positions \cap ((c + 1)..m)}
           Part(m) == m <= n => g[m] \in Seq(G)
           k == Len(g[c])
           Good(s, m) == /\ s \in Seq(G) /\ k <= Len(s)
                         /\ \A i, j \in (k + 1)..Len(s) : s[i] = s[j] => i = j
                         /\ {s[i] : i \in (k + 1)..Len(s)} = From(m)
           Q1 == {m \in Nat : Part(m)}
           Q2 == {m \in Nat : c + m <= n => Good(g[c + m], c + m)}
<1>1. IsPicking(g, list, positions, n)
  BY PickingExists
<1> HIDE DEF g
<1>2. \A m \in 0..n : g[m] = IF m = 0 THEN <<>>
                    ELSE IF m \in positions THEN Append(g[m - 1], list[m])
                                            ELSE g[m - 1]
  BY <1>1 DEF IsPicking
<1>3. 0 \in Q1
  <2>1. 0 \in 0..n /\ <<>> \in Seq(G)
    OBVIOUS
  <2>2. g[0] = <<>>
    BY <1>2, <2>1
  <2> QED
    BY <2>1, <2>2
<1>4. ASSUME NEW m \in Nat, m \in Q1 PROVE m + 1 \in Q1
  <2>1. CASE m + 1 <= n
    <3>1. m + 1 \in 0..n /\ m + 1 \in 1..n /\ m + 1 # 0 /\ (m + 1) - 1 = m
      BY <2>1
    <3>2. g[m] \in Seq(G) /\ list[m + 1] \in G
      BY <1>4, <2>1, <3>1
    <3>3. g[m + 1] = IF m + 1 \in positions THEN Append(g[m], list[m + 1])
                                            ELSE g[m]
      BY <1>2, <3>1
    <3> HIDE DEF G
    <3>4. g[m + 1] \in Seq(G)
      BY <3>2, <3>3
    <3> QED
      BY <1>4, <3>4
  <2>2. CASE ~(m + 1 <= n)
    BY <2>2
  <2> QED
    BY <2>1, <2>2
<1> HIDE DEF Q1
<1>5. \A m \in 0..n : g[m] \in Seq(G)
  <2>1. \A m \in Nat : m \in Q1
    BY <1>3, <1>4, NumbersByInduction
  <2> QED
    BY <2>1 DEF Q1
<1>6. k \in Nat /\ c \in Nat /\ n \in Nat
  BY <1>5
<1> HIDE DEF k, n
<1>7. 0 \in Q2
  <2>1. g[c] \in Seq(G) /\ Len(g[c]) = k
    BY <1>5 DEF k, n
  <2>2. (k + 1)..k = {} /\ positions \cap ((c + 1)..c) = {} /\ k <= k
    BY <1>6
  <2>3. From(c) = {} /\ {g[c][i] : i \in (k + 1)..k} = {}
    BY <2>2
  <2> HIDE DEF From, G
  <2>4. Good(g[c], c)
    BY <1>6, <2>1, <2>2, <2>3
  <2> HIDE DEF Good
  <2> QED
    BY <1>6, <2>4
<1>8. ASSUME NEW m \in Nat, m \in Q2 PROVE m + 1 \in Q2
  <2>1. CASE c + (m + 1) <= n
    <3> DEFINE q == c + m
               s == g[q]
               e == list[q + 1]
    <3>1. /\ q \in Nat /\ c + (m + 1) = q + 1 /\ q + 1 \in 0..n /\ q + 1 # 0
          /\ (q + 1) - 1 = q /\ q + 1 \in (c + 1)..n /\ q \in 0..n /\ q + 1 \in 1..n
          /\ \A i \in (c + 1)..q : i \in (c + 1)..n /\ i # q + 1
          /\ (c + 1)..(q + 1) = ((c + 1)..q) \cup {q + 1}
      BY <1>6, <2>1
    <3>2. Good(s, q)
      <4>1. c + m <= n
        BY <1>6, <2>1
      <4> HIDE DEF Good
      <4> QED
        BY <1>8, <4>1
    <3>3. g[q + 1] = IF q + 1 \in positions THEN Append(s, e) ELSE s
      BY <1>2, <3>1 DEF n
    <3>4. e \in G /\ e \notin From(q)
      BY <3>1 DEF n, DistinctFrom
    <3>5. /\ q + 1 \in positions => From(q + 1) = From(q) \cup {e}
          /\ q + 1 \notin positions => From(q + 1) = From(q)
      BY <3>1
    <3> HIDE DEF q, s, e, From, G
    <3>6. CASE q + 1 \in positions
      <4> DEFINE t == Append(s, e)
      <4>1. /\ t \in Seq(G) /\ Len(s) \in Nat /\ Len(t) = Len(s) + 1
            /\ t[Len(s) + 1] = e /\ \A i \in 1..Len(s) : t[i] = s[i]
        BY <3>2, <3>4
      <4> HIDE DEF t
      <4>2. /\ (k + 1)..Len(t) = ((k + 1)..Len(s)) \cup {Len(s) + 1}
            /\ \A i \in (k + 1)..Len(s) : i \in 1..Len(s)
        BY <1>6, <3>2, <4>1
      <4>3. {s[i] : i \in (k + 1)..Len(s)} = From(q)
        BY <3>2
      <4>4. {t[i] : i \in (k + 1)..Len(t)} = From(q) \cup {e}
        BY <4>1, <4>2, <4>3
      <4>5. \A i \in (k + 1)..Len(s) : s[i] # e
        BY <3>4, <4>3
      <4>6. \A i, j \in (k + 1)..Len(t) : t[i] = t[j] => i = j
        BY <3>2, <4>1, <4>2, <4>5
      <4>7. Good(t, q + 1)
        BY <1>6, <3>2, <3>5, <3>6, <4>1, <4>4, <4>6
      <4> HIDE DEF Good
      <4>8. Good(g[c + (m + 1)], c + (m + 1))
        BY <3>1, <3>3, <3>6, <4>7 DEF t
      <4> QED
        BY <4>8
    <3>7. CASE q + 1 \notin positions
      <4>1. Good(s, q + 1)
        BY <3>2, <3>5, <3>7
      <4> HIDE DEF Good
      <4>2. Good(g[c + (m + 1)], c + (m + 1))
        BY <3>1, <3>3, <3>7, <4>1
      <4> QED
        BY <4>2
    <3> QED
      BY <3>6, <3>7
  <2>2. CASE ~(c + (m + 1) <= n)
    BY <2>2
  <2> QED
    BY <2>1, <2>2
<1> HIDE DEF Q2
<1>9. n - c \in Nat /\ c + (n - c) = n /\ n <= n
  BY <1>6 DEF n
<1>10. Good(g[n], n)
  <2>1. n - c \in Q2
    BY <1>7, <1>8, <1>9, NumbersByInduction
  <2>2. c + (n - c) <= n
    BY <1>9
  <2> HIDE DEF Good
  <2> QED
    BY <1>9, <2>1, <2>2 DEF Q2
<1>11. Picked(list, positions) = g[n]
  BY PickedIsChosen DEF g, n
<1>12. k \in 0..Len(g[n])
  BY <1>5, <1>6, <1>9, <1>10
<1>13. /\ \A i, j \in (k + 1)..Len(g[n]) : g[n][i] = g[n][j] => i = j
       /\ {g[n][i] : i \in (k + 1)..Len(g[n])} =
             {list[i] : i \in positions \cap ((c + 1)..n)}
  BY <1>10
<1> DEFINE p == Picked(list, positions)
<1>14. p = g[n]
  BY <1>11
<1> HIDE DEF g, p
<1>15. {p[i] : i \in (k + 1)..Len(p)} = From(n)
  BY <1>10, <1>14
<1>16. k \in 0..Len(p) /\ DistinctFrom(k, p)
  BY <1>12, <1>13, <1>14 DEF DistinctFrom
<1>17. KeptFrom(k, p, c, list, positions)
  BY <1>15 DEF KeptFrom, n
<1> QED
  BY <1>16, <1>17 DEF p

\* So many different things are so many.
LEMMA DistinctCount ==
    ASSUME NEW n \in Nat, NEW f, NEW S,
           \A i \in 1..n : f[i] \in S, \A x \in S : \E i \in 1..n : f[i] = x,
           \A i, j \in 1..n : f[i] = f[j] => i = j
    PROVE  Cardinality(S) = n
<1> DEFINE h == [i \in 1..n |-> f[i]]
<1>1. h \in Bijection(1..n, S)
  <2>1. h \in [1..n -> S]
    OBVIOUS
  <2>2. \A i, j \in 1..n : h[i] = h[j] => i = j
    OBVIOUS
  <2>3. \A t \in S : \E i \in 1..n : h[i] = t
    OBVIOUS
  <2> QED
    BY <2>1, <2>2, <2>3 DEF Bijection, Injection, Surjection, IsInjective
<1>2. ExistsBijection(1..n, S)
  BY <1>1 DEF ExistsBijection
<1> QED
  BY <1>2, FS_CountingElements

(***************************************************************************)
(* What a sorted list consists of: a strict order of all the positions     *)
(* ranks them 0, 1, ..., so there is one of each rank, and the ranks are   *)
(* in the order.                                                           *)
(***************************************************************************)

LEMMA SortedIs ==
    ASSUME NEW n \in Nat, NEW before \in SUBSET ((1..n) \X (1..n)),
           \A i \in 1..n : <<i, i>> \notin before,
           \A i, j \in 1..n : i # j => <<i, j>> \in before \/ <<j, i>> \in before,
           \A i, j, k \in 1..n :
              <<i, j>> \in before /\ <<j, k>> \in before => <<i, k>> \in before
    PROVE  /\ Sorted(n, before) \in [1..n -> 1..n]
           /\ \A k, l \in 1..n : Sorted(n, before)[k] = Sorted(n, before)[l] => k = l
           /\ \A i \in 1..n : \E k \in 1..n : Sorted(n, before)[k] = i
           /\ \A k, l \in 1..n :
                 k < l => <<Sorted(n, before)[k], Sorted(n, before)[l]>> \in before
<1> DEFINE Below(i) == {j \in 1..n : <<j, i>> \in before}
           rank(i)  == Cardinality(Below(i))
           f        == [i \in 1..n |-> rank(i) + 1]
<1>1. IsFiniteSet(1..n) /\ Cardinality(1..n) = n
  BY FS_Interval
<1>2. \A i \in 1..n : IsFiniteSet(Below(i)) /\ rank(i) \in Nat /\ rank(i) + 1 \in 1..n
  <2> SUFFICES ASSUME NEW i \in 1..n
               PROVE  IsFiniteSet(Below(i)) /\ rank(i) \in Nat /\ rank(i) + 1 \in 1..n
    OBVIOUS
  <2>1. Below(i) \subseteq 1..n /\ i \notin Below(i)
    OBVIOUS
  <2> DEFINE B == Below(i)
             N == 1..n
  <2>a. B \in SUBSET N /\ IsFiniteSet(N)
    BY <1>1, <2>1
  <2> HIDE DEF B, N
  <2>b. /\ IsFiniteSet(B) /\ Cardinality(B) <= Cardinality(N)
        /\ Cardinality(N) = Cardinality(B) => N = B
    BY <2>a, FS_Subset
  <2>2. /\ IsFiniteSet(B) /\ Cardinality(B) <= Cardinality(1..n)
        /\ Cardinality(1..n) = Cardinality(B) => 1..n = B
    BY <2>b DEF N
  <2>3. Cardinality(B) \in Nat
    BY <2>2, FS_CardinalityType
  <2>4. 1..n # B
    BY <2>1 DEF B
  <2> QED
    BY <1>1, <2>2, <2>3, <2>4 DEF B
<1>3. ASSUME NEW i \in 1..n, NEW j \in 1..n, <<i, j>> \in before
      PROVE  rank(i) < rank(j)
  <2>1. Below(i) \subseteq Below(j) /\ i \in Below(j) /\ i \notin Below(i)
    BY <1>3
  <2> DEFINE A == Below(i)
             B == Below(j)
  <2>2. IsFiniteSet(B)
    BY <1>2
  <2> HIDE DEF A, B
  <2>3. Cardinality(A) <= Cardinality(B) /\ (Cardinality(B) = Cardinality(A) => B = A)
    <3>1. A \in SUBSET B
      BY <2>1 DEF A, B
    <3> QED
      BY <2>2, <3>1, FS_Subset
  <2>4. Cardinality(A) \in Nat /\ Cardinality(B) \in Nat /\ A # B
    BY <1>2, <2>1 DEF A, B
  <2>5. Cardinality(A) < Cardinality(B)
    BY <2>3, <2>4
  <2> QED
    BY <2>5 DEF A, B
<1>4. \A i, j \in 1..n : rank(i) = rank(j) => i = j
  <2>1. \A i \in 1..n : rank(i) \in Nat
    BY <1>2
  <2> HIDE DEF rank
  <2> SUFFICES ASSUME NEW i \in 1..n, NEW j \in 1..n, rank(i) = rank(j), i # j
               PROVE  FALSE
    OBVIOUS
  <2>2. <<i, j>> \in before \/ <<j, i>> \in before
    OBVIOUS
  <2>3. rank(i) < rank(j) \/ rank(j) < rank(i)
    BY <1>3, <2>2
  <2> QED
    BY <2>1, <2>3
<1>5. f \in Injection(1..n, 1..n)
  <2>1. f \in [1..n -> 1..n]
    BY <1>2
  <2>2. ASSUME NEW i \in 1..n, NEW j \in 1..n, f[i] = f[j] PROVE i = j
    <3>1. rank(i) \in Nat /\ rank(j) \in Nat
      BY <1>2
    <3> HIDE DEF rank
    <3>2. rank(i) = rank(j)
      BY <2>2, <3>1
    <3> QED
      BY <1>4, <3>2
  <2> QED
    BY <2>1, <2>2 DEF Injection, IsInjective
<1>6. f \in Surjection(1..n, 1..n)
  <2> HIDE DEF f
  <2> QED
    BY <1>1, <1>5, FS_Injection
<1>7. \A k \in 1..n : \E i \in 1..n : rank(i) = k - 1
  <2> SUFFICES ASSUME NEW k \in 1..n PROVE \E i \in 1..n : rank(i) = k - 1
    OBVIOUS
  <2>1. PICK i \in 1..n : f[i] = k
    BY <1>6 DEF Surjection
  <2> HIDE DEF rank
  <2>2. rank(i) + 1 = k /\ rank(i) \in Nat
    BY <1>2, <2>1
  <2> QED
    BY <2>2
<1> DEFINE at(k) == CHOOSE i \in 1..n : rank(i) = k - 1
<1>8. Sorted(n, before) = [k \in 1..n |-> at(k)]
  BY DEF Sorted
<1>9. \A k \in 1..n : at(k) \in 1..n /\ rank(at(k)) = k - 1
  <2> HIDE DEF rank
  <2> QED
    BY <1>7
<1> HIDE DEF at, rank
<1>10. \A k, l \in 1..n : at(k) = at(l) => k = l
  <2> SUFFICES ASSUME NEW k \in 1..n, NEW l \in 1..n, at(k) = at(l) PROVE k = l
    OBVIOUS
  <2>1. k - 1 = l - 1
    BY <1>9
  <2> QED
    BY <2>1
<1>11. ASSUME NEW i \in 1..n PROVE \E k \in 1..n : at(k) = i
  <2> DEFINE r == rank(i)
  <2>0. r \in Nat /\ r + 1 \in 1..n
    BY <1>2 DEF rank
  <2> HIDE DEF r
  <2>a. (r + 1) - 1 = r
    BY <2>0
  <2>1. rank(i) \in Nat /\ rank(i) + 1 \in 1..n /\ (rank(i) + 1) - 1 = rank(i)
    BY <2>0, <2>a DEF r
  <2>2. at(rank(i) + 1) \in 1..n /\ rank(at(rank(i) + 1)) = rank(i)
    BY <1>9, <2>1
  <2>3. at(rank(i) + 1) = i
    BY <1>4, <2>2
  <2> QED
    BY <2>1, <2>3
<1>12. ASSUME NEW k \in 1..n, NEW l \in 1..n, k < l PROVE <<at(k), at(l)>> \in before
  <2>1. /\ at(k) \in 1..n /\ at(l) \in 1..n
        /\ rank(at(k)) = k - 1 /\ rank(at(l)) = l - 1
    BY <1>9
  <2>2. at(k) # at(l)
    BY <1>10, <1>12
  <2>3. <<at(l), at(k)>> \notin before
    <3>1. <<at(l), at(k)>> \in before => rank(at(l)) < rank(at(k))
      BY <1>3, <2>1
    <3> QED
      BY <1>12, <2>1, <3>1
  <2> QED
    BY <2>1, <2>2, <2>3
<1>13. /\ Sorted(n, before) \in [1..n -> 1..n]
       /\ \A k \in 1..n : Sorted(n, before)[k] = at(k)
  BY <1>8, <1>9
<1> QED
  BY <1>10, <1>11, <1>12, <1>13
=============================================================================
