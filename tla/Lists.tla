------------------------------- MODULE Lists -------------------------------
(***************************************************************************)
(* What the scripts do with a list before they use it: they keep some of   *)
(* its members, and they sort it.  Both are defined by positions.          *)
(***************************************************************************)
EXTENDS Integers, Sequences, FiniteSets

\* The members of a list at some of its positions, in their order.
Picked(list, positions) ==
    LET upTo[n \in 0..Len(list)] ==
            IF n = 0 THEN <<>>
            ELSE IF n \in positions THEN Append(upTo[n - 1], list[n])
                                    ELSE upTo[n - 1]
    IN  upTo[Len(list)]

\* The positions 1..n in the order of a relation on them.
Sorted(n, before) ==
    [k \in 1..n |-> CHOOSE i \in 1..n :
                       Cardinality({j \in 1..n : <<j, i>> \in before}) = k - 1]
=============================================================================
