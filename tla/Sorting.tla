------------------------------- MODULE Sorting -------------------------------
(***************************************************************************)
(* Documents sorted as a query sorts them, by an order given as the set of *)
(* its pairs <<before, after>>.                                            *)
(***************************************************************************)
EXTENDS Integers, FiniteSets, Sequences

\* Those of the set that come before x, and how many they are.
Ahead(x, S, order) == {y \in S : <<y, x>> \in order}
Rank(x, S, order) == Cardinality(Ahead(x, S, order))

\* The members of the set in their order: at each place the one that has as
\* many before it as there are places.
Sorted(S, order) ==
    [i \in 1..Cardinality(S) |-> CHOOSE x \in S : Rank(x, S, order) = i - 1]

\* The first n of a sequence, or all of it.
Leading(s, n) == SubSeq(s, 1, IF n < Len(s) THEN n ELSE Len(s))
===============================================================================
