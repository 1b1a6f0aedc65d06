------------------------------- MODULE Selection -------------------------------
(***************************************************************************)
(* What is left of a sequence when only some of its positions are taken,   *)
(* in their order: SelectSeq, by the positions instead of a test, and by a *)
(* definition that is not recursive, which a proof can take apart.         *)
(***************************************************************************)
EXTENDS Naturals, Sequences, FiniteSets

\* How many of the numbers in I are not beyond i; and the k-th of them.
RankIn(I, i) == Cardinality({j \in I : j <= i})
Nth(I, k) == CHOOSE i \in I : RankIn(I, i) = k

Select(s, I) == [k \in 1..Cardinality(I) |-> s[Nth(I, k)]]
=============================================================================
