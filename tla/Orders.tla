-------------------------------- MODULE Orders --------------------------------
(***************************************************************************)
(* Finite sets of integers, and sequences, in the orders the code's sorts  *)
(* and selections put them.  A key is a function, so that what is sorted   *)
(* by it can be reasoned about.                                            *)
(***************************************************************************)
EXTENDS Integers, FiniteSets, Sequences

\* What comes before p: a smaller key, or the same and a smaller number.
Before(S, key, p) == {q \in S : key[q] < key[p] \/ (key[q] = key[p] /\ q < p)}

Rank(S, key, p) == Cardinality(Before(S, key, p))

\* The numbers of S by key, then by themselves: a stable sort of S in order.
Sorted(S, key) == [i \in 1..Cardinality(S) |-> CHOOSE p \in S : Rank(S, key, p) = i - 1]

Ascending(S) == Sorted(S, [p \in S |-> p])

\* The elements of s at the positions I, in their order.
At(s, I) == [j \in 1..Cardinality(I) |-> s[Ascending(I)[j]]]
=============================================================================
