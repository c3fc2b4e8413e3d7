---------------------------- MODULE MCResultStore ----------------------------
(* One tile of two cells and one of one cell: a tile can be half written.    *)
EXTENDS ResultStore, TLC

CONSTANTS c1, c2, c3

TwoTiles == {<<c1, c2>>, <<c3>>}
Symmetry == Permutations(Workers) \union Permutations(Values)
=============================================================================
