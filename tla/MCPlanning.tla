----------------------------- MODULE MCPlanning -----------------------------
EXTENDS Planning

point(i, x) == [kind |-> "point", id |-> i, x |-> x]

\* Cells of 8 quarter voxels in a volume of 32: points on the edges of cells and
\* bins, at both ends of the volume and beyond it.
MCLines == {point(i, x) : i \in 1..2, x \in {0, 9, 33}} \union {[kind |-> k] : k \in {"words", "bad", "blank"}}
MCFour  == {[i \in 1..4 |-> point(<<3, 1, 4, 2>>[i], xs[i])] : xs \in
              {<<5, 4, 7, 12>>, <<30, 6, 2, 7>>, <<24, 16, 8, 0>>, <<32, 21, 6, 5>>, <<17, 19, 23, 22>>}}
MCRoi   == BoundedSeq(MCLines, 3) \union MCFour
MCFields == {None, [i \in {1, 2, 3, 4} |-> <<6, -4, 10, 6>>[i]], [i \in {2, 3} |-> 22 - 4 * i]}
=============================================================================
