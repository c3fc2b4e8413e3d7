------------------------------ MODULE MCVolumes ------------------------------
EXTENDS Volumes

box(z0, z1, y0, y1) == [lo |-> <<z0, y0>>, hi |-> <<z1, y1>>]

\* A volume of 5 by 3 in chunks of 2 by 2 and shards of 4 by 4: boxes
\* over its edges, of whole planes, and beyond it within the reach of the filter.
MCSize  == <<5, 3>>
MCBoxes == {box(-1, 4, -2, 3), box(3, 7, 1, 4), box(5, 7, 0, 2)}
MCSource == [c \in Converters |-> "raw"]
MCNonFinite == {<<"first", <<4, 2>>>>}
MCFirst == {None, "first", "other"}
=============================================================================
