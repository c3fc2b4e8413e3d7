--------------------------- MODULE MCTilePipeline ---------------------------
(* Small instances of TilePipeline.  The tiles are queued in a fixed order, *)
(* so only the workers are symmetric.                                       *)
EXTENDS TilePipeline, TLC

CONSTANTS t1, t2, t3, t4, t5, t6, t7

TwoTiles   == <<t1, t2>>
SevenTiles == <<t1, t2, t3, t4, t5, t6, t7>>
Anything   == SUBSET Tiles
Nothing    == {{}}
Symmetry   == Permutations(Workers)
=============================================================================
