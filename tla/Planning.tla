------------------------------ MODULE Planning ------------------------------
(***************************************************************************)
(* From the .roi file to one result per point: read and import the points  *)
(* into cells, group the cells into tiles, plan a brick of each volume for *)
(* every tile, share the tiles out to nodes, solve and report them, by one *)
(* job after another, on any number of nodes.                              *)
(*                                                                         *)
(* One axis stands for the three: the code does the same on each.  Lengths *)
(* are in quarter voxels (Q per voxel), boxes in whole voxels.  A tile is  *)
(* written in one step here; ResultStore has its cells and arrays.         *)
(***************************************************************************)
EXTENDS Orders, SequencesExt, FiniteSetsExt

CONSTANTS
  Roi,        \* the .roi files considered: sequences of lines
  Length,     \* of the volume
  CellSize,   \* of the points store
  BinSize,
  TileSizes,  \* the values of cluster.tile_shape considered
  Fields,     \* seed fields considered: functions from ids to seeds, or None
  Rigid,      \* search.rigid_trans
  Extent,     \* of the subvolume's samples around a point
  DispMax,    \* search.disp_max
  Depth,      \* cluster.prefetch_depth
  Usable,     \* device memory, in voxels; a point of a batch takes one
  Batch,      \* points per batch
  NodeCounts, \* numbers of nodes a plan is made for, and a job runs on
  MaxJobs,    \* bound: jobs submitted
  None

Q == 4
Taps == [before |-> 1, after |-> 2]        \* of the cubic interpolation, in voxels

ASSUME SizesAssumption ==
  /\ {CellSize, BinSize, Batch} \union TileSizes \union NodeCounts \subseteq Nat \ {0}
  /\ IsFiniteSet(NodeCounts) /\ NodeCounts # {}
ASSUME ReachAssumption == {Length, Extent, DispMax, Depth, Usable, MaxJobs} \subseteq Nat

\* Ids are integers; a seed field has some.
ASSUME RoiAssumption ==
  \A lines \in Roi :
    /\ Len(lines) \in Nat /\ DOMAIN lines = 1..Len(lines)
    /\ \A i \in DOMAIN lines : lines[i].kind = "point" => lines[i].id \in Int
ASSUME SeedsAssumption ==
  /\ Rigid \in Int
  /\ \A f \in Fields \ {None} :
       /\ IsFiniteSet(DOMAIN f) /\ DOMAIN f # {} /\ DOMAIN f \subseteq Int
       /\ \A id \in DOMAIN f : f[id] \in Int
ASSUME NoneAssumption == None \notin [id : Int, seed : Int \union {None}]

VARIABLES
  roi, tileSize, field,  \* the inputs
  store,    \* the points store: from a cell to its rows and the offsets of its bins
  plan,     \* plan.json: its tiles and the assignment, or None
  n,        \* nodes of the job last submitted
  todo,     \* per node, the tiles it has still to solve
  running,  \* nodes at work
  ended,    \* nodes of this job that have reported
  written,  \* from a cell written to the results of its rows
  failed,   \* failed_tiles.json (0), failed_tiles.node<k>.json: the tiles listed
  jobs, pc

inputs == <<roi, tileSize, field>>
job    == <<n, todo, running, ended, written, failed, jobs>>
vars   == <<inputs, store, plan, job, pc>>

MaxNodes == Max(NodeCounts)

Init ==
  /\ roi \in Roi /\ tileSize \in TileSizes /\ field \in Fields
  /\ store = None /\ plan = None /\ pc = "import"
  /\ n = 0 /\ todo = <<>> /\ running = {} /\ ended = {} /\ written = <<>>
  /\ failed = [k \in 0..MaxNodes |-> {}] /\ jobs = 0

-----------------------------------------------------------------------------
(* Points.                                                                  *)

\* Words before the first point are a header, after it an error.
Readable(lines) ==
  \A i \in DOMAIN lines :
    \/ lines[i].kind \in {"blank", "point"}
    \/ lines[i].kind = "words" /\ \A j \in 1..i : lines[j].kind # "point"

Points(lines) == At(lines, {i \in DOMAIN lines : lines[i].kind = "point"})

UniqueIds(points) == IsInjective([i \in DOMAIN points |-> points[i].id])

\* check_points, and the bounds, which include both ends.
Importable(points) ==
  /\ points # <<>> /\ UniqueIds(points)
  /\ \A i \in DOMAIN points : points[i].x \in 0..Length

CellOf(x) == x \div CellSize

BinsPerCell == CellSize \div BinSize

BinIndex(x, cell) == Min({(x - cell * CellSize) \div BinSize, BinsPerCell - 1})

\* group_cells: the points of a cell, in the order of the file.
InCell(points, cell) == {i \in DOMAIN points : CellOf(points[i].x) = cell}

\* Mutant: the rows of a cell keep the order of the file.
InFileOrder(points, cell) == At(points, InCell(points, cell))

\* cell_fragments: a stable sort by bin.
InBinOrder(points, cell) ==
  LET order == Sorted(InCell(points, cell), [i \in InCell(points, cell) |-> BinIndex(points[i].x, cell)])
  IN  [j \in DOMAIN order |-> points[order[j]]]

BinOffsets(rows, cell) ==
  [k \in 1..BinsPerCell + 1 |-> Cardinality({i \in DOMAIN rows : BinIndex(rows[i].x, cell) < k - 1})]

\* One write per cell.
Cells(points) ==
  [c \in {CellOf(points[i].x) : i \in DOMAIN points} |->
     [rows |-> InBinOrder(points, c), offsets |-> BinOffsets(InBinOrder(points, c), c)]]

Import ==
  /\ pc = "import"
  /\ \/ /\ Readable(roi) /\ Importable(Points(roi))
        /\ store' = Cells(Points(roi)) /\ pc' = "plan"
     \/ /\ ~(Readable(roi) /\ Importable(Points(roi)))
        /\ pc' = "refused" /\ UNCHANGED store
  /\ UNCHANGED <<inputs, plan, job>>

\* The rows of some cells, one cell after the other.
ReadTile(cells) == FlattenSeq([i \in DOMAIN cells |-> store[cells[i]].rows])

-----------------------------------------------------------------------------
(* Tiles.                                                                   *)

\* Rounded; refused when more than a hundredth off, or less than one cell.
CellsPerTile == (2 * tileSize + CellSize) \div (2 * CellSize)

TileFits ==
  LET off == tileSize - CellsPerTile * CellSize
  IN  CellsPerTile >= 1 /\ 100 * off <= tileSize /\ -100 * off <= tileSize

\* Mutant: what the search finds is not compared with the id asked for.
NearestSeed(f, id) ==
  IF f = None THEN Rigid
  ELSE LET ids == Ascending(DOMAIN f)
       IN  f[ids[Min({Cardinality({i \in DOMAIN f : i < id}) + 1, Len(ids)})]]

\* A binary search in the sorted ids; the rigid seed unless it hits.
SeedOf(f, id) ==
  IF f = None THEN Rigid
  ELSE LET ids == Ascending(DOMAIN f)
           pos == Min({Cardinality({i \in DOMAIN f : i < id}) + 1, Len(ids)})
       IN  IF ids[pos] = id THEN f[id] ELSE Rigid

CeilDiv(a, b) == -((-a) \div b)

\* Half-open boxes of voxels.
Around(xs)     == [lo |-> CeilDiv(Min(xs), Q), hi |-> Max(xs) \div Q + 1]
Grow(box, m)   == [lo |-> box.lo - CeilDiv(m, Q), hi |-> box.hi + CeilDiv(m, Q)]
Shift(box, o)  == [lo |-> (box.lo * Q + o) \div Q, hi |-> CeilDiv(box.hi * Q + o, Q)]
Voxels(box)    == box.hi - box.lo

\* Mutant: the stencil is left out.
HaloOfSamples == Extent + DispMax

Halo == Extent + DispMax + 2 * Q

\* np.median: the mean of the two in the middle.
Median(s) ==
  LET t == [j \in DOMAIN s |-> s[Sorted(DOMAIN s, s)[j]]]
  IN  (t[(Len(t) + 1) \div 2] + t[Len(t) \div 2 + 1]) \div 2

Spread(s) == Max({Median(s) - s[i] : i \in DOMAIN s} \union {s[i] - Median(s) : i \in DOMAIN s})

\* plan_tiles: groups of cells in order; the bricks of the points in each.
Groups == Ascending({c \div CellsPerTile : c \in DOMAIN store})

TileOf(i) ==
  LET cells == Ascending({c \in DOMAIN store : c \div CellsPerTile = Groups[i]})
      rows  == ReadTile(cells)
      seeds == [j \in DOMAIN rows |-> SeedOf(field, rows[j].id)]
      box   == Grow(Around({rows[j].x : j \in DOMAIN rows}), Halo)
  IN  [cells |-> cells, points |-> Len(rows), ref |-> box, def |-> Grow(Shift(box, Median(seeds)), Spread(seeds))]

PlanTiles == [i \in DOMAIN Groups |-> TileOf(i)]

\* check_memory: prefetch_depth pairs of bricks and one batch.
FitsMemory(tiles) ==
  LET pair    == Max({Voxels(tiles[i].ref) + Voxels(tiles[i].def) : i \in DOMAIN tiles})
      largest == Max({tiles[i].points : i \in DOMAIN tiles})
  IN  pair * Max({Depth, 1}) + Min({Batch, largest}) <= Usable

\* assign_lpt: the most points first, each to the node with the least so far.
Given(tiles, nodes) ==
  LET order == Sorted(DOMAIN tiles, [t \in DOMAIN tiles |-> -tiles[t].points])
      given[j \in 0..Len(tiles)] ==
        IF j = 0 THEN [shares |-> [k \in 1..nodes |-> <<>>], loads |-> [k \in 1..nodes |-> 0]]
        ELSE LET before == given[j - 1]
                 k == Sorted(1..nodes, before.loads)[1]
             IN  [shares |-> [before.shares EXCEPT ![k] = Append(@, order[j])],
                  loads  |-> [before.loads EXCEPT ![k] = @ + tiles[order[j]].points]]
  IN  given

Assign(tiles, nodes) == Given(tiles, nodes)[Len(tiles)].shares

Plan ==
  /\ pc = "plan"
  /\ \/ /\ TileFits /\ FitsMemory(PlanTiles) /\ pc' = "jobs"
        /\ \E nodes \in NodeCounts :
             plan' = [tiles |-> PlanTiles, assignment |-> Assign(PlanTiles, nodes)]
     \/ /\ ~(TileFits /\ FitsMemory(PlanTiles))
        /\ pc' = "refused" /\ UNCHANGED plan
  /\ UNCHANGED <<inputs, store, job>>

-----------------------------------------------------------------------------
(* Jobs.                                                                    *)

TileIds == DOMAIN plan.tiles

\* Mutant: the plan's shares are used whatever the number of nodes.
PlannedShare(k, nodes) == IF k \in DOMAIN plan.assignment THEN plan.assignment[k] ELSE <<>>

\* node_share: shared out again for another number of nodes.
Share(k, nodes) ==
  (IF Len(plan.assignment) = nodes THEN plan.assignment ELSE Assign(plan.tiles, nodes))[k]

IsWritten(t) == Range(plan.tiles[t].cells) \subseteq DOMAIN written

Unwritten(share) == At(share, {i \in DOMAIN share : ~IsWritten(share[i])})

Submit ==
  /\ pc = "jobs" /\ running = {} /\ jobs < MaxJobs
  /\ \E nodes \in NodeCounts :
       /\ n' = nodes /\ running' = 1..nodes
       /\ todo' = [k \in 1..nodes |-> Unwritten(Share(k, nodes))]
  /\ ended' = {} /\ jobs' = jobs + 1
  /\ UNCHANGED <<inputs, store, plan, written, failed, pc>>

\* Along the curve, which in one dimension is the axis; stable within a voxel.
MortonOrder(rows) ==
  Sorted(DOMAIN rows, [i \in DOMAIN rows |-> (rows[i].x - Min({rows[j].x : j \in DOMAIN rows})) \div Q])

\* Mutant: points that do not fill a batch are left out.
FullBatches(order) ==
  [b \in 1..(Len(order) \div Batch) |-> SubSeq(order, (b - 1) * Batch + 1, b * Batch)]

Batches(order) ==
  [b \in 1..CeilDiv(Len(order), Batch) |->
     SubSeq(order, (b - 1) * Batch + 1, Min({b * Batch, Len(order)}))]

\* solve_tile: the k-th result of a batch goes to the row its k-th index names,
\* over what an earlier batch put there.
SolveTile(rows) ==
  LET batches == Batches(MortonOrder(rows))
      having(i) == {b \in DOMAIN batches : i \in Range(batches[b])}
      solve(batch) == [k \in DOMAIN batch |->
        [id |-> rows[batch[k]].id, seed |-> SeedOf(field, rows[batch[k]].id)]]
      last(i) == batches[Max(having(i))]
  IN  [i \in DOMAIN rows |->
         IF having(i) = {} THEN None ELSE solve(last(i))[CHOOSE k \in DOMAIN last(i) : last(i)[k] = i]]

\* The rows of a tile's results, cut at its cells.
CellResults(t, out) ==
  LET cells == plan.tiles[t].cells
      first(i) == Len(ReadTile(SubSeq(cells, 1, i - 1)))
  IN  [c \in Range(cells) |->
         LET i == CHOOSE i \in DOMAIN cells : cells[i] = c
         IN  SubSeq(out, first(i) + 1, first(i + 1))]

\* Cells are written over, never removed.
Over(new, old) == [c \in DOMAIN new \union DOMAIN old |-> IF c \in DOMAIN new THEN new[c] ELSE old[c]]

SolveNext(k) ==
  /\ k \in running /\ todo[k] # <<>>
  /\ todo' = [todo EXCEPT ![k] = Tail(@)]
  /\ LET t == Head(todo[k]) IN
     \/ written' = Over(CellResults(t, SolveTile(ReadTile(plan.tiles[t].cells))), written)
     \/ UNCHANGED written            \* it failed, once and again
  /\ UNCHANGED <<inputs, store, plan, n, running, ended, failed, jobs, pc>>

Missing(k) == {t \in Range(Share(k, n)) : ~IsWritten(t)}

FileOf(k) == IF n > 1 THEN k ELSE 0

\* Mutant: the file of an earlier job is not removed.
ReportOnly(k) ==
  /\ k \in running /\ todo[k] = <<>>
  /\ failed' = IF Missing(k) # {} THEN [failed EXCEPT ![FileOf(k)] = Missing(k)] ELSE failed
  /\ running' = running \ {k} /\ ended' = ended \union {k}
  /\ UNCHANGED <<inputs, store, plan, n, todo, written, jobs, pc>>

\* Listed, or the file removed when there is nothing to list.
Report(k) ==
  /\ k \in running /\ todo[k] = <<>>
  /\ failed' = [failed EXCEPT ![FileOf(k)] = Missing(k)]
  /\ running' = running \ {k} /\ ended' = ended \union {k}
  /\ UNCHANGED <<inputs, store, plan, n, todo, written, jobs, pc>>

\* A node is lost, or its time is over.
Lost(k) ==
  /\ k \in running
  /\ running' = running \ {k} /\ todo' = [todo EXCEPT ![k] = <<>>]
  /\ UNCHANGED <<inputs, store, plan, n, ended, written, failed, jobs, pc>>

\* _write_results: all points were solved as one problem, in the order of their
\* ids, and each tile looks its points up.
Found(rows) ==
  LET ids == Ascending({Points(roi)[i].id : i \in DOMAIN Points(roi)})
  IN  [i \in DOMAIN rows |->
         [id |-> ids[Cardinality({j \in Range(ids) : j < rows[i].id}) + 1], seed |-> None]]

\* seed, strategy wavefront.  It may be killed on the way.
WriteResults ==
  /\ pc = "jobs" /\ field = None /\ jobs = 0
  /\ \E m \in TileIds :
       LET tile(c) == CHOOSE t \in 1..m : c \in Range(plan.tiles[t].cells)
       IN  written' = Over([c \in UNION {Range(plan.tiles[t].cells) : t \in 1..m} |->
                              CellResults(tile(c), Found(ReadTile(plan.tiles[tile(c)].cells)))[c]], written)
  /\ UNCHANGED <<inputs, store, plan, n, todo, running, ended, failed, jobs, pc>>

Next ==
  \/ Import \/ Plan \/ Submit \/ WriteResults
  \/ \E k \in 1..MaxNodes : SolveNext(k) \/ Report(k) \/ Lost(k)

Spec == Init /\ [][Next]_vars

-----------------------------------------------------------------------------
(* Properties.                                                              *)

\* write_pointcloud_store, read_all and _stored_bins: the cells together hold each
\* point of the file once, and the offsets stored with a cell are both those of
\* its bins and the ones a reader works out again from the rows it read.
StoredOnce ==
  store # None =>
    LET rows == ReadTile(Ascending(DOMAIN store)) IN
    /\ Len(rows) = Len(Points(roi)) /\ Range(rows) = Range(Points(roi))
    /\ \A c \in DOMAIN store :
         LET s == store[c] IN
         /\ s.offsets[BinsPerCell + 1] = Len(s.rows)
         /\ BinOffsets(s.rows, c) = s.offsets
         /\ \A b \in 1..BinsPerCell : \A i \in s.offsets[b] + 1 .. s.offsets[b + 1] :
              BinIndex(s.rows[i].x, c) = b - 1

\* The seed a point is meant to have: its own of the field, or the rigid one.
SeedMeant(id) == IF field # None /\ id \in DOMAIN field THEN field[id] ELSE Rigid

\* A tap outside the brick flags the point RANGE_FAIL.
Reads(x, box) == x \div Q - Taps.before >= box.lo /\ x \div Q + Taps.after < box.hi

\* plan_tiles and RunConfig.halo: while a point's displacement is within disp_max
\* of its seed, every sample's taps lie in its tile's bricks, in both volumes:
\* a point is lost to the edge of the volume only, never to that of a brick.
BricksCover ==
  plan # None =>
    \A t \in TileIds : \A p \in Range(ReadTile(plan.tiles[t].cells)) :
      \A sample \in {-Extent, Extent} : \A move \in {-DispMax, DispMax} :
        /\ Reads(p.x + sample, plan.tiles[t].ref)
        /\ Reads(p.x + sample + SeedMeant(p.id) + move, plan.tiles[t].def)

\* node_share: whatever the number of nodes a job runs on, every cell is in one
\* tile and every tile in the share of one node, so no two write the same cell.
SharesPartition ==
  plan # None =>
    /\ \A c \in DOMAIN store :
         Cardinality({t \in TileIds : c \in Range(plan.tiles[t].cells)}) = 1
    /\ n > 0 =>
         LET share == [k \in 1..n |-> Share(k, n)] IN
         \A t \in TileIds :
           Cardinality({p \in (1..n) \X TileIds : p[2] \in DOMAIN share[p[1]] /\ share[p[1]][p[2]] = t}) = 1

\* From the file to the results store, through bins, tiles, batches and curve:
\* the results in row i of a cell are those of the point in row i of the cell,
\* solved from its own seed.
SolvedOnce ==
  \A c \in DOMAIN written :
    /\ Len(written[c]) = Len(store[c].rows)
    /\ \A i \in DOMAIN written[c] :
         LET r == written[c][i] IN
         /\ r # None
         /\ r.id = store[c].rows[i].id
         /\ r.seed = SeedMeant(r.id) \/ (field = None /\ r.seed = None)

\* run's reports: once every node of a job has reported, the files of its nodes
\* list the tiles that are not written, and nothing else.
Reported ==
  (n > 0 /\ ended = 1..n) =>
    UNION {failed[FileOf(k)] : k \in 1..n} = {t \in TileIds : ~IsWritten(t)}
=============================================================================
