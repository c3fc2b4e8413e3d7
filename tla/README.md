# Formal models of zvdvc

zvdvc computes displacement and strain between a reference and a deformed volume at the
points of a `.roi` file (digital volume correlation).  The points are binned into cells,
the cells grouped into tiles, and each tile is solved by reading two bricks of the volumes,
running a Gauss-Newton fit per point and writing the cells' rows to a results store.  The
program also solves whole volumes in memory, stands in for CCPi's `dvc`, converts volumes,
checks itself against recorded baselines and runs a benchmark campaign.
Everything below `src/src/zvdvc/` is the code; `src/docs/` its documents.  The paths in
this file are relative to the package unless they begin with `docs/`.

Most of what is modelled is the protocol around the numerics: who has a tile, what a kill
or an exception takes along, which files count as finished, what a resumed run may mix, and
whether everything ends.  Of the numerics the models hold what is discrete about them: the
decisions on a point's status, seeds and their order, rounding to voxels and batches, the
edges of bricks, and, in exact arithmetic on small inputs, that the three engines carry out
the same calculation.  Floating-point rounding is nowhere modelled.

## Inventory

| part | code | state | operations | what is hard | what makes it correct |
|---|---|---|---|---|---|
| worker loop | `pipeline/worker.py` | three threads, two bounded queues, the list of written cells | prefetch, solve, write, the synchronous pass after the prefetcher ended | interleaving, bounded queues, a join that times out, logging that raises | a tile in one place only; none dropped; the loop ends |
| node launch | `pipeline/launch.py` | manager process: tile queue, attempts, failed tiles, a lock; a process per device | `_SharedSource.next`, `done`, `_child`, `launch_local` | several calls under one lock, killed workers | retries counted right, survivors finish |
| results store | `io/results.py`, `io/pointcloud.py` | one chunk per cell and array, the recorded presence | allocate, `reopen_for_writes`, `written_cells`, `write_tile`, finalize | kills between chunks, listing while others write, deferred presence | what counts is complete and of one run |
| coordinator | `pipeline/coordinator.py` | the files in the workdir: import, `plan.json`, `seeds.npz`, store, and their fingerprints | `prepare`, `seed`, `run`, `finalize` | stages interrupted anywhere, edits between stages | no mixed settings or data; repeating the stages finishes |
| points store, tiling, batching | `io/pointcloud.py`, `pipeline/tiling.py`, `pipeline/batching.py` | cells, bins and offsets; the plan | import of a `.roi`, tiles and bricks, `assign_lpt`, `check_memory`, curve and batches | a row is found again by its position only; boundaries, rounding; another number of nodes | each point of the file once, with its own seed, on a brick that covers it |
| in-memory solve, solver | `pipeline/inmemory.py`, `solver/gauss_newton.py`, `solver/engines.py`, `status.py` | results and seeds; status, displacement and a mask per point of a chunk | shells, chunks, iterations over a shrinking active set | index arrays, the order of the decisions on a status, limits | each point's result is the one it has alone; GOOD means what it says |
| seeding | `solver/seeding.py`, `solver/coarse.py` | the solved set | wavefront shells, seeds from neighbours, coarse subset and its interpolation | order of shells, points left out | a seed comes from a solved point; every point is reached |
| CCPi drop-in | `ccpi_dropin.py`, `io/ccpi.py` | two temporary files, two outputs, the lines printed | reads a `dvc_in`, solves, prints progress, renames | failures at each step, a reader that goes away, kills | a `.disp` only beside its `.stat` and with every row |
| configuration | `config.py`, `io/ccpi.py` | | `from_dict`, `read_dvc_input`, `write_dvc_input`, `.stat` echo | defaults, comments, digits | settings survive each round trip |
| volumes | `io/volume.py`, `io/gds.py` | a Zarr directory, hidden ones per process, a flat file | `convert_to_ome_zarr`, `write_raw`, `open_volume`, `read_brick`, direct reads | two renames and kills, concurrent converters, padding at edges | the destination is whole, an old store not lost, a brick holds its voxels |
| kernels | `kernels/`, `geometry/warp.py` | shared memory and registers of a block | sums by warps and blocks, packed loads, normal equations, update | barriers, the last voxels of a brick, three implementations | the three engines agree |
| check suite | `bench/check.py` | per machine a baseline, per output root arrays, runs and `latest` | tiers of steps, comparison, update | arrays apart from their document, shared roots, kills | PASS means what it says |
| benchmark campaign | `bench/campaign.py`, `bench/scaling.py`, `synth/phantoms.py` | `<step>.json` per step, volumes, `config.yaml` | steps, resubmission, `--redo`, other options | stopped anywhere, files written in place | nothing measured on a setting that failed; it ends |
| profiling | `profiling.py` | an event log | recording | may raise when the disk is full | does not lose tiles |
| strain, uncertainty, templates, point grids, command line, other benchmarks | `post/`, `solver/uncertainty.py`, `geometry/`, `cli.py`, `bench/` | | arithmetic; argument parsing; measurement scripts | floating point | |

How they meet:

- The coordinator's `run` starts the node launch, which starts one worker process per
  device; these share the manager's objects.  The workers write the results store and
  decide from `written_cells` what to skip.  The stages see one another through the files
  of the workdir only.
- The seed stage and the drop-in call the same in-memory solve; the drop-in gets each batch
  by a callback, `on_solved`.
- Workers and the in-memory solve read bricks through `open_volume`, and hand them to one
  of the engines.
- The campaign's check step is the check suite, run on the campaign's node, and finds its
  report through the `latest` link.

`PROJECT.json` lists 40 hazards at the lines where they bite, each with the properties that
would notice.  A note says where a property covers one in part: `Recovers` and `Completes`
name what the code does not recover from, `Unmixed` is about a `.roi` that is not replaced and
not about a store removed between interruptions, `AsAlone` sees wrong masks and indices only.

## Modules

| module | what it is |
|---|---|
| `TilePipeline` | the threads of all workers of a node and the manager |
| `TileLedger` | the abstract specification it implements: the fate of each tile |
| `TilePipelineProofs` | theorems about `TilePipeline`: where a tile is, that none is dropped, what a kill costs, and that it implements `TileLedger` |
| `Orders` | what the code's sorts and selections by index do, as orders of finite sets of integers |
| `OrdersProofs` | lemmas about numbers, induction, finite sets and the orders of `Orders`; the three modules of proofs that need them extend it |
| `ResultStore` | chunks, presence, runs and finalize |
| `Coordinator` | the stages and the files they leave |
| `Planning` | from the `.roi` through import, plan and batches to the nodes' reports |
| `Solver` | the in-memory solve: seeds, shells, chunks and the status of a point |
| `Settings` | the configuration, and the files it is read from and written to |
| `DropIn` | the program iDVC starts; composes `Solver` and `Settings` |
| `Volumes` | conversion, raw export, opening and reading bricks |
| `Kernels` | what an engine computes for one sample |
| `Objective` | criteria, energies and normal equations; extends `Kernels` |
| `Engines` | the threads of a block, a batch's iterations; extends `Objective` |
| `Checks` | the check suite |
| `Campaign` | the benchmark campaign; composes `Checks` |
| `ResultStoreProofs`, `CoordinatorProofs`, `PlanningProofs`, `VolumesProofs`, `DropInProofs`, `CampaignProofs` | theorems about these modules; `DropInProofs` has those about `Solver`, `CampaignProofs` those about `Checks` |
| `MC...` | instances for TLC |

### TilePipeline

A step is what a thread does between two operations another thread or process can see: a
call on a queue or on the manager, a write.  `pc` names, per thread, the operation it does
next; `hand` is the tile in its local variable.

| state | code |
|---|---|
| `pending`, `attempts`, `failed`, `lock` | the manager's objects (`launch.py:171`) |
| `written` | the tiles whose cells the results store counts |
| `snap` | `written_cells()`, read once before the loop (`worker.py:219`) |
| `loads`, `writes` | the bounded queues (`worker.py:220`), `End` is `_END` |
| `raised` | an exception is on its way out through the `finally` block |
| `place` | a history variable, in no code: where each tile is, or what became of it |

`PrefetchTake` to `PrefetchEnd` are the prefetch thread, `ComputeGet` to `SyncDrained` the
compute loop and its synchronous pass, `WriterGet` to `WriteFails` the writer.
`source.done(tile, False)` is four steps, `Acquire`, `Count`, `Requeue` and `Release`, for
each is a call to the manager.  A blocking `get`, `put` or acquisition is a guard.  The join
of the prefetcher times out, so its end is no guard of `Join`.  `Kill` is a worker process
killed at any step; a request for the lock that was already sent is served all the same
(`ZombieAcquire`: a manager serves each client in a thread of its own, which does not see
the client die while it waits for the lock).  `LogMayFail` lets the event log raise where
nothing in the code catches it (`PrefetchDies`, `ComputeRaises`, `Logged`).

A failed read is not an action: `_load` returns the exception, and the compute loop treats
it as it treats a failed solve.  A tile is stored as a whole here; what is between its
chunks is the subject of `ResultStore`.

### ResultStore

`disk[c][a]` is the chunk of array `a` of cell `c`.  A value stands for what one backend
computes, so that rows of two runs can be told apart.  `Order` is the order of the writes
(`results.py:174` to `177` and `write_cell`), with the five attributes of a solve as one array
`params` and the displacement's standard deviation, which `written_cells` does not list, apart.
`presence` is either deferred, and then a listing shows the chunks on disk, or recorded by
finalize.  `List` is one array of `written_cells`, because other workers write between two.
zarr-vectors is external; `OnDisk` and `Listed` are modelled from how the code uses it.

### Coordinator

A digest is the thing it is the digest of: the fingerprint of a run is its settings and its
points.  Each stage is a chain of steps with `step` as its program counter; between any two
the process may be killed or raise (`Kill`, `ImportFails`, `PlanFails`).  Between stages the
user may edit the config, replace the `.roi` or remove the store.  The volumes never change;
the code compares their identity wherever it compares settings.  One stage runs at a time.

The import is a directory that grows: made (`Import`), with its level and arrays
(`ImportAllocated`), cell by cell, a cell's vertices before its point ids (`ImportCells`).  An
import that raises removes it, one that is killed leaves what there is, newer than the `.roi`,
and the next plan takes it for a current one (`ImportCurrent`).  `Loads` is what opening and
reading all points need, `Readable` what `points_digest` needs besides: without one whole
cell, or with a cell in halves, every later plan raises at `CheckStore`.  `Clear` is the
removal of an older import, which may be killed half way, and leaves either.  A planned tile
that a newer import does not have cannot be read (`TileUnread`).

### Planning

The data of the path that `Coordinator` and `TilePipeline` have the control of.  `roi` is a
file line by line, with headers, bad lines and blanks; `Import` reads it whole, or refuses
it.  `store[c]` has the rows of a cell, sorted by bin, and the offsets stored with them; a
reader works both out again from positions, which is where a row could get another point's
result.  `Plan` makes the tiles with their two bricks and the assignment to nodes; `Submit`
starts a job on a number of nodes of its own, `SolveNext` and `Report` are a node's, `Lost`
ends one early.  One axis stands for three, lengths are in quarter voxels, so that points
and boxes are rounded as in the code; the Morton curve in one dimension is the axis.  A tile
fails or is written in one step (`TilePipeline` and `ResultStore` have what is between).

### Solver, Settings and DropIn

`Solver` is `solve_in_memory` with `solve_batch` and `_solve_chunk` under it.  `pc` goes from
a shell to its chunks, iterations and results, as the loops are nested.  Images are
abstracted to what decides a status: a landscape says, for one point, whether the reference
subvolume is inside, thin or flat, where sampling leaves the volume, where the displacement
is that solves it, and how iterations move (towards it, in a cycle, away, to infinity).
`Update` has every decision of `gn_update` in its order.  `BatchState` with its mask is kept
as the code keeps it, chunk by chunk, so that a point addressed wrongly is a wrong result.

`Settings` is a configuration as a function from fields to values, a `dvc_in` as the
sequence of its lines (key, words, note after them, commented out or not), and the
functions between the two: `FromDict` (types and ranges), `ReadDvcInput`, `RunConfigOf`,
`WriteDvcInput`, `StatEcho`.  Numbers are in thousandths, paths are words.

`DropIn` starts the solve on a job: a `dvc_in` with a point cloud, a backend and a machine.
`Prepare` checks everything and creates the temporary files, `Header` and `PrintLine` print,
`Upload` may find the GPU too small and fall back to the CPU, `WriteOutputs`, `ReplaceStat`
and `ReplaceDisp` end the run.  Any of these may fail; `ReaderLeaves` closes the pipe; `Kill`
ends it anywhere.  `caller` is the drop-in or a stage, which solves the same way without files.

### Volumes

A store is who writes it and the rows of shards that are complete.  `dst`, `tmp[c]` and
`old[c]` are the destination and the two hidden names with a converter's pid, which a
restart gets again.  `Start` to `RemoveOld` are the lines of `convert_to_ome_zarr` between
which another process can act; `Clean` is its `finally`.  The existence check is made at the
start and once more when all is written, as in the code, and not in between.

A reader opens what is at `dst`, or a flat file; which code reads a brick follows from the
file, the machine and the `gpu_io` asked for.  A voxel's value is the volume that wrote it
and its place, so a wrong voxel is told from a right one.  `Read` follows the code's
path: the part inside, by slabs, chunks or inner chunks of shards into the brick's buffer,
then `EdgePad` axis by axis in place; with a filter the margin first, and the box cut out of
slabs after it.  A filtered voxel is the values it looks at.  Two axes stand for three.

### Kernels, Objective and Engines

The CUDA kernels, the numba port and the array path as three sets of definitions that share
only what the code shares.  Arithmetic is exact: positions in units of 1/`Q` voxel, angles
in quarter turns (sines and cosines are -1, 0, 1), integer strains, interpolation
weights in units of 1/`Unit`.  `Engines` gives each thread of `gn_sums` its own program
counter between barriers, with the matrices, the warps' rows and the result in shared
memory, which a block finds as the last one left it.  `Poison` is what a load outside the
allocation gives, so a brick whose padding is too short shows.  `GnSolve`, a thread per point, and
`GnUpdate`, the array path on the whole batch, advance a batch side by side from the same
outcomes.  The work on
samples, warps and criteria has no steps: they are inputs over which a property quantifies.

### Checks and Campaign

A check is run at a place, that is on a machine, with an output root; a machine may have
several places, which share its baseline document (`baseline_dir`), and places may share a
root.  All run from one source tree.  `baseline` is a machine's document, or `Torn` while it
is written, `stored` the reference arrays under a root, `latest` the symlink there.  `Begin`
to `Report` are the lines between which a kill or another check may come. In an update, each
array is opened, filled and then hashed as it is by then (`OpenArray`, `FillArray`,
`HashArray`): the digest in the document may be of another machine's array.  `Reference` is
`_ccpi_reference`: the file asked for, else the document's if it is still there, else the
default; `ccpi` in a document is what the update was asked, `ref` what it was compared with,
which the code does not keep.  `Commit` changes the tree under a check: a suite of tests runs
what is there when it starts, and the steps of the check itself what was there at some time
since the check began (`Runs`), while the report names the revision noted at the beginning.  A
suite is skipped when nothing of it ran, and a skipped suite fails nothing.  `Preflight` has
its four findings: compiler, GPU, CUDA headers, idle GPU.

What a step measures follows from the revision and the machine's `Bias`: `position` stands for
the arrays, in units of the tolerance.  `casea.cpu` is judged as `casea.fused` is, p95 and
status agreement as the median is; one stands for both.  The RMSE of the self-test is in no
verdict. A path relative to the output root and one relative to the working directory are one
name.

`Campaign` runs the steps in order, passes over those whose `<step>.json` exists, and writes
each result in place (`OpenResult`, `WriteResult`); `report` is always run again, and loads
the files of eight steps, not its own.  Its check step is a check of `Checks` at `Node`, with
a root of its own, beside checks by hand of the same machine; its data step makes the parts of
a case and its config one by one. `TileEdge` is the `--tile` given, or halved until there are
four tiles for each device; `WholeCells` and `EnoughTiles` are what a plan and the weak
scaling refuse, `DevicesVisible` what both scalings do.  `KillJob` stops it anywhere, the
running check with it; `Resubmit` starts it again, `Submit` with other options.

## Runs

| run | instance | what is checked |
|---|---|---|
| `safety` | 2 workers, 2 tiles, depth 1, 1 retry, 1 kill, log faults, any set written before | `TypeOK`, `OneHolder`, `Accounted`, `GivenUpOnce` |
| `bounds` | 1 worker, 7 tiles, depth 1, 1 kill | `BricksBounded`, `CrashLoss`: how much is in memory and how much a kill can lose |
| `nofault` | 2 workers, 2 tiles, 1 retry, no faults | `Complete`, `RunEnds`, `ImplementsLedger`, no deadlock |
| `faults` | 2 workers, 2 tiles, no retry, 1 kill, log faults | `SurvivorsFinish` |
| `store` | 2 workers, 3 cells in 2 tiles, 2 values, 3 runs, 1 kill | `OneRunPerTile`, `NothingHidden`, `FullExport`, `DoneTilesKept`, no deadlock |
| `stages` | 3 configs (one per seeding strategy), 2 tiles, 2 faults, 2 config edits, 1 `.roi` edit, 1 removal | `Unmixed`, `CoarseSeeded`, `Recovers` |
| `mixing` | 1 config, 1 `.roi` edit | `DocNeverMixes` is violated, see Findings |
| `plan` | `.roi` files of up to 3 lines and 5 of 4 points, 4 cells of 2 bins, 3 tile sizes, 3 seed fields, 1 or 2 nodes, 2 jobs | `StoredOnce`, `BricksCover`, `SharesPartition`, `SolvedOnce`, `Reported` |
| `solve` | 4 points, shells of 10, 12 landscapes, 3 strategies, limits of 0, 2 and 3, chunks of 3, 3 iterations, 41 jobs, 1 fault | `AsAlone`, `GoodMeans`, `SeedOrigin`, `Processed`, `DispMeansDone`, `FailedKeeps`, `SettingsKept`, `Ends` |
| `volumes` | 2 converters, one overwriting, 3 starts, 1 kill, 1 fault; a volume of 5 by 3, 3 boxes | `DstWhole`, `Kept`, `BrickRight` |
| `engines` | bricks of 5 by 4 by 4, blocks of 1 and 2 warps of 4 lanes, 193 warps, 10 criteria and Jacobians, 2 points for 3 iterations | `SumsAgree`, `OneInterpolant`, `Derivatives`, `SolveAgrees`, no deadlock |
| `suite` | 2 machines, 3 places, 4 revisions, 2 CCPi results, 10 setups, up to 7 requests, 6 submissions, 1 of them after the first, 8 GPUs, 1 kill of the job | `PassMeans`, `Trusted`, `Completes` |

What they show: each listed property holds in every behaviour of the instance, and every
action of every module occurs in one.  For each property `PROJECT.json` names a mutant, a
definition preceded by a comment "Mutant:", which puts a plausible mistake in one
definition and breaks that property in the same instance.

Bounds and why they are enough:

- Two workers and two tiles reach each race the manager allows: both at the lock, one
  requeueing while the other drains, a tile requeued by the one and taken by the other.  The
  workers are interchangeable; tiles are queued in a fixed order and are not symmetric.
- Depth 1 makes every put of the prefetcher block.  Seven tiles and one worker fill all
  places (one per queue slot of `loads`, two in `writes`, three in the threads) with one over.
- One retry shows a requeue and a give-up of the same tile.
- A tile of two cells and one of one are what a tile half written by one run and completed
  by the next needs; three runs allow run, partial finalize, run, finalize, and a resumed
  run after that.
- Two faults are a stage interrupted and its repetition interrupted; two edits change a
  config and put it back.
- The points of `plan` lie on edges of cells and bins, at both ends of the volume and
  outside it, with ids in and out of order; a tile size that is no multiple of a cell is
  refused, one that spans two cells makes tiles of several.  The second seed field makes
  plans the memory check refuses, the third lacks some ids.  Two jobs, on one node and
  on two in either order, use a plan's assignment and make another.
- In `solve` chunks of three split four points unevenly; the limits end a shell early, at a
  boundary of shells and not at all; three iterations are enough to converge, to be cut
  short, to cycle and to overflow, in one chunk and at different times.  The jobs are
  CCPi's example with one setting changed in each way the reader distinguishes.
- `volumes` has a last chunk, shard and slab that are shorter than the others on each axis,
  and boxes over each face, over two at once and past the end within the filter's reach.
  Three starts are a conversion, one killed and its repetition with the same pid, or two at
  once and one after; one kill may come before, between and after the renames.
- In `engines` a warp of four lanes has two rounds of shuffles, two warps are the fewest
  that need the second reduction, and samples are fewer, as many and more than threads.
  Sample positions go in half voxels through the brick and past each face.  All 64
  combinations of quarter turns are taken without strain and with two strains.
- In `suite` each setup asks one question (two machines on one root, whose results differ by
  one unit of the tolerance; a life of one machine; what may change around it; commits during
  a check; what may be asked; CCPi's results moved away and back; a machine without a GPU, one
  without a compiler; the campaign; the campaign beside an update by hand) with as many checks
  as make a baseline, replace it and compare with what is left.  The revisions move the
  results beyond the tolerance of the first and within that of the second, and break a test.
  One kill may fall between any two writes of either program.  The submissions have two sizes,
  enough and too few tiles for their devices, more devices than there are, a tile that is not
  of whole cells, and single steps done again.

Sizes, with two workers of TLC: the largest runs have some 510,000 (`suite`), 260,000
(`solve`) and 200,000 (`stages`) distinct states; each takes less than three minutes.

Deadlock is checked in `nofault`, `store` and `engines`.  It is not in the runs with faults,
where a node does hang (`SurvivorsFinish` states exactly when), and not where a behaviour
ends: all bounds may be used up and a user has nothing left to do (`Coordinator`,
`Planning`, `Volumes`, `Campaign`), or the program has exited (`DropIn`).

Fairness:

- `TilePipeline`: each of a worker's three threads is weakly fair: the operating system
  schedules a runnable thread, and a `get` or `put` that can proceed does.  Weak fairness
  suffices for the lock: attempts are bounded, so it is taken finitely often, and a thread
  that waits for it finds it free from some moment on, unless its holder was killed.
- `Coordinator`: a running stage goes on (weak fairness), and the user keeps starting every
  stage that is possible (strong fairness per stage): that is the claim "repeat the stages",
  not one about the code.
- `DropIn`: the program goes on while it has something to do.
- `Campaign`: a running check and a running job go on, and a job that has ended without
  finishing is submitted again: `docs/CLUSTER.md` tells the user to.
- The others have safety properties only.  No fault, kill or change is fair anywhere.

## Proofs

What TLC checks on an instance, TLAPS proves for every value of the constants:

| module | theorem | from |
|---|---|---|
| `TilePipelineProofs` | `TypeCorrect`, `OneHolderCorrect`, `GivenUpOnceCorrect` | `Invariance` (`IInv`) |
| `TilePipelineProofs` | `AccountedCorrect`, `BricksBoundedCorrect`, `CrashLossCorrect`, `CompleteCorrect` | `IInv` and `TrackedAlways` (`Found`, `SnapWritten`, `Protocol`) |
| `TilePipelineProofs` | `Refinement`: `Spec => ImplementsLedger` | both |
| `ResultStoreProofs` | `OneRunPerTileCorrect`, `NothingHiddenCorrect`, `FullExportCorrect`, `DoneTilesKeptCorrect` | `Invariance` |
| `CoordinatorProofs` | `UnmixedCorrect`, `CoarseSeededCorrect` | `Invariance` |
| `PlanningProofs` | `StoredOnceCorrect`, `BricksCoverCorrect` | `StaticInv` (`Imported`, `Planned`) |
| `PlanningProofs` | `SharesPartitionCorrect`, `ReportedCorrect` | `StaticInv`, `JobInv` |
| `PlanningProofs` | `SolvedOnceCorrect` | `StaticInv`, `SolvedInv` |
| `VolumesProofs` | `DstWholeCorrect`, `KeptCorrect` | `Invariance` (`IInv`) |
| `VolumesProofs` | `BrickRightCorrect` | `ReadInvariance` (`ReadInv`) |
| `DropInProofs` | `GoodMeansCorrect`, `FailedKeepsCorrect` | `SolverInv`, `RunInv` |
| `DropInProofs` | `AsAloneCorrect` | `SolverInv`, `AloneInv` |
| `DropInProofs` | `ProcessedCorrect`, `SeedOriginCorrect` | `ProgressInv`; `SeedsInv` and the invariants of results |
| `DropInProofs` | `DispMeansDoneCorrect` | all of these, `PrintInv`, `FinalInv` |
| `CampaignProofs` | `TrustedCorrect`, `PassMeansCorrect` | `Invariance`; `Sound` |

Invariants are `[]` of a state predicate; `CrashLoss`, `DoneTilesKept` and `Kept` are action
properties, which say of each step what it may not do.  None of the properties is inductive
as it stands.  The arguments:

`TilePipeline`.  That `attempts` stays within its type needs a tile's failure to be counted
by one thread at a time, which needs `OneHolder`; and `OneHolder` needs to know that a thread
that takes a tile has none.  `IInv` adds that a thread's variable holds a tile exactly at
the steps of `Busy` (`HandsFull`), that every tile in a queue, a list or a hand has that as its
`place`, and once (`QueuePlaced`, `FailedPlaced`, `LoadsPlaced`, `WritesPlaced`,
`HandPlaced`), and that more failures than retries are counted only for tiles given up, lost, or
between the count and the list (`Counted`).  A tile in two places would have two values of
`place`.

`Accounted` needs the converse, that a tile is where its place says and is stored when it is done
(`Found`).  `Complete` needs the protocol of the end marks besides: without log faults
a queue has at most one `End`, as its last entry, and a compute loop that has
left has seen the end of both (`LoadsMarked`, `WritesMarked`).  `CrashLoss` and `BricksBounded`
follow from the capacities of the queues and `HandPlaced`: what a kill loses was in one
worker's hands and queues, and each place has room for so many.

`Refinement` maps the ledger's `fate` and `owner` to parts of `place`, and `tries` to
`attempts`, less one while the holder of the tile is between counting a failure and
listing or requeueing it.  Only one thread is there for a tile (`OneHolder`), so every other step
leaves `tries` alone.

`ResultStore`.  The last chunk of a tile is written when the same worker has written all
others, so a tile that has it is whole.  A worker that may be writing a tile that
has it writes the same values again, for a run lists each tile that an earlier one ended.

`Coordinator`.  Rows are right because of what stages leave of each other's files: nothing is
written before the plan is saved (`Staged`), an import that was planned never changes unless the
`.roi` does (`OneImport`), plan and store are made for the same settings except while a store
is being allocated (`Agreed`), and a planned seed field is whole (`Seeded`).

`Planning`.  A store holds every point once because each cell's rows are the points in that
cell, sorted, and a sort gives each element one rank; the offsets of its bins count the rows
before each bin, and so does the reader (`Imported`).  The tiles cut the cells by the tile
each lies in, and an assignment goes down the sorted list of tiles and gives each of them to
one share (`Planned`).  A brick covers because the box around the tile's points, rounded
outwards, is grown by more than a sample and a displacement within `DispMax` can reach, and
the target's is moved by the median of the seeds and grown by how far any seed is from it.  A
batch is a piece of the curve's order, so the results written back by position are those of
the points in that order, and the rows of a tile, cell after cell, are its points again
(`SolvedInv`: each cell that is written is right by itself, so that jobs may be lost or
repeated).  A node's report is made from what it was given (`JobInv`), of tiles that no other
node has.

`Volumes`, readers.  Each of the four ways to read, and write_raw, is brought to one form: the
voxel at `p` of a brick is the one of the volume nearest to its corner plus `p`.  A reader
that copies by slabs or chunks writes some places at each turn and leaves the rest
(`FillExists`); every place is written by one turn at least, and what all turns that write it
agree on is there at the end (`FillResult`).  Padding in place works because the columns that
the second axis repeats were completed by the first, and a slab with its margin filters like
the whole.

`Volumes`, conversions.  A converter that deletes a store has put its own in place first.
Another may have moved that one aside by then, and a third the next; what makes it safe is
that while anyone is deleting, a whole store is at the destination or with a process that is
not (`Spared`).

`Solver` and `DropIn`.  GOOD is decided in three places: before the first step, at each step,
after the last.  A point that was never stepped is still active, and one active at the end was
stepped `MaxIterations` times; so a GOOD point has passed all three.  Through the iterations
each point of a chunk is where it would be alone after as many steps, or after its last one
when it has left the mask (`AloneInv`).  The shells cut the order of points into pieces that
follow each other, whether or not the limit empties one, and the points with a result are
always those of the shells before this one (`ProgressInv`); so a neighbour that gives a seed
was final when it did (`SeedsInv`), and the limit leaves out only points further off.  While
the program runs no `.disp` is in place, and the `.stat` only when the `.disp` is next; the
lines printed follow the order of the rows (`PrintInv`), and what is renamed was written from
final results (`FinalInv`).

`Checks` and `Campaign`.  `Trusted`: a setting step that is not on the list of steps left has
its file, none comes after a measurement, a config changes only in the data step, and the run
that `latest` names when the check step reads it is its own: no check by hand writes under
the campaign's root or has its number (`OwnCheck`, `Jobs`).

`PassMeans`: a check's findings are of what it measured, and what it measured goes back to a
revision, a reference and arrays that were there when the step ran.  `Sound` says so step by
step: which steps of the plan are left, and that each of the others held at the revision it
was run at (`Planned`); that each array is within tolerance of the document's, as long as
those compared with were the document's own (`Seen`); that a median is the distance to the
reference it was taken against (`Measures`), in a check and in a document (`DocSound`).  A
check keeps the document it loaded, so what others write meanwhile does not enter; and an
update writes what it has measured.

Induction over data, of which sorts, prefix sums, loops over chunks and batches, and the solver's
iterations are made, is stated for sets of numbers (`Ind`, `IndUpTo` of `OrdersProofs`), which is as
good as a predicate and which the provers can use.  What such an argument needs of a model
is that it is written with functions on numbers and not with recursive operators.

Assumptions on constants are named, in the module that declares them, and TLC evaluates them:

| assumption | why the code justifies it |
|---|---|
| `ShareAssumption` | `node_share` returns ids of one assignment, each once; `SharesPartition` checks it where shares are made |
| `BoundsAssumption`, `RunBounds`, and `CountsAssumption` of `Coordinator` | `config.py` demands a positive depth; the rest are the bounds of the model, any numbers |
| `WorkersAssumption` | a node starts one process per device and has at least one |
| `ResumedAssumption` | what an earlier run left written are tiles |
| `TilesDisjoint` | a plan makes tiles of disjoint sets of cells and leaves out empty ones (`SharesPartition`) |
| `SettingsAssumption` | `from_dict` refuses another strategy |
| `SolverAssumption`, `DropInAssumption` | ranges that `from_dict` and the configuration's defaults guarantee; points exist |
| `SizesAssumption`, `ReachAssumption` | sizes of cells, bins, tiles and batches and numbers of nodes are positive where the code divides by them; the others are lengths and amounts |
| `RoiAssumption`, `SeedsAssumption` | a file is a finite list of lines; ids and rounded seeds are integers, and a field that is read has points (`seed` writes one per coarse point) |
| `VolumesAssumption` | a volume, its chunks, shards and slabs are not empty; a header, a filter's reach and the corners of a box are integers (boxes may lie anywhere) |
| `ChecksAssumption` | the tiers of the command line; each place has a machine, and what a revision is described by; the case A directory has a CCPi result |
| `CampaignAssumption` | `step_check` sets `ZVDVC_CHECK_OUT` to a directory of the campaign, so no check by hand has its root; the baseline document is not under it, and is shared |
| `MarksAssumption`, `ValuesAssumption`, `NoneAssumption`, `WritersAssumption`, `ExitAssumption`, `OutcomeAssumption`, and `CountsAssumption` of `DropIn` | a mark is none of the things it marks the absence of |

Only model-checked:

- `RunEnds`, `SurvivorsFinish`, `Recovers`, `Ends` and `Completes`: liveness and `ENABLED` are out
  of the prover's reach.
- `SumsAgree`, `OneInterpolant`, `Derivatives` and `SolveAgrees` of `Engines`: `Kernels` and
  `Objective` add up with folds over sequences and multiply matrices, and what two engines
  have in common is polynomial arithmetic in many variables, which the provers do not do.
- `SettingsKept`: it reads back, line by line, a file that was written line by line, out of
  words and a filter over sequences (`SelectSeq`), of which the provers know nothing.

## Findings

`mixing`.  `plan` imports a changed `.roi` before it compares the fingerprint and refuses.
The import stays, newer than the `.roi`, and `run` then accepts it with the old plan and
store: `check_plan` does not compare the points.  `docs/ARCHITECTURE.md:273` says a run
cannot mix data.  `Unmixed` says when it does not.

Also met while modelling.  These have no run of their own; where a property holds only with
an exception for one of them, it is named.

Import:

- A plan killed while it imports the `.roi` before the first cell is whole, or in the midst of a
  cell, leaves a directory that is newer than the `.roi`: every later plan takes it for a
  current import and raises (`no points`, or a read that fails), and only removing it by hand helps.
  `Recovers` excepts it as `HalfImported`.  Killed between two cells, it leaves an import that is
  planned and solved as if it were all.

Run and store:

- A killed worker loses up to `prefetch_depth` + 5 tiles: the `loads` queue, two in
  `writes`, one in each thread.  `docs/spec/results_store.md:209` names only the one being
  solved and the prefetched ones.  `CrashLoss` states the bound that holds.
- The manager lock is held over three calls to the manager.  A worker killed in between, or
  waiting for it, leaves it locked, and each other worker hangs as soon as a tile fails
  (`LockOrphaned` in `SurvivorsFinish`); `docs/ARCHITECTURE.md:265` says they keep draining.
- A tile that lacks one cell is written again as a whole; a worker killed while it rewrites
  a cell that was complete leaves one that counts and mixes two runs, though
  `docs/spec/results_store.md:54` says nothing that looks finished is left.  A whole tile
  never counts in that state (`OneRunPerTile`), but a partial finalize exports the cell.
- A worker holds up to `prefetch_depth` + 2 bricks; `check_memory` counts `prefetch_depth`
  (`BricksBounded`, which does not count the last tile's brick, that the variable `loaded` of
  `worker.py:286` keeps until the next one is assigned).
- A job on fewer nodes than an earlier one leaves the `failed_tiles.node<k>.json` of the
  nodes it does not have (`Reported` is about the job's own nodes).

Volumes:

- Whether `dst` exists and may be replaced is asked at the start only.  A second converter
  moves a store aside that another finished meanwhile, and deletes it (`Kept` allows it: a whole
  store is left).  A kill or a failure between the two renames leaves nothing at `dst`; the
  old store is under its hidden name.  A leftover `.old-pid` whose pid comes again makes
  the first rename fail.
- A filtered volume answers a box that is outside the volume, but within the filter's reach
  of it, with padding; an unfiltered one raises (`BrickRight` has both).

Drop-in:

- When the second rename fails, the earlier `.stat` is already replaced, though the
  docstring of `run` says earlier outputs stay (`FailedKeeps` excepts it).  When the
  second temporary file cannot be created, the first is left.
- `stat_echo` raises on numbers separated by commas, which the reader accepts
  (`SettingsKept` excepts it).

Check suite and campaign:

- A job killed while `make_case` writes volumes leaves volumes without `config.yaml`, and
  each later job fails on the volume that is there; `docs/CLUSTER.md:72` says a job that
  hits its limit continues.  `<step>.json` and `config.yaml` are written in place, so a kill
  leaves a torn file that counts as done, or fails for ever.  Another `--size` with the same
  `--out` passes over the data step.  `Completes` excepts these as `HalfMade`, `LeftTorn`
  and `OtherCase`.
- More devices than are visible make both scaling steps fail at every submission
  (`TooManyDevices`).  The baseline document is not under the campaign's root: an update by
  hand that is killed while writing it leaves it torn, and every later check of the machine
  raises, the campaign's too (`BaselineTorn`).
- Reference arrays that are gone, or are another machine's because the output root is shared,
  are compared by digest only, and not by tolerance: `PassMeans` demands the tolerance only
  where they are the document's.  The digest is taken of the shared file after the copy, so it
  may itself be of another machine's array.  An update killed while it copies leaves a torn
  array: every later full check fails on it, and because an update is refused when the check
  fails, none replaces it.  For the same reason a change beyond the tolerance cannot be
  recorded as the new baseline.
- When the CCPi result a document names is gone, the default one is taken instead, and its
  median judged by the other's; an update that is not given the file again does not take over
  the earlier one's.  `PassMeans` promises the comparison only between medians against the
  same result.
- The report names the revision at its beginning; tests and steps run the tree as it is when they
  start.  `PassMeans` is about the revision a step was run at.
- A suite of which nothing ran is skipped, and a skipped suite neither fails the check nor makes
  its result partial: a PASS does not say that the slow or the GPU tests ran.
- A job of one size stopped after its volumes and config are made, one of another size that
  finishes the data step, and then the first size again: the data step is passed over, and
  the measurements are made on the volumes of the first while `data.json` states the other.
  `Trusted` compares with `data.json` only where it is of the same size.

## Not modelled

- Arithmetic without state: strain, uncertainty, templates and point grids, phantoms,
  `batch_size`; floating-point rounding everywhere.
- Measurement and plotting: the benchmarks other than the check suite and the
  campaign's driver.
- Argument parsing, exit codes, YAML; the fields of the configuration a `dvc_in` cannot have.
- Detection of nodes from SLURM and MPI; the worker's construction and statistics.
- The pyramid of the results store and the metadata calls of finalize; zarr, zarr-vectors
  and kvikio themselves, modelled from how the code uses them.
- Streams and the thread pool of direct storage, whose reads are disjoint.
- `fft_seed`, `repair_candidates` and `repair`, which the code announces and does not implement.
- In `Coordinator` several nodes at once; in `ResultStore` a finalize while workers write, which
  the documents forbid and nothing in the code prevents.
- In `ResultStore`, the writer of wavefront seeding (`coordinator.py:353`), which reopens the
  store and writes every planned tile again, those that count as written too.  `OneRunPerTile`
  and `DoneTilesKept` are about workers; which settings and points the rows it writes come
  from is in `Coordinator`.
- In `Campaign`, which files a measuring step leaves besides its result, and whether the points of a
  volume occupy every cell (`TilesOf` counts the blocks).

One axis of three in `Planning` and `Solver`, and two in `Volumes`, leave out only what the
code does alike on each axis; the exceptions would be the Morton curve's order in space,
which changes no result (`SolvedOnce` is about whose result it is, for any order), and
strained subvolumes with twelve degrees of freedom, whose reach `RunConfig.halo` does not
count (`BricksCover` is about translation).

## Plan

The modules are complete for what is listed above, and every safety property outside `Engines`
but `SettingsKept` is proved.  What could be proved next:

1. The half of `SolveAgrees` that is about the update: a thread that leaves its loop and a batch
   that goes on under a mask reach the same state from the same outcomes.  It has the
   form of `AsAlone`, and needs no arithmetic but comparisons.
2. `SettingsKept`, with `SelectSeq` replaced by the selection of `Orders`, of which
   `OrdersProofs` has the lemmas.
3. `OneInterpolant`, once the interpolation is a sum of eight named terms and no fold.
