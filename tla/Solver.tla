------------------------------- MODULE Solver -------------------------------
(***************************************************************************)
(* The whole-volume solve: points are ordered by distance from the start,  *)
(* cut into shells, each shell is seeded from solved neighbours and solved *)
(* as one batch, in chunks, by Gauss-Newton steps on the points of a chunk *)
(* that are still active.                                                  *)
(*                                                                         *)
(* The arithmetic is abstracted to what decides a status.  Points lie on a *)
(* line, displacements are integers, and the images around a point are a   *)
(* record (Landscapes) that says what sampling and solving there gives.    *)
(* Step is the length of a step; where it is a multiple of 8, means of two *)
(* neighbours, and of such means, are integers and none is rounded.        *)
(***************************************************************************)
EXTENDS Integers, FiniteSets, Sequences, SequencesExt, FiniteSetsExt, Orders

CONSTANTS
  Position,      \* of each point: a sequence of integers
  Landscapes,    \* what the images may look like around a point
  Worlds,        \* a set of functions from points to Landscapes
  Strategies,    \* of "wavefront", "coarse" and "rigid"
  StartPoint,    \* seeding.start_point, or None
  ShellWidth, NNeighbours, CoarseStride, Spacing,
  ProcessLimits, \* values of num_points_to_process; 0 is none
  Rigid, DispMax, ObjTol, Step, MaxIterations,
  BasinSteps,    \* grid steps on each side of the seed, 0 without a search
  Threshold,     \* whether search.threshold is set
  ChunkSize,     \* points per call of the engine
  None           \* a displacement that is not finite

ASSUME SolverAssumption ==
  /\ Position \in Seq(Int) /\ Position # <<>> /\ Worlds \subseteq [DOMAIN Position -> Landscapes]
  /\ {ShellWidth, ChunkSize, MaxIterations, Spacing, CoarseStride, Step} \subseteq Nat \ {0}
  /\ {NNeighbours, DispMax, ObjTol, BasinSteps} \union ProcessLimits \subseteq Nat
  /\ StartPoint # None => StartPoint \in Int

Points == DOMAIN Position
NotSearched == "not searched"

VARIABLES
  world, strategy, limit, reportConvgFail,  \* the inputs
  order, shells, neighbours, \* worked out once, before anything is solved
  result,  \* per point: its status, displacement, seed and number of steps
  shell,   \* the shell being solved
  seeds,   \* the seeds of the batch
  out,     \* the batch's results so far
  chunk,   \* BatchState: status, displacement, previous objective and steps, per point of the chunk
  active, it,
  field,   \* per point, the coarse points its seed is interpolated from
  pc       \* "shell", "chunk", "iterate", "finish", "solved", "field" or "done"

solveInputs == <<world, strategy, limit, reportConvgFail, order, shells, neighbours>>
batch == <<seeds, out, chunk, active, it>>
solverVars == <<solveInputs, result, shell, batch, field, pc>>

Abs(v) == IF v < 0 THEN -v ELSE v
Distance(p, q) == Abs(Position[p] - Position[q])

-----------------------------------------------------------------------------
(* Order, shells and neighbours.                                            *)

\* coarse_subset: in each cube of the coarse lattice the point nearest its corner.
CoarseSubset ==
  LET step == CoarseStride * Spacing
      rel(p) == Position[p] - Min(Range(Position))
  IN  IF CoarseStride <= 1 THEN Points
      ELSE {p \in Points : \A q \in Points :
             rel(q) \div step = rel(p) \div step =>
               rel(p) < rel(q) \/ (rel(p) = rel(q) /\ p <= q)}

\* The points handed to solve_in_memory.
Given(strat) == IF strat = "coarse" THEN CoarseSubset ELSE Points

ProcessingOrder(S) ==
  LET start == IF StartPoint # None THEN StartPoint ELSE Position[Min(S)]
  IN  Sorted(S, [p \in S |-> Abs(Position[p] - start)])

\* Mutant: one point more.
LimitedOneMore(seq) == IF limit = 0 THEN seq ELSE SubSeq(seq, 1, Min({limit + 1, Len(seq)}))

Limited(seq) == IF limit = 0 THEN seq ELSE SubSeq(seq, 1, Min({limit, Len(seq)}))

Ring(p, first) ==
  Abs(Position[p] - (IF StartPoint # None THEN StartPoint ELSE Position[first])) \div ShellWidth

\* wavefront_shells: the first point alone, then rings of one width.
Rings(seq, first) ==
  LET rings == {Ring(seq[i], first) : i \in 2..Len(seq)}
  IN  <<<<Head(seq)>>>> \o
      [i \in 1..Cardinality(rings) |->
         At(seq, {j \in 2..Len(seq) : Ring(seq[j], first) = Ascending(rings)[i]})]

\* knn: the nearest others.
Nearest(S, p) ==
  LET near == Sorted(S \ {p}, [q \in S |-> Distance(p, q)])
  IN  {near[i] : i \in 1..Min({NNeighbours, Len(near)})}

ToDo == Range(Limited(order))

Mean(f) == SumFunction(f) \div Cardinality(DOMAIN f)

\* Mutant: any neighbour with a displacement counts.
SeedFromSearched(p, res) ==
  LET near == {q \in neighbours[p] : res[q].status # NotSearched /\ res[q].u # None}
  IN  IF near = {} THEN Rigid ELSE Mean([q \in near |-> res[q].u])

\* seed_from_neighbours: the mean of the GOOD ones.
SeedFromNeighbours(p, res) ==
  LET good == {q \in neighbours[p] : res[q].status = "GOOD"}
  IN  IF good = {} THEN Rigid ELSE Mean([q \in good |-> res[q].u])

-----------------------------------------------------------------------------
(* The images.  A landscape has: refInside, thin and refFlat for the        *)
(* reference samples; lo and hi, where target samples are inside; target,   *)
(* where the objective, the distance to it, is least; motion, how a step    *)
(* goes; singular, whether the normal equations have no solution; and       *)
(* targetFlat.                                                              *)

Inside(w, u) == u # None /\ w.lo <= u /\ u <= w.hi
Objective(w, u) == Abs(u - w.target)

Move(w, u) ==
  LET d == w.target - u IN
  CASE w.motion = "approach" -> IF Abs(d) < Step THEN d ELSE IF d < 0 THEN -Step ELSE Step
    [] w.motion = "cycle"    -> IF d > 0 THEN Step ELSE -Step
    [] w.motion = "unstable" -> IF d > 0 THEN -(2 * Step) ELSE -Step
    [] w.motion = "overflow" -> None

\* translation_grid_search: the best translation whose samples are inside, the
\* first of equals; the seed when there is none.
GridSearch(w, s) ==
  LET grid == {s + i * (DispMax \div BasinSteps) : i \in -BasinSteps..BasinSteps}
      fit  == {u \in grid : Inside(w, u)}
  IN  IF fit = {} THEN s
      ELSE CHOOSE u \in fit : \A v \in fit :
             Objective(w, u) < Objective(w, v) \/ (Objective(w, u) = Objective(w, v) /\ u <= v)

-----------------------------------------------------------------------------
(* A point through Gauss-Newton.                                            *)

\* Sampling the reference decides whether a point is tried at all.
Begin(w, s) ==
  LET status == IF ~w.refInside THEN "RANGE_FAIL"
                ELSE IF Threshold /\ w.thin THEN "THRESH_FAIL"
                ELSE IF w.refFlat THEN "SINGULAR" ELSE "GOOD"
  IN  [status |-> status, prev |-> None, n |-> 0, done |-> status # "GOOD", seed |-> s,
       u |-> IF status = "GOOD" /\ BasinSteps > 0 THEN GridSearch(w, s) ELSE s]

\* Mutant: a point that has converged is not tested for its range.
UpdateUntested(w, st) ==
  IF ~Inside(w, st.u) THEN [st EXCEPT !.status = "RANGE_FAIL", !.done = TRUE]
  ELSE IF w.singular THEN [st EXCEPT !.status = "SINGULAR", !.done = TRUE]
  ELSE LET obj == Objective(w, st.u)
           du  == Move(w, st.u)
           u   == IF du = None THEN None ELSE st.u + du
           converged == (st.prev # None /\ Abs(obj - st.prev) < ObjTol) \/ du = 0
           away == u # None /\ Abs(u - st.seed) > DispMax /\ ~converged
       IN  [st EXCEPT !.u = u, !.n = @ + 1, !.prev = obj, !.done = converged \/ away,
                      !.status = IF away THEN "RANGE_FAIL" ELSE @]

\* gn_update.
Update(w, st) ==
  IF ~Inside(w, st.u) THEN [st EXCEPT !.status = "RANGE_FAIL", !.done = TRUE]
  ELSE IF w.singular THEN [st EXCEPT !.status = "SINGULAR", !.done = TRUE]
  ELSE LET obj == Objective(w, st.u)
           du  == Move(w, st.u)
           u   == IF du = None THEN None ELSE st.u + du
           converged == (st.prev # None /\ Abs(obj - st.prev) < ObjTol) \/ du = 0
           away == u # None /\ Abs(u - st.seed) > DispMax     \* a comparison with NaN is false
       IN  [st EXCEPT !.u = u, !.n = @ + 1, !.prev = obj, !.done = converged \/ away,
                      !.status = IF away THEN "RANGE_FAIL" ELSE @]

\* The last sampling of the points that are left; late: still active, and to be reported.
Conclude(w, st, late) ==
  LET status == IF late THEN "CONVG_FAIL" ELSE st.status
  IN  IF status \notin {"GOOD", "CONVG_FAIL"} THEN [st EXCEPT !.status = status]
      ELSE [st EXCEPT !.status = IF st.u = None THEN "SINGULAR"
                                 ELSE IF ~Inside(w, st.u) THEN "RANGE_FAIL"
                                 ELSE IF w.targetFlat THEN "SINGULAR" ELSE status]

-----------------------------------------------------------------------------
(* The solve.                                                               *)

Blank == [status |-> NotSearched, u |-> 0, seed |-> 0, n |-> 0]

SolverInit ==
  /\ world \in Worlds /\ strategy \in Strategies /\ limit \in ProcessLimits
  /\ reportConvgFail \in BOOLEAN
  /\ order = ProcessingOrder(Given(strategy))
  /\ shells = IF strategy = "rigid" THEN <<Ascending(ToDo)>> ELSE Rings(order, Min(Given(strategy)))
  /\ neighbours = [p \in Given(strategy) |-> Nearest(Given(strategy), p)]
  /\ result = [p \in Points |-> Blank]
  /\ shell = 1 /\ seeds = <<>> /\ out = <<>> /\ chunk = <<>> /\ active = {} /\ it = 0
  /\ field = <<>> /\ pc = "shell"

\* The points of a shell that are to be solved; rigid solves all in one.
Batch(k) == At(shells[k], {i \in DOMAIN shells[k] : shells[k][i] \in ToDo})
LastShell == Len(shells)

\* Mutant: a shell without points to solve is not passed over.
StartShellFull ==
  /\ pc = "shell" /\ shell <= LastShell /\ Batch(shell) # <<>>
  /\ seeds' = [p \in ToSet(Batch(shell)) |->
       IF strategy = "rigid" THEN Rigid ELSE SeedFromNeighbours(p, result)]
  /\ out' = <<>> /\ pc' = "chunk"
  /\ UNCHANGED <<solveInputs, result, shell, chunk, active, it, field>>

StartShell ==
  /\ pc = "shell" /\ shell <= LastShell
  /\ \/ /\ Batch(shell) = <<>> /\ shell' = shell + 1
        /\ UNCHANGED <<seeds, out, pc>>
     \/ /\ Batch(shell) # <<>> /\ UNCHANGED shell
        /\ seeds' = [p \in ToSet(Batch(shell)) |->
             IF strategy = "rigid" THEN Rigid ELSE SeedFromNeighbours(p, result)]
        /\ out' = <<>> /\ pc' = "chunk"
  /\ UNCHANGED <<solveInputs, result, chunk, active, it, field>>

\* The next points of the batch.
NextChunk == SubSeq(Batch(shell), Cardinality(DOMAIN out) + 1,
                    Min({Cardinality(DOMAIN out) + ChunkSize, Len(Batch(shell))}))

StartChunk ==
  /\ pc = "chunk"
  /\ chunk' = [p \in ToSet(NextChunk) |-> Begin(world[p], seeds[p])]
  /\ active' = {p \in ToSet(NextChunk) : chunk'[p].status = "GOOD"}
  /\ it' = 0 /\ pc' = "iterate"
  /\ UNCHANGED <<solveInputs, result, shell, seeds, out, field>>

\* Mutant: a point that is done stays in the active set.
IterateAll ==
  /\ pc = "iterate"
  /\ \/ /\ active # {} /\ it < MaxIterations
        /\ chunk' = [p \in DOMAIN chunk |-> IF p \in active THEN Update(world[p], chunk[p]) ELSE chunk[p]]
        /\ active' = IF \A p \in active : chunk'[p].done THEN {} ELSE active
        /\ it' = it + 1 /\ UNCHANGED pc
     \/ /\ active = {} \/ it = MaxIterations
        /\ pc' = "finish" /\ UNCHANGED <<chunk, active, it>>
  /\ UNCHANGED <<solveInputs, result, shell, seeds, out, field>>

Iterate ==
  /\ pc = "iterate"
  /\ \/ /\ active # {} /\ it < MaxIterations
        /\ chunk' = [p \in DOMAIN chunk |-> IF p \in active THEN Update(world[p], chunk[p]) ELSE chunk[p]]
        /\ active' = {p \in active : ~chunk'[p].done}
        /\ it' = it + 1 /\ UNCHANGED pc
     \/ /\ active = {} \/ it = MaxIterations
        /\ pc' = "finish" /\ UNCHANGED <<chunk, active, it>>
  /\ UNCHANGED <<solveInputs, result, shell, seeds, out, field>>

FinishChunk ==
  /\ pc = "finish"
  /\ out' = [p \in DOMAIN out \union DOMAIN chunk |->
               IF p \in DOMAIN chunk THEN Conclude(world[p], chunk[p], p \in active /\ reportConvgFail) ELSE out[p]]
  /\ chunk' = <<>> /\ active' = {}
  /\ pc' = IF Cardinality(DOMAIN out') < Len(Batch(shell)) THEN "chunk" ELSE "solved"
  /\ UNCHANGED <<solveInputs, result, shell, seeds, it, field>>

\* solve: the results of a batch, for good.
KeepBatch ==
  /\ pc = "solved"
  /\ result' = [p \in Points |->
       IF p \in DOMAIN out THEN [status |-> out[p].status, u |-> out[p].u, seed |-> seeds[p], n |-> out[p].n]
       ELSE result[p]]
  /\ seeds' = <<>> /\ out' = <<>>
  /\ shell' = shell + 1 /\ pc' = "shell"
  /\ UNCHANGED <<solveInputs, chunk, active, it, field>>

\* interpolate_seed_field: the GOOD coarse points a point's seed is a mean of.
Sources(p) ==
  LET good  == {q \in CoarseSubset : result[q].status = "GOOD"}
      exact == {q \in good : Distance(p, q) = 0}
      near  == Sorted(good, [q \in good |-> Distance(p, q)])
  IN  IF exact # {} THEN {near[1]} ELSE {near[i] : i \in 1..Min({8, Len(near)})}

SolveEnds ==
  /\ pc = "shell" /\ shell > LastShell
  /\ pc' = "done"
  /\ field' = IF strategy = "coarse" THEN [p \in Points |-> Sources(p)] ELSE field
  /\ UNCHANGED <<solveInputs, result, shell, batch>>

SolverNext ==
  StartShell \/ StartChunk \/ Iterate \/ FinishChunk \/ KeepBatch \/ SolveEnds

-----------------------------------------------------------------------------
(* Properties.                                                              *)

\* A point by itself from a seed, where the images are w: its state after i steps, and its result.
States(w, s) ==
  LET state[i \in 0..MaxIterations] ==
        IF i = 0 THEN Begin(w, s)
        ELSE IF state[i - 1].done THEN state[i - 1] ELSE Update(w, state[i - 1])
  IN  state

Alone(w, s, report) ==
  LET last == States(w, s)[MaxIterations]
      end  == Conclude(w, last, ~last.done /\ report)
  IN  [status |-> end.status, u |-> end.u, seed |-> s, n |-> end.n]

\* solve_batch and _solve_chunk: masks, chunks and batches change nothing.  Each
\* point's result is the one it has when it is solved alone from its seed.
AsAlone ==
  \A p \in Points : result[p].status # NotSearched =>
    result[p] = Alone(world[p], result[p].seed, reportConvgFail)

\* status.py: what is GOOD is no further from its seed than disp_max, finite,
\* textured and inside both volumes, whatever made its iterations end.
GoodMeans ==
  \A p \in Points : result[p].status = "GOOD" =>
    LET w == world[p] u == result[p].u IN
    /\ u # None /\ ~(Abs(u - result[p].seed) > DispMax) /\ Inside(w, u)
    /\ w.refInside /\ ~w.refFlat /\ ~w.targetFlat /\ ~w.singular
    /\ Threshold => ~w.thin

\* Seeds come from GOOD neighbours of earlier shells only, as they are in the end,
\* never from a failed point or one of the same shell; from coarse points alike.
SeedOrigin ==
  pc = "done" =>
    /\ strategy # "rigid" => \A p \in ToDo :
         LET good == {q \in neighbours[p] \intersect ToDo :
                        /\ result[q].status = "GOOD"
                        /\ q = order[1] \/ Ring(q, Min(DOMAIN neighbours)) < Ring(p, Min(DOMAIN neighbours))}
         IN  result[p].seed = IF p = order[1] \/ good = {} THEN Rigid ELSE Mean([q \in good |-> result[q].u])
    /\ strategy = "coarse" => \A p \in Points :
         /\ \A q \in field[p] : result[q].status = "GOOD"
         /\ result[p].status = "GOOD" => \A q \in field[p] : Distance(p, q) = 0

\* num_points_to_process and the shells: as many points as asked for are solved,
\* none is nearer to the start that is not, and no shell loses one.
Processed ==
  pc = "done" =>
    LET searched == {p \in Points : result[p].status # NotSearched}
        given    == DOMAIN neighbours
    IN  /\ searched \subseteq given
        /\ Cardinality(searched) = IF limit = 0 THEN Cardinality(given) ELSE Min({limit, Cardinality(given)})
        /\ \A p \in searched : \A q \in given \ searched : Ring(p, Min(given)) <= Ring(q, Min(given))
=============================================================================
