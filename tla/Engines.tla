------------------------------ MODULE Engines -------------------------------
(***************************************************************************)
(* The engines behind the solver: the CUDA kernels, the numba port and the *)
(* array path.  A behaviour takes one piece of work and carries it out.    *)
(*                                                                         *)
(*   sums    gn_sums, one block of threads per active point: thread 0 puts *)
(*           the point's matrices in shared memory, the threads stride     *)
(*           over the samples, warps reduce by shuffles, the block reduces *)
(*           the warps through shared memory, and the threads stride over  *)
(*           the columns of the row they store.  Blocks share nothing, so  *)
(*           they run one after another; the shared memory of a block      *)
(*           starts with what the last one left there.                     *)
(*   update  gn_solve, one thread per active point, beside gn_update on    *)
(*           the whole batch, for as many iterations                       *)
(*   sample, warp, system   no steps: they are inputs of the properties    *)
(***************************************************************************)
EXTENDS Objective

CONSTANTS
  Work,           \* a sequence of pieces of work
  Lanes,          \* threads of a warp
  Outcomes,       \* what a point's sums may say: see GnSolve
  NPoints, MaxIterations, ObjTol, DispTol, DispMax,
  NaN, Infinity

ASSUME EnginesAssumption ==
  /\ {Lanes, NPoints, MaxIterations, ObjTol, DispTol, DispMax, Infinity} \subseteq Nat
  /\ Work # << >> /\ Lanes > 0
  /\ \A i \in DOMAIN Work : Work[i].what = "sums" => Work[i].threads % Lanes = 0

VARIABLES
  job,      \* the piece of work: an index of Work
  block,    \* the block that runs: an index of the active list
  pc,       \* where each thread of it is
  mats,     \* shared: the point whose matrices are in mats[], 0 for none yet
  acc,      \* each thread's registers
  red, res, \* shared: a row per warp, and their sum
  sums, outside,  \* the results, one per active point
  dense,    \* the array path's samples of the active points
  others,   \* the sums of the array path and of the numba port
  engines   \* the state of a batch on the GPU and in the array path

vars == << job, block, pc, mats, acc, red, res, sums, outside, dense, others, engines >>
threadVars == << job, dense, others, engines >>

work == Work[job]
Points(w) == DOMAIN w.centres
Samples(w) == DOMAIN w.offsets
Dof(w) == Len(w.params[1])
Columns(w) == 1 .. NSums(Dof(w)) + 1     \* the last counts samples outside
Zeros(w) == [k \in Columns(w) |-> 0]
Threads(w) == 0 .. w.threads - 1
Warps(w) == 0 .. w.threads \div Lanes - 1
LanesOf(warp) == {warp * Lanes + lane : lane \in 0 .. Lanes - 1}

-----------------------------------------------------------------------------
(* One sample.                                                              *)

NoMatrices == [F |-> Eye, A |-> << >>]

\* What a sample adds to the row of sums, with the matrices of point m0.
SampleTerms(w, s, J, q) ==
  LET v == s.value
      dof == Len(J)
  IN  IF ~ s.inside THEN [Zeros(w) EXCEPT ![NSums(dof) + 1] = 1]
      ELSE [t \in 1 .. NUpper(dof) |-> J[Triu(dof)[t][1]] * J[Triu(dof)[t][2]]]
             \o J \o [r \in 1 .. dof |-> v * J[r]] \o [r \in 1 .. dof |-> q * J[r]]
             \o << v, v * v, v * q, q, q * q, 1, Abs(v - q), 0 >>
Shifted(s, shift) == [s EXCEPT !.value = @ - shift]

CudaTerms(w, pt, m0, m) ==
  LET M == IF m0 = 0 THEN NoMatrices ELSE WarpMatrices(w.params[m0])
      d == w.offsets[m]
      at == Locate(w.brick, w.centres[pt], Moved(w.params[pt], M.F, d))
      s == CudaInterpolate(Prepare(w.brick), w.method, at.i, at.f)
      A == [k \in 1 .. Dof(w) - 3 |-> IF k \in DOMAIN M.A THEN M.A[k] ELSE Eye]
  IN  SampleTerms(w, Shifted(s, w.shift[pt]), JacobianRow(s.grad, A, d), w.q[pt][m])

\* The numba port, one thread for the whole point.
NumbaSums(w, pt) ==
  LET M == WarpMatrices(w.params[pt])
      at(m) == Locate(w.brick, w.centres[pt], Moved(w.params[pt], M.F, w.offsets[m]))
      s(m) == NumbaInterpolate(w.brick, w.method, at(m).i, at(m).f)
  IN  FoldLeft(Plus, Zeros(w),
               [m \in Samples(w) |-> SampleTerms(w, Shifted(s(m), w.shift[pt]),
                                                 JacobianRow(s(m).grad, M.A, w.offsets[m]), w.q[pt][m])])

\* The array path, which makes the dense arrays of all points and then
\* reduces them.
XpDense(w, pt) ==
  LET p == w.params[pt]
      s(m) == Sample(w.brick, w.method, w.centres[pt], Moved(p, DeformationMatrix(p), w.offsets[m]))
  IN  [m \in Samples(w) |->
        [inside |-> s(m).inside, v |-> s(m).value - w.shift[pt],
         J |-> JacobianRow(s(m).grad, WarpLinearJacobians(p), w.offsets[m])]]
XpSums(w, pt, samples) ==
  LET column(name) == [m \in Samples(w) |-> samples[m][name]]
  IN  [sums |-> AccumulateSums(w.q[pt], column("v"), column("J"), 1),
       outside |-> \E m \in Samples(w) : ~ samples[m].inside]

\* sample_values: thread i takes one sample of one point, and there are as
\* many blocks as the threads fill.
SampleThread(w, i) ==
  LET pt == i \div Len(w.offsets) + 1
      m == (i % Len(w.offsets)) + 1
      at == Locate(w.brick, w.centres[pt],
                   Moved(w.params[pt], WarpMatrices(w.params[pt]).F, w.offsets[m]))
  IN  CudaInterpolateValue(Prepare(w.brick), w.method, at.i, at.f)
SampleValues(w) ==
  LET n == Len(w.centres) * Len(w.offsets)
      grid == (n + w.threads - 1) \div w.threads
  IN  [i \in {i \in 0 .. grid * w.threads - 1 : i < n} |-> SampleThread(w, i)]

NumbaValue(w, pt, m) ==
  LET at == Locate(w.brick, w.centres[pt],
                   Moved(w.params[pt], WarpMatrices(w.params[pt]).F, w.offsets[m]))
  IN  NumbaInterpolate(w.brick, w.method, at.i, at.f)

-----------------------------------------------------------------------------
(* gn_sums.                                                                 *)

At(t, stage) == pc[t] = stage /\ UNCHANGED threadVars
Go(t, stage) == pc' = [pc EXCEPT ![t] = stage]
Point == work.active[block]

\* The columns thread t takes when the threads share them out.
Strided(t, last) == {k \in 1 .. last : (k - 1) % work.threads = t}

\* The array path and the numba port reduce the points, and the kernel is launched.
Launch ==
  /\ others = << >>
  /\ others' = [a \in DOMAIN work.active |->
       [xp |-> XpSums(work, work.active[a], dense[a]), numba |-> NumbaSums(work, work.active[a])]]
  /\ pc' = [t \in Threads(work) |-> "start"]
  /\ UNCHANGED << job, block, mats, acc, red, res, sums, outside, dense, engines >>

LoadMatrices(t) ==
  /\ At(t, "start")
  /\ mats' = IF t = 0 THEN Point ELSE mats
  /\ Go(t, "matrices loaded")
  /\ UNCHANGED << block, acc, red, res, sums, outside >>

\* The samples t, t + threads, ..., with the matrices that are there now.
Accumulate(t) ==
  /\ At(t, "accumulate")
  /\ acc' = [acc EXCEPT ![t] =
       FoldLeft(Plus, Zeros(work),
                [j \in 1 .. (Len(work.offsets) - t + work.threads - 1) \div work.threads |->
                  CudaTerms(work, Point, mats, t + (j - 1) * work.threads + 1)])]
  /\ Go(t, "shuffle")
  /\ UNCHANGED << block, mats, red, res, sums, outside >>

\* One round: every lane adds the value of the lane `off` above it, or its own.
ShuffleDown(v, off) ==
  [l \in DOMAIN v |-> Plus(v[l], IF l + off < Lanes THEN v[l + off] ELSE v[l])]
Rounds == [r \in {r \in 1 .. Lanes : 2^r <= Lanes} |-> Lanes \div 2^r]
WarpSum(warp) ==
  FoldLeft(ShuffleDown, [l \in 0 .. Lanes - 1 |-> acc[warp * Lanes + l]], Rounds)[0]

\* The lanes of a warp go through the rounds together; lane 0 has the sum.
ReduceWarp(warp) ==
  /\ \A t \in LanesOf(warp) : At(t, "shuffle")
  /\ red' = [red EXCEPT ![warp] = WarpSum(warp)]
  /\ pc' = [t \in Threads(work) |-> IF t \in LanesOf(warp) THEN "warps reduced" ELSE pc[t]]
  /\ UNCHANGED << block, mats, acc, res, sums, outside >>

Combine(t) ==
  /\ At(t, "combine")
  /\ res' = [k \in Columns(work) |->
              IF k \in Strided(t, NSums(Dof(work)) + 1) THEN MapThenSumSet(LAMBDA w : red[w][k], Warps(work))
              ELSE res[k]]
  /\ Go(t, "combined")
  /\ UNCHANGED << block, mats, acc, red, sums, outside >>

Store(t) ==
  /\ At(t, "store")
  /\ sums' = [sums EXCEPT ![block] = [k \in 1 .. NSums(Dof(work)) |->
                IF k \in Strided(t, NSums(Dof(work))) THEN res[k] ELSE @[k]]]
  /\ outside' = IF t = 0 THEN [outside EXCEPT ![block] = res[NSums(Dof(work)) + 1]] ELSE outside
  /\ Go(t, "done")
  /\ UNCHANGED << block, mats, acc, red, res >>

\* Mutant: a thread stores before all have combined their columns.
BarrierMissing(stage, next) ==
  /\ \/ \E t \in Threads(work) : At(t, stage) /\ stage = "combined" /\ Go(t, next)
     \/ /\ stage # "combined"
        /\ \A t \in Threads(work) : At(t, stage)
        /\ pc' = [t \in Threads(work) |-> next]
  /\ UNCHANGED << block, mats, acc, red, res, sums, outside >>

\* __syncthreads: nobody passes before everybody has arrived.
Barrier(stage, next) ==
  /\ \A t \in Threads(work) : At(t, stage)
  /\ pc' = [t \in Threads(work) |-> next]
  /\ UNCHANGED << block, mats, acc, red, res, sums, outside >>

BlockDone == \A t \in Threads(work) : pc[t] = "done"
NextBlock ==
  /\ BlockDone /\ block < Len(work.active)
  /\ block' = block + 1
  /\ pc' = [t \in Threads(work) |-> "start"]
  /\ UNCHANGED << mats, acc, red, res, sums, outside >> /\ UNCHANGED threadVars

GnSums ==
  \/ Launch
  \/ \E t \in Threads(work) : LoadMatrices(t) \/ Accumulate(t) \/ Combine(t) \/ Store(t)
  \/ \E warp \in Warps(work) : ReduceWarp(warp)
  \/ Barrier("matrices loaded", "accumulate")
  \/ Barrier("warps reduced", "combine")
  \/ Barrier("combined", "store")
  \/ NextBlock

-----------------------------------------------------------------------------
(* One update of a batch.  An outcome o says what the sums of a point say:  *)
(* whether samples were outside, whether the system is singular, the        *)
(* objective and the step that solves the system.                           *)

Pts == 1 .. NPoints
Good == "GOOD"
RangeFail == "RANGE_FAIL"
Singular == "SINGULAR"
Seeds == [pt \in Pts |-> << 0, 0, 0 >>]

StartBatch ==
  [params |-> Seeds, status |-> [pt \in Pts |-> Good], objmin |-> [pt \in Pts |-> NaN],
   prev |-> [pt \in Pts |-> Infinity], iter |-> [pt \in Pts |-> 0], active |-> Pts]

Near(x, y) == x # NaN /\ y # NaN /\ Abs(x - y) < ObjTol
Short(dp) == dp[1] * dp[1] + dp[2] * dp[2] + dp[3] * dp[3] < DispTol * DispTol
Far(p, pt) == \E a \in Axes : Abs(p[a] - Seeds[pt][a]) > DispMax

\* The thread of point pt: returns early for samples outside and for a
\* singular system.
GnSolve(st, pt, o) ==
  LET p == Plus(st.params[pt], o.step)
  IN  CASE o.outside -> [st EXCEPT !.status[pt] = RangeFail, !.active = @ \ {pt}]
        [] ~ o.outside /\ o.singular ->
             [st EXCEPT !.objmin[pt] = o.obj, !.status[pt] = Singular, !.active = @ \ {pt}]
        [] OTHER ->
             [st EXCEPT !.objmin[pt] = o.obj, !.params[pt] = p, !.iter[pt] = @ + 1, !.prev[pt] = o.obj,
                        !.status[pt] = IF Far(p, pt) THEN RangeFail ELSE @,
                        !.active = IF Near(o.obj, st.prev[pt]) \/ Short(o.step) \/ Far(p, pt)
                                   THEN @ \ {pt} ELSE @]

\* The whole batch with masks.  A singular system gives a zero step, and the
\* stopping tests run for failed points too.
GnUpdate(st, O) ==
  LET left == {pt \in st.active : O[pt].outside}
      singular == {pt \in st.active : O[pt].singular}
      failed == left \union singular
      dp == [pt \in st.active |-> IF pt \in singular THEN << 0, 0, 0 >> ELSE O[pt].step]
      params == [pt \in Pts |-> IF pt \in st.active \ failed THEN Plus(st.params[pt], dp[pt]) ELSE st.params[pt]]
      converged == {pt \in st.active : Near(O[pt].obj, st.prev[pt]) \/ Short(dp[pt])}
      outOfRange == {pt \in st.active : Far(params[pt], pt)} \ failed
  IN  [params |-> params,
       status |-> [pt \in Pts |-> CASE pt \in left \union outOfRange -> RangeFail
                                    [] pt \in singular \ left -> Singular
                                    [] OTHER -> st.status[pt]],
       objmin |-> [pt \in Pts |-> IF pt \in st.active \ left THEN O[pt].obj ELSE st.objmin[pt]],
       prev |-> [pt \in Pts |-> IF pt \in st.active THEN O[pt].obj ELSE st.prev[pt]],
       iter |-> [pt \in Pts |-> IF pt \in st.active \ failed THEN st.iter[pt] + 1 ELSE st.iter[pt]],
       active |-> st.active \ (failed \union converged \union outOfRange)]

\* FusedEngine.update launches gn_solve for the active points.
Iterate ==
  /\ work.what = "update"
  /\ engines.cuda.active # {} /\ engines.iterations < MaxIterations
  /\ \E O \in [engines.cuda.active \union engines.xp.active -> Outcomes] :
       engines' = [cuda |-> FoldLeft(LAMBDA st, pt : GnSolve(st, pt, O[pt]), engines.cuda,
                                     SetToSeq(engines.cuda.active)),
                   xp |-> GnUpdate(engines.xp, O), iterations |-> engines.iterations + 1]
  /\ UNCHANGED << job, block, pc, mats, acc, red, res, sums, outside, dense, others >>

-----------------------------------------------------------------------------
Init ==
  /\ job \in DOMAIN Work
  /\ block = 1
  /\ mats = 0
  /\ dense = IF work.what = "sums"
             THEN [a \in DOMAIN work.active |-> XpDense(work, work.active[a])] ELSE << >>
  /\ others = << >>
  /\ engines = [cuda |-> StartBatch, xp |-> StartBatch, iterations |-> 0]
  /\ LET some == work.what = "sums"
     IN  /\ pc = IF some THEN [t \in Threads(work) |-> "idle"] ELSE << >>
         /\ acc = IF some THEN [t \in Threads(work) |-> Zeros(work)] ELSE << >>
         /\ red = IF some THEN [warp \in Warps(work) |-> Zeros(work)] ELSE << >>
         /\ res = IF some THEN Zeros(work) ELSE << >>
         /\ sums = IF some THEN [a \in DOMAIN work.active |-> [k \in 1 .. NSums(Dof(work)) |-> 0]] ELSE << >>
         /\ outside = IF some THEN [a \in DOMAIN work.active |-> 0] ELSE << >>

Finished ==
  /\ CASE work.what = "sums" -> BlockDone /\ block = Len(work.active)
       [] work.what = "update" -> engines.cuda.active = {} \/ engines.iterations = MaxIterations
       [] OTHER -> TRUE
  /\ UNCHANGED vars

Next == (work.what = "sums" /\ GnSums) \/ Iterate \/ Finished
Spec == Init /\ [][Next]_vars

-----------------------------------------------------------------------------
(* Properties.                                                              *)

\* Whatever the size of the block and the order of its threads, gn_sums
\* stores for each active point the sums the array path and the numba port
\* compute; if any of a point's samples is outside, all three say so instead.
SumsAgree ==
  work.what = "sums" =>
    \A a \in DOMAIN work.active :
      (a < block \/ (a = block /\ BlockDone)) =>
        LET xp == others[a].xp
            numba == others[a].numba
            last == NSums(Dof(work)) + 1
        IN  /\ outside[a] = numba[last]
            /\ (outside[a] > 0) = xp.outside
            /\ ~ xp.outside => sums[a] = xp.sums /\ sums[a] = SubSeq(numba, 1, last - 1)

\* sample_values gives every point and sample the value the array path
\* gives it, and marks the same ones as outside, right up to the edges of the
\* valid region and of the brick; no packed load leaves the allocation or
\* straddles a word; and the tricubic value is CCPi's.
OneInterpolant ==
  work.what = "sample" =>
    LET M == Len(work.offsets)
        values == SampleValues(work)
    IN  /\ DOMAIN values = 0 .. Len(work.centres) * M - 1
        /\ \A pt \in Points(work), m \in Samples(work) :
             LET p == work.params[pt]
                 cuda == values[(pt - 1) * M + m - 1]
                 moved == Moved(p, DeformationMatrix(p), work.offsets[m])
                 xp == Sample(work.brick, work.method, work.centres[pt], moved)
                 at == Locate(work.brick, work.centres[pt], moved)
             IN  /\ cuda.inside = xp.inside
                 /\ NumbaValue(work, pt, m).inside = xp.inside
                 /\ cuda.inside => cuda = xp /\ cuda = NumbaValue(work, pt, m)
                 /\ cuda.inside => cuda = CudaInterpolate(Prepare(work.brick), work.method, at.i, at.f)
                 /\ cuda.inside /\ work.method = "tricubic" =>
                      cuda.value = LekienMarsden(work.brick, at.i, at.f)

\* The matrices of the kernels are those of the array path, and A_k is the
\* derivative of the deformation by parameter k, which for angles in quarter
\* turns and for strains is half a central difference, exactly.
Derivatives ==
  work.what = "warp" =>
    LET p == work.params[1]
        M == WarpMatrices(p)
    IN  /\ M.F = DeformationMatrix(p)
        /\ M.A = WarpLinearJacobians(p)
        /\ \A k \in 4 .. Len(p) :
             MatPlus(M.A[k - 3], M.A[k - 3])
               = [r \in Axes |-> Minus(DeformationMatrix([p EXCEPT ![k] = @ + 1])[r],
                                       DeformationMatrix([p EXCEPT ![k] = @ - 1])[r])]

\* The systems of one criterion for all the samples and sums a run may see:
\* the kernel's and the array path's, from the sums, are the exact ones of the
\* dense arrays, and a target with texture has the same energies in all.
SystemsAgree ==
  work.what = "system" =>
    \A ref \in work.refs, tar \in work.tars :
      LET exact == NormalEquations(ref, tar, work.jac, work.kind)
          terms == ReferenceTerms(ref, work.kind)
          dof == Len(work.jac[1])
          v == [m \in DOMAIN tar |-> tar[m] - terms.shift]
          S == AccumulateSums(terms.q, v, work.jac, D)
          xp == NormalEquationsFromSums(S, terms.shift, work.kind, dof)
          cuda == NormalFromSums(S, terms.shift, work.kind, dof)
          flat == Norm(tar, work.kind) = 0
      IN  /\ xp.H = exact.H /\ cuda.H = exact.H
          /\ xp.b = exact.b /\ cuda.b = exact.b
          /\ cuda.obj = xp.obj
          /\ (work.kind \in Normalised /\ flat) \/ xp.obj = exact.obj
          /\ xp.sumG2 = Inner(tar, tar)
          /\ xp.gradEnergy = MapThenSumSet(LAMBDA k : Inner(Column(work.jac, k), Column(work.jac, k)), Axes)
          /\ CudaEnergies(S, terms.shift, dof) = [gradEnergy |-> xp.gradEnergy, sumG2 |-> xp.sumG2]

\* After any number of iterations of a batch the GPU and the array path
\* have the same points active, with the same displacements, statuses,
\* objectives and numbers of iterations, though the kernel leaves early where
\* the array path masks.
UpdatesAgree ==
  LET seen(st) == [params |-> st.params, status |-> st.status, objmin |-> st.objmin, iter |-> st.iter,
                   active |-> st.active]
  IN  seen(engines.cuda) = seen(engines.xp)

\* The solver's step is the same on every engine.
SolveAgrees == SystemsAgree /\ UpdatesAgree
=============================================================================
