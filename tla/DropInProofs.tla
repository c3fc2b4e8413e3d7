---------------------------- MODULE DropInProofs ----------------------------
(***************************************************************************)
(* Theorems about DropIn and the Solver in it, for any points, images,     *)
(* limits, settings and faults: what a GOOD result means, that points      *)
(* solved together have the results they have alone, which points are      *)
(* processed, where their seeds come from, what a new .disp means and what *)
(* a run that fails leaves.                                                *)
(*                                                                         *)
(* GOOD is decided in three places: before the first step, at every step   *)
(* and after the last.  A point that was never stepped is still active,    *)
(* and one that is active at the end was stepped MaxIterations times: so   *)
(* every GOOD point has passed all three.                                  *)
(*                                                                         *)
(* The shells cut the order of the points into pieces that follow each     *)
(* other (RingsFacts, ShellFacts), so the points with a result are always  *)
(* those of the shells before this one (ProgressInv), and for a point to   *)
(* be solved the points of earlier shells are those of a smaller ring.     *)
(***************************************************************************)
EXTENDS DropIn, OrdersProofs

(***************************************************************************)
(* The solver's invariant.                                                 *)
(***************************************************************************)
Form(st) ==
  st = [status |-> st.status, prev |-> st.prev, n |-> st.n, done |-> st.done, seed |-> st.seed, u |-> st.u]

\* What sampling the reference has shown, what a step has.
Tried(w) == w.refInside /\ ~w.refFlat /\ (Threshold => ~w.thin)
Near(st) == st.u # None => ~(Abs(st.u - st.seed) > DispMax)

\* A point of the chunk that is GOOD so far.
ChunkGood ==
  \A p \in DOMAIN chunk :
    /\ Form(chunk[p]) /\ chunk[p].seed = seeds[p]
    /\ chunk[p].status = "GOOD" =>
         /\ Tried(world[p])
         /\ \/ it = 0 /\ p \in active
            \/ ~world[p].singular /\ Near(chunk[p])

\* What GoodMeans says of a result.
Means(p, r) ==
  /\ r.u # None /\ ~(Abs(r.u - r.seed) > DispMax) /\ Inside(world[p], r.u)
  /\ Tried(world[p]) /\ ~world[p].targetFlat /\ ~world[p].singular

OutGood == \A p \in DOMAIN out : out[p].seed = seeds[p] /\ (out[p].status = "GOOD" => Means(p, out[p]))

Phases ==
  /\ it \in Nat
  /\ pc \notin {"iterate", "finish"} => chunk = <<>>
  /\ pc \in {"shell", "done"} => out = <<>>
  /\ pc = "finish" => active = {} \/ it = MaxIterations

SolverInv == ChunkGood /\ OutGood /\ Phases /\ GoodMeans

(***************************************************************************)
(* The drop-in's invariant: as long as it runs, no .disp is in place, and  *)
(* the .stat only when the .disp is next.                                  *)
(***************************************************************************)
Unfinished ==
  Running =>
    /\ final["disp"] = None /\ (final["stat"] # None => at = "disp")
    /\ caller = "stage" => tmp = NoFiles /\ at # "stat"

RunInv == faults \in Nat /\ DOMAIN final = Files /\ Unfinished /\ FailedKeeps

(***************************************************************************)
(* A point before the first step, at a step and after the last.            *)
(***************************************************************************)
LEMMA BeginFacts ==
  ASSUME NEW w, NEW s
  PROVE  /\ Form(Begin(w, s)) /\ Begin(w, s).seed = s
         /\ Begin(w, s).status = "GOOD" => Tried(w)
BY DEF Begin, Form, Tried

LEMMA UpdateFacts ==
  ASSUME NEW w, NEW st, Form(st)
  PROVE  /\ Form(Update(w, st)) /\ Update(w, st).seed = st.seed
         /\ Update(w, st).status = "GOOD" =>
              st.status = "GOOD" /\ ~w.singular /\ Near(Update(w, st))
<1> DEFINE status == st.status  prev == st.prev  n == st.n  done == st.done  seed == st.seed  u == st.u
<1>1. st = [status |-> status, prev |-> prev, n |-> n, done |-> done, seed |-> seed, u |-> u]
  BY DEF Form
<1>2. CASE ~Inside(w, st.u)
  <2>1. Update(w, st) = [st EXCEPT !.status = "RANGE_FAIL", !.done = TRUE]
    BY <1>2 DEF Update
  <2>2. Update(w, st) = [status |-> "RANGE_FAIL", prev |-> prev, n |-> n, done |-> TRUE, seed |-> seed, u |-> u]
    BY <1>1, <2>1
  <2> QED
    BY <2>2 DEF Form
<1>3. CASE Inside(w, st.u) /\ w.singular
  <2>1. Update(w, st) = [st EXCEPT !.status = "SINGULAR", !.done = TRUE]
    BY <1>3 DEF Update
  <2>2. Update(w, st) = [status |-> "SINGULAR", prev |-> prev, n |-> n, done |-> TRUE, seed |-> seed, u |-> u]
    BY <1>1, <2>1
  <2> QED
    BY <2>2 DEF Form
<1>4. CASE Inside(w, st.u) /\ ~w.singular
  <2> DEFINE obj == Objective(w, st.u)
             du  == Move(w, st.u)
             v   == IF du = None THEN None ELSE st.u + du
             converged == (st.prev # None /\ Abs(obj - st.prev) < ObjTol) \/ du = 0
             away == v # None /\ Abs(v - st.seed) > DispMax
  <2>1. Update(w, st) = [st EXCEPT !.u = v, !.n = @ + 1, !.prev = obj, !.done = converged \/ away,
                                   !.status = IF away THEN "RANGE_FAIL" ELSE @]
    BY <1>4 DEF Update
  <2>2. PICK o, d, m : Update(w, st) = [st EXCEPT !.u = v, !.n = m, !.prev = o, !.done = d,
                                                  !.status = IF away THEN "RANGE_FAIL" ELSE @]
    BY <2>1
  <2> HIDE DEF v
  <2>3. Update(w, st) = [status |-> IF away THEN "RANGE_FAIL" ELSE status, prev |-> o, n |-> m, done |-> d,
                         seed |-> seed, u |-> v]
    BY <1>1, <2>2
  <2> QED
    BY <1>4, <2>3 DEF Form, Near
<1> QED
  BY <1>2, <1>3, <1>4

LEMMA ConcludeFacts ==
  ASSUME NEW w, NEW st, NEW b, Form(st)
  PROVE  /\ Conclude(w, st, b).seed = st.seed
         /\ Conclude(w, st, b).status = "GOOD" =>
              /\ st.status = "GOOD" /\ Conclude(w, st, b).u = st.u
              /\ st.u # None /\ Inside(w, st.u) /\ ~w.targetFlat
<1> DEFINE kept == IF b THEN "CONVG_FAIL" ELSE st.status
           last == IF kept \notin {"GOOD", "CONVG_FAIL"} THEN kept
                   ELSE IF st.u = None THEN "SINGULAR"
                   ELSE IF ~Inside(w, st.u) THEN "RANGE_FAIL"
                   ELSE IF w.targetFlat THEN "SINGULAR" ELSE kept
<1>1. Conclude(w, st, b) = [st EXCEPT !.status = last]
  BY DEF Conclude
<1>2. last = "GOOD" => st.status = "GOOD" /\ st.u # None /\ Inside(w, st.u) /\ ~w.targetFlat
  OBVIOUS
<1> HIDE DEF last
<1>3. Conclude(w, st, b) = [status |-> last, prev |-> st.prev, n |-> st.n, done |-> st.done, seed |-> st.seed, u |-> st.u]
  BY <1>1 DEF Form
<1> QED
  BY <1>2, <1>3

(***************************************************************************)
(* Every step of the solver keeps its invariant.                           *)
(***************************************************************************)
LEMMA StartShellInv == SolverInv /\ StartShell => SolverInv'
<1> SUFFICES ASSUME SolverInv, StartShell
             PROVE  SolverInv'
  OBVIOUS
<1>1. /\ pc = "shell" /\ UNCHANGED <<world, result, chunk, active, it>>
      /\ out' = <<>> \/ UNCHANGED out
      /\ pc' = "chunk" \/ UNCHANGED pc
  BY DEF StartShell, solveInputs
<1>2. chunk = <<>> /\ out = <<>>
  BY <1>1 DEF SolverInv, Phases
<1>3. ChunkGood' /\ OutGood'
  BY <1>1, <1>2 DEF ChunkGood, OutGood
<1>4. Phases'
  BY <1>1, <1>2 DEF SolverInv, Phases
<1>5. GoodMeans'
  BY <1>1 DEF SolverInv, GoodMeans, Inside
<1> QED
  BY <1>3, <1>4, <1>5 DEF SolverInv

LEMMA StartChunkInv == SolverInv /\ StartChunk => SolverInv'
<1> SUFFICES ASSUME SolverInv, StartChunk
             PROVE  SolverInv'
  OBVIOUS
<1> DEFINE S == ToSet(NextChunk)
<1>1. /\ pc = "chunk" /\ it' = 0 /\ pc' = "iterate" /\ UNCHANGED <<world, result, seeds, out>>
      /\ chunk' = [p \in S |-> Begin(world[p], seeds[p])]
      /\ active' = {p \in S : chunk'[p].status = "GOOD"}
  BY DEF StartChunk, solveInputs
<1>2. ChunkGood'
  <2> SUFFICES ASSUME NEW p \in S
               PROVE  /\ Form(chunk'[p]) /\ chunk'[p].seed = seeds[p]
                      /\ chunk'[p].status = "GOOD" => Tried(world[p]) /\ p \in active'
    BY <1>1 DEF ChunkGood, Tried, Form
  <2>1. chunk'[p] = Begin(world[p], seeds[p])
    BY <1>1
  <2> QED
    BY <1>1, <2>1, BeginFacts
<1>3. OutGood'
  BY <1>1 DEF SolverInv, OutGood, Means, Tried, Inside
<1>4. Phases'
  BY <1>1 DEF SolverInv, Phases
<1>5. GoodMeans'
  BY <1>1 DEF SolverInv, GoodMeans, Inside
<1> QED
  BY <1>2, <1>3, <1>4, <1>5 DEF SolverInv

LEMMA IterateInv == SolverInv /\ Iterate => SolverInv'
<1> SUFFICES ASSUME SolverInv, Iterate
             PROVE  SolverInv'
  OBVIOUS
<1>1. pc = "iterate" /\ UNCHANGED <<world, result, seeds, out>>
  BY DEF Iterate, solveInputs
<1>2. OutGood' /\ GoodMeans'
  BY <1>1 DEF SolverInv, OutGood, GoodMeans, Means, Tried, Inside
<1>3. CASE /\ chunk' = [p \in DOMAIN chunk |-> IF p \in active THEN Update(world[p], chunk[p]) ELSE chunk[p]]
           /\ it' = it + 1 /\ UNCHANGED pc
  <2>1. ChunkGood'
    <3> SUFFICES ASSUME NEW p \in DOMAIN chunk
                 PROVE  /\ Form(chunk'[p]) /\ chunk'[p].seed = seeds[p]
                        /\ chunk'[p].status = "GOOD" =>
                             Tried(world[p]) /\ ~world[p].singular /\ Near(chunk'[p])
      BY <1>1, <1>3 DEF ChunkGood, Tried, Form, Near
    <3>1. /\ Form(chunk[p]) /\ chunk[p].seed = seeds[p]
          /\ chunk[p].status = "GOOD" =>
               Tried(world[p]) /\ (p \in active \/ (~world[p].singular /\ Near(chunk[p])))
      BY DEF SolverInv, ChunkGood
    <3>2. CASE p \in active
      BY <1>3, <3>1, <3>2, UpdateFacts
    <3>3. CASE p \notin active
      BY <1>3, <3>1, <3>3
    <3> QED
      BY <3>2, <3>3
  <2>2. Phases'
    BY <1>1, <1>3 DEF SolverInv, Phases
  <2> QED
    BY <1>2, <2>1, <2>2 DEF SolverInv
<1>4. CASE (active = {} \/ it = MaxIterations) /\ pc' = "finish" /\ UNCHANGED <<chunk, active, it>>
  <2>1. ChunkGood'
    BY <1>1, <1>4 DEF SolverInv, ChunkGood, Tried, Form, Near
  <2>2. Phases'
    BY <1>1, <1>4 DEF SolverInv, Phases
  <2> QED
    BY <1>2, <2>1, <2>2 DEF SolverInv
<1> QED
  BY <1>3, <1>4 DEF Iterate

LEMMA FinishChunkInv == SolverInv /\ FinishChunk => SolverInv'
<1> SUFFICES ASSUME SolverInv, FinishChunk
             PROVE  SolverInv'
  OBVIOUS
<1>1. /\ pc = "finish" /\ chunk' = <<>> /\ active' = {} /\ pc' \in {"chunk", "solved"}
      /\ UNCHANGED <<world, result, seeds, it>>
      /\ out' = [p \in DOMAIN out \union DOMAIN chunk |->
                   IF p \in DOMAIN chunk THEN Conclude(world[p], chunk[p], p \in active /\ reportConvgFail) ELSE out[p]]
  BY DEF FinishChunk, solveInputs
<1>2. active = {} \/ it # 0
  BY <1>1, SolverAssumption DEF SolverInv, Phases
<1>3. OutGood'
  <2> SUFFICES ASSUME NEW p \in DOMAIN out \union DOMAIN chunk
               PROVE  out'[p].seed = seeds[p] /\ (out'[p].status = "GOOD" => Means(p, out'[p]))
    BY <1>1 DEF OutGood, Means, Tried, Inside
  <2>1. CASE p \in DOMAIN chunk
    <3>1. /\ Form(chunk[p]) /\ chunk[p].seed = seeds[p]
          /\ chunk[p].status = "GOOD" => Tried(world[p]) /\ ~world[p].singular /\ Near(chunk[p])
      BY <1>2, <2>1 DEF SolverInv, ChunkGood
    <3>2. out'[p] = Conclude(world[p], chunk[p], p \in active /\ reportConvgFail)
      BY <1>1, <2>1
    <3> QED
      BY <3>1, <3>2, ConcludeFacts DEF Means, Near
  <2>2. CASE p \notin DOMAIN chunk
    <3>1. out'[p] = out[p] /\ p \in DOMAIN out
      BY <1>1, <2>2
    <3> QED
      BY <3>1 DEF SolverInv, OutGood
  <2> QED
    BY <2>1, <2>2
<1>4. ChunkGood'
  BY <1>1 DEF ChunkGood
<1>5. Phases'
  BY <1>1 DEF SolverInv, Phases
<1>6. GoodMeans'
  BY <1>1 DEF SolverInv, GoodMeans, Inside
<1> QED
  BY <1>3, <1>4, <1>5, <1>6 DEF SolverInv

LEMMA KeepBatchInv == SolverInv /\ KeepBatch => SolverInv'
<1> SUFFICES ASSUME SolverInv, KeepBatch
             PROVE  SolverInv'
  OBVIOUS
<1>1. /\ pc = "solved" /\ pc' = "shell" /\ out' = <<>> /\ UNCHANGED <<world, chunk, active, it>>
      /\ result' = [p \in Points |->
           IF p \in DOMAIN out THEN [status |-> out[p].status, u |-> out[p].u, seed |-> seeds[p], n |-> out[p].n]
           ELSE result[p]]
  BY DEF KeepBatch, solveInputs
<1>2. chunk = <<>>
  BY <1>1 DEF SolverInv, Phases
<1>3. ChunkGood' /\ OutGood'
  BY <1>1, <1>2 DEF ChunkGood, OutGood
<1>4. Phases'
  BY <1>1, <1>2 DEF SolverInv, Phases
<1>5. GoodMeans'
  <2> SUFFICES ASSUME NEW p \in Points, result'[p].status = "GOOD"
               PROVE  Means(p, result'[p])
    BY <1>1 DEF GoodMeans, Means, Tried, Inside
  <2>1. CASE p \in DOMAIN out
    <3>1. result'[p].status = out[p].status /\ result'[p].u = out[p].u /\ result'[p].seed = out[p].seed
      BY <1>1, <2>1 DEF SolverInv, OutGood
    <3> QED
      BY <2>1, <3>1 DEF SolverInv, OutGood, Means
  <2>2. CASE p \notin DOMAIN out
    <3>1. result'[p] = result[p]
      BY <1>1, <2>2
    <3> QED
      BY <3>1 DEF SolverInv, GoodMeans, Means, Tried
  <2> QED
    BY <2>1, <2>2
<1> QED
  BY <1>3, <1>4, <1>5 DEF SolverInv

LEMMA SolveEndsInv == SolverInv /\ SolveEnds => SolverInv'
<1> SUFFICES ASSUME SolverInv, SolveEnds
             PROVE  SolverInv'
  OBVIOUS
<1>1. pc = "shell" /\ pc' = "done" /\ UNCHANGED <<world, result, seeds, out, chunk, active, it>>
  BY DEF SolveEnds, solveInputs, batch
<1> QED
  BY <1>1 DEF SolverInv, ChunkGood, OutGood, Phases, GoodMeans, Means, Tried, Near, Form, Inside

LEMMA SolverStutter == SolverInv /\ UNCHANGED solverVars => SolverInv'
<1> SUFFICES ASSUME SolverInv, UNCHANGED solverVars
             PROVE  SolverInv'
  OBVIOUS
<1>1. UNCHANGED <<world, result, seeds, out, chunk, active, it, pc>>
  BY DEF solverVars, solveInputs, batch
<1> QED
  BY <1>1 DEF SolverInv, ChunkGood, OutGood, Phases, GoodMeans, Means, Tried, Near, Form, Inside

(***************************************************************************)
(* The theorems about the solver: whatever the drop-in or a stage does     *)
(* around it, the solver takes its own steps or none.                      *)
(***************************************************************************)
LEMMA SolverInitInv == Init => SolverInv
<1> SUFFICES ASSUME Init
             PROVE  SolverInv
  OBVIOUS
<1>1. /\ chunk = <<>> /\ out = <<>> /\ active = {} /\ it = 0 /\ pc = "shell"
      /\ result = [p \in Points |-> Blank]
  BY DEF Init, SolverInit
<1>2. ChunkGood /\ OutGood
  BY <1>1 DEF ChunkGood, OutGood
<1>3. Phases
  BY <1>1 DEF Phases
<1>4. \A p \in Points : result[p].status # "GOOD"
  BY <1>1 DEF Blank, NotSearched
<1>5. GoodMeans
  BY <1>4 DEF GoodMeans
<1> QED
  BY <1>2, <1>3, <1>5 DEF SolverInv

LEMMA SolverSteps == [Next]_vars => SolverNext \/ UNCHANGED solverVars
BY DEF Next, Proceed, Prepare, Header, Upload, Solve, Solved, PrintLine, Reported, WriteOutputs, ReplaceStat,
       ReplaceDisp, ReaderLeaves, Kill, SolverNext, vars

LEMMA NextSolverInv == SolverInv /\ [Next]_vars => SolverInv'
<1> SUFFICES ASSUME SolverInv, SolverNext \/ UNCHANGED solverVars
             PROVE  SolverInv'
  BY SolverSteps
<1> QED
  BY StartShellInv, StartChunkInv, IterateInv, FinishChunkInv, KeepBatchInv, SolveEndsInv, SolverStutter DEF SolverNext

\* GoodMeans: a point is GOOD only if the reference could be sampled there, its
\* normal equations were solved, it stayed within disp_max of its seed and its
\* last position is inside the target and textured.
THEOREM GoodMeansCorrect == Spec => []GoodMeans
<1>1. SolverInv => GoodMeans
  BY DEF SolverInv
<1> QED
  BY <1>1, SolverInitInv, NextSolverInv, PTL DEF Spec

(***************************************************************************)
(* A point solved alone.  States is a recursive function: that it exists,  *)
(* and so satisfies its equation, is proved by induction on its length.    *)
(***************************************************************************)
\* f is the states of a point, as far as n.
StateChain(f, w, s, n) ==
  \A i \in 0 .. n : f[i] = IF i = 0 THEN Begin(w, s) ELSE IF f[i - 1].done THEN f[i - 1] ELSE Update(w, f[i - 1])

LEMMA StatesChain ==
  ASSUME NEW w, NEW s
  PROVE  StateChain(States(w, s), w, s, MaxIterations)
<1> DEFINE Chains == {n \in Nat : \E f : f = [i \in 0 .. n |-> f[i]] /\ StateChain(f, w, s, n)}
<1>1. 0 \in Chains
  <2> DEFINE f == [i \in 0 .. 0 |-> Begin(w, s)]
  <2>1. StateChain(f, w, s, 0)
    BY DEF StateChain
  <2>2. f = [i \in 0 .. 0 |-> f[i]]
    OBVIOUS
  <2> QED
    BY <2>1, <2>2
<1>2. ASSUME NEW n \in Chains
      PROVE  n + 1 \in Chains
  <2>1. PICK f : StateChain(f, w, s, n)
    OBVIOUS
  <2> DEFINE next == IF f[n].done THEN f[n] ELSE Update(w, f[n])
             g == [i \in 0 .. n + 1 |-> IF i = n + 1 THEN next ELSE f[i]]
  <2>2. n \in Nat
    OBVIOUS
  <2> HIDE DEF Chains
  <2>3. StateChain(g, w, s, n + 1)
    <3> SUFFICES ASSUME NEW i \in 0 .. n + 1
                 PROVE  g[i] = IF i = 0 THEN Begin(w, s) ELSE IF g[i - 1].done THEN g[i - 1] ELSE Update(w, g[i - 1])
      BY DEF StateChain
    <3>1. CASE i = n + 1
      <4>1. i - 1 = n /\ g[i - 1] = f[n] /\ g[i] = next /\ i # 0
        BY <2>2, <3>1
      <4> HIDE DEF g
      <4> QED
        BY <4>1
    <3>2. CASE i # n + 1
      <4>1. g[i] = f[i] /\ (i # 0 => g[i - 1] = f[i - 1]) /\ i \in 0 .. n
        BY <2>2, <3>2
      <4> HIDE DEF g
      <4> QED
        BY <2>1, <4>1 DEF StateChain
    <3> QED
      BY <3>1, <3>2
  <2>4. g = [i \in 0 .. n + 1 |-> g[i]]
    OBVIOUS
  <2> HIDE DEF g
  <2> QED
    BY <2>2, <2>3, <2>4 DEF Chains
<1>3. Chains = Nat
  <2>1. Chains \subseteq Nat
    OBVIOUS
  <2> HIDE DEF Chains
  <2> QED
    BY <1>1, <1>2, <2>1, Ind
<1>4. PICK f : f = [i \in 0 .. MaxIterations |-> f[i]] /\ StateChain(f, w, s, MaxIterations)
  BY <1>3, SolverAssumption
<1> DEFINE step(g, i) == IF i = 0 THEN Begin(w, s) ELSE IF g[i - 1].done THEN g[i - 1] ELSE Update(w, g[i - 1])
<1>5. f = [i \in 0 .. MaxIterations |-> step(f, i)]
  <2>1. \A i \in 0 .. MaxIterations : f[i] = step(f, i)
    BY <1>4 DEF StateChain
  <2> HIDE DEF step
  <2> QED
    BY <1>4, <2>1
<1>6. States(w, s) = CHOOSE g : g = [i \in 0 .. MaxIterations |-> step(g, i)]
  BY DEF States
<1>7. States(w, s) = [i \in 0 .. MaxIterations |-> step(States(w, s), i)]
  <2> HIDE DEF step
  <2> QED
    BY <1>5, <1>6
<1>8. \A i \in 0 .. MaxIterations : States(w, s)[i] = step(States(w, s), i)
  <2> HIDE DEF step
  <2> QED
    BY <1>7
<1> QED
  BY <1>8 DEF StateChain

\* A point that is done is not stepped again.
LEMMA StatesStay ==
  ASSUME NEW w, NEW s, NEW i \in 0 .. MaxIterations, States(w, s)[i].done
  PROVE  States(w, s)[MaxIterations] = States(w, s)[i]
<1> DEFINE N == MaxIterations - i
           Same == {j \in Nat : j <= N => States(w, s)[i + j] = States(w, s)[i]}
<1>1. N \in Nat /\ MaxIterations \in Nat
  BY SolverAssumption
<1>2. 0 \in Same
  OBVIOUS
<1>3. ASSUME NEW j \in Same, j <= N - 1
      PROVE  States(w, s)[i + (j + 1)] = States(w, s)[i]
  <2>1. i + (j + 1) \in 0 .. MaxIterations /\ i + (j + 1) # 0 /\ (i + (j + 1)) - 1 = i + j /\ j <= N
    BY <1>1, <1>3
  <2>2. States(w, s)[i + j] = States(w, s)[i]
    BY <2>1
  <2>3. States(w, s)[i + (j + 1)] =
          IF States(w, s)[i + j].done THEN States(w, s)[i + j] ELSE Update(w, States(w, s)[i + j])
    BY <2>1, StatesChain DEF StateChain
  <2> QED
    BY <2>2, <2>3
<1>4. N \in Same
  <2>1. \A j \in Same : j + 1 \in Same
    BY <1>1, <1>3
  <2>2. Same \subseteq Nat
    OBVIOUS
  <2> HIDE DEF Same, N
  <2> QED
    BY <1>1, <1>2, <2>1, <2>2, Ind
<1>5. i + N = MaxIterations
  BY <1>1
<1> QED
  BY <1>1, <1>4, <1>5

\* The points of the chunk are as far as they would be alone, and the active ones those not done.
ChunkAlone ==
  pc \in {"iterate", "finish"} =>
    \A p \in DOMAIN chunk : chunk[p] = States(world[p], seeds[p])[it] /\ (p \in active <=> ~chunk[p].done)

SameResult(r, a) == r.status = a.status /\ r.u = a.u /\ r.n = a.n

OutAlone == \A p \in DOMAIN out : SameResult(out[p], Alone(world[p], seeds[p], reportConvgFail))

AloneInv == it \in 0 .. MaxIterations /\ ChunkAlone /\ OutAlone /\ AsAlone

LEMMA AloneSteps == SolverInv /\ AloneInv /\ SolverNext => AloneInv'
<1> SUFFICES ASSUME SolverInv, AloneInv, SolverNext
             PROVE  AloneInv'
  OBVIOUS
<1> USE DEF solveInputs
<1>0. /\ it \in 0 .. MaxIterations /\ MaxIterations \in Nat /\ MaxIterations >= 1
      /\ UNCHANGED <<world, reportConvgFail>>
  BY SolverAssumption DEF AloneInv, SolverNext, StartShell, StartChunk, Iterate, FinishChunk, KeepBatch, SolveEnds
<1>1. CASE StartShell
  <2>1. /\ pc = "shell" /\ UNCHANGED <<world, reportConvgFail, result, it>> /\ pc' \in {"shell", "chunk"}
        /\ out' = <<>> \/ UNCHANGED out
    BY <1>1 DEF StartShell
  <2>2. out' = <<>>
    BY <2>1 DEF SolverInv, Phases
  <2>3. ChunkAlone' /\ OutAlone' /\ AsAlone'
    BY <2>1, <2>2 DEF AloneInv, ChunkAlone, OutAlone, AsAlone
  <2> QED
    BY <1>0, <2>1, <2>3 DEF AloneInv
<1>2. CASE StartChunk
  <2> DEFINE S == ToSet(NextChunk)
  <2>1. /\ it' = 0 /\ pc' = "iterate" /\ UNCHANGED <<world, reportConvgFail, result, seeds, out>>
        /\ chunk' = [p \in S |-> Begin(world[p], seeds[p])]
        /\ active' = {p \in S : chunk'[p].status = "GOOD"}
    BY <1>2 DEF StartChunk
  <2>2. ASSUME NEW p \in S
        PROVE  chunk'[p] = States(world[p], seeds[p])[0] /\ (p \in active' <=> ~chunk'[p].done)
    <3>1. chunk'[p] = Begin(world[p], seeds[p])
      BY <2>1
    <3>2. Begin(world[p], seeds[p]).done <=> Begin(world[p], seeds[p]).status # "GOOD"
      BY DEF Begin
    <3>3. States(world[p], seeds[p])[0] = Begin(world[p], seeds[p])
      BY <1>0, StatesChain DEF StateChain
    <3> QED
      BY <2>1, <3>1, <3>2, <3>3
  <2>3. ChunkAlone'
    BY <2>1, <2>2 DEF ChunkAlone
  <2>4. OutAlone' /\ AsAlone'
    BY <2>1 DEF AloneInv, OutAlone, AsAlone
  <2> QED
    BY <1>0, <2>1, <2>3, <2>4 DEF AloneInv
<1>3. CASE Iterate
  <2>1. pc = "iterate" /\ UNCHANGED <<world, reportConvgFail, result, seeds, out>>
    BY <1>3 DEF Iterate
  <2>2. OutAlone' /\ AsAlone'
    BY <2>1 DEF AloneInv, OutAlone, AsAlone
  <2>3. CASE /\ it < MaxIterations /\ it' = it + 1
             /\ chunk' = [p \in DOMAIN chunk |-> IF p \in active THEN Update(world[p], chunk[p]) ELSE chunk[p]]
             /\ active' = {p \in active : ~chunk'[p].done}
    <3>1. ASSUME NEW p \in DOMAIN chunk
          PROVE  chunk'[p] = States(world[p], seeds[p])[it + 1] /\ (p \in active' <=> ~chunk'[p].done)
      <4>1. chunk[p] = States(world[p], seeds[p])[it] /\ (p \in active <=> ~chunk[p].done)
        BY <2>1 DEF AloneInv, ChunkAlone
      <4>2. it + 1 \in 0 .. MaxIterations /\ it + 1 # 0 /\ (it + 1) - 1 = it
        BY <1>0, <2>3
      <4>3. States(world[p], seeds[p])[it + 1] =
              IF States(world[p], seeds[p])[it].done THEN States(world[p], seeds[p])[it]
              ELSE Update(world[p], States(world[p], seeds[p])[it])
        BY <4>2, StatesChain DEF StateChain
      <4>4. chunk'[p] = IF p \in active THEN Update(world[p], chunk[p]) ELSE chunk[p]
        BY <2>3
      <4> QED
        BY <2>3, <4>1, <4>3, <4>4
    <3>2. ChunkAlone' /\ it' \in 0 .. MaxIterations
      BY <1>0, <2>1, <2>3, <3>1 DEF ChunkAlone
    <3> QED
      BY <2>2, <3>2 DEF AloneInv
  <2>4. CASE UNCHANGED <<chunk, active, it>>
    <3>1. ChunkAlone'
      BY <2>1, <2>4 DEF AloneInv, ChunkAlone
    <3> QED
      BY <1>0, <2>2, <2>4, <3>1 DEF AloneInv
  <2> QED
    BY <1>3, <2>3, <2>4 DEF Iterate
<1>4. CASE FinishChunk
  <2>1. /\ pc = "finish" /\ pc' \in {"chunk", "solved"} /\ UNCHANGED <<world, reportConvgFail, result, seeds, it>>
        /\ out' = [p \in DOMAIN out \union DOMAIN chunk |->
             IF p \in DOMAIN chunk THEN Conclude(world[p], chunk[p], p \in active /\ reportConvgFail) ELSE out[p]]
    BY <1>4 DEF FinishChunk
  <2>2. ASSUME NEW p \in DOMAIN chunk
        PROVE  SameResult(Conclude(world[p], chunk[p], p \in active /\ reportConvgFail),
                          Alone(world[p], seeds[p], reportConvgFail))
    <3> DEFINE last == States(world[p], seeds[p])[MaxIterations]
    <3>1. chunk[p] = States(world[p], seeds[p])[it] /\ (p \in active <=> ~chunk[p].done)
      BY <2>1 DEF AloneInv, ChunkAlone
    <3>2. active = {} \/ it = MaxIterations
      BY <2>1 DEF SolverInv, Phases
    <3>3. chunk[p] = last
      BY <1>0, <3>1, <3>2, StatesStay
    <3>4. (p \in active /\ reportConvgFail) = (~last.done /\ reportConvgFail)
      BY <3>1, <3>3
    <3> HIDE DEF last
    <3>5. Conclude(world[p], chunk[p], p \in active /\ reportConvgFail) = Conclude(world[p], last, ~last.done /\ reportConvgFail)
      BY <3>3, <3>4
    <3> QED
      BY <3>5 DEF SameResult, Alone, last
  <2>3. OutAlone'
    <3> SUFFICES ASSUME NEW p \in DOMAIN out \union DOMAIN chunk
                 PROVE  SameResult(out'[p], Alone(world[p], seeds[p], reportConvgFail))
      BY <2>1 DEF OutAlone
    <3>1. CASE p \in DOMAIN chunk
      BY <2>1, <2>2, <3>1
    <3>2. CASE p \notin DOMAIN chunk
      BY <2>1, <3>2 DEF AloneInv, OutAlone
    <3> QED
      BY <3>1, <3>2
  <2>4. ChunkAlone' /\ AsAlone'
    BY <2>1 DEF AloneInv, ChunkAlone, AsAlone
  <2> QED
    BY <1>0, <2>1, <2>3, <2>4 DEF AloneInv
<1>5. CASE KeepBatch
  <2>1. /\ pc' = "shell" /\ out' = <<>> /\ UNCHANGED <<world, reportConvgFail, it>>
        /\ result' = [p \in Points |->
             IF p \in DOMAIN out THEN [status |-> out[p].status, u |-> out[p].u, seed |-> seeds[p], n |-> out[p].n]
             ELSE result[p]]
    BY <1>5 DEF KeepBatch
  <2>2. AsAlone'
    <3> SUFFICES ASSUME NEW p \in Points, result'[p].status # NotSearched
                 PROVE  result'[p] = Alone(world[p], result'[p].seed, reportConvgFail)
      BY <2>1 DEF AsAlone
    <3>1. CASE p \in DOMAIN out
      <4>1. SameResult(out[p], Alone(world[p], seeds[p], reportConvgFail))
        BY <3>1 DEF AloneInv, OutAlone
      <4>2. result'[p] = [status |-> out[p].status, u |-> out[p].u, seed |-> seeds[p], n |-> out[p].n]
        BY <2>1, <3>1
      <4>3. result'[p].seed = seeds[p]
        BY <4>2
      <4> QED
        BY <4>1, <4>2, <4>3 DEF SameResult, Alone
    <3>2. CASE p \notin DOMAIN out
      <4>1. result'[p] = result[p]
        BY <2>1, <3>2
      <4> QED
        BY <4>1 DEF AloneInv, AsAlone
    <3> QED
      BY <3>1, <3>2
  <2>3. ChunkAlone' /\ OutAlone'
    BY <2>1 DEF ChunkAlone, OutAlone
  <2> QED
    BY <1>0, <2>1, <2>2, <2>3 DEF AloneInv
<1>6. CASE SolveEnds
  <2>1. pc' = "done" /\ UNCHANGED <<world, reportConvgFail, result, seeds, out, chunk, active, it>>
    BY <1>6 DEF SolveEnds, batch
  <2> QED
    BY <1>0, <2>1 DEF AloneInv, ChunkAlone, OutAlone, AsAlone
<1> QED
  BY <1>1, <1>2, <1>3, <1>4, <1>5, <1>6 DEF SolverNext

LEMMA NextAloneInv == SolverInv /\ AloneInv /\ [Next]_vars => AloneInv'
<1> SUFFICES ASSUME SolverInv, AloneInv, SolverNext \/ UNCHANGED solverVars
             PROVE  AloneInv'
  BY SolverSteps
<1>1. CASE UNCHANGED solverVars
  <2>1. UNCHANGED <<world, reportConvgFail, result, seeds, out, chunk, active, it, pc>>
    BY <1>1 DEF solverVars, solveInputs, batch
  <2> QED
    BY <2>1 DEF AloneInv, ChunkAlone, OutAlone, AsAlone
<1> QED
  BY <1>1, AloneSteps

LEMMA InitAloneInv == Init => AloneInv
<1> SUFFICES ASSUME Init
             PROVE  AloneInv
  OBVIOUS
<1>1. /\ out = <<>> /\ it = 0 /\ pc = "shell" /\ result = [p \in Points |-> Blank]
  BY DEF Init, SolverInit
<1>2. 0 \in 0 .. MaxIterations
  BY SolverAssumption
<1>3. AsAlone
  BY <1>1 DEF AsAlone, Blank
<1> QED
  BY <1>1, <1>2, <1>3 DEF AloneInv, ChunkAlone, OutAlone

\* AsAlone: masks, chunks, shells and batches change nothing.  A point that is
\* solved has the result it has when it is solved alone from its seed, so what
\* it gets depends on its own images and its seed only.
THEOREM AsAloneCorrect == Spec => []AsAlone
<1>1. AloneInv => AsAlone
  BY DEF AloneInv
<1>2. SolverInv /\ AloneInv /\ [Next]_vars => (SolverInv /\ AloneInv)'
  BY NextSolverInv, NextAloneInv
<1> QED
  BY <1>1, <1>2, SolverInitInv, InitAloneInv, PTL DEF Spec

(***************************************************************************)
(* The drop-in.                                                            *)
(***************************************************************************)
LEMMA RunInitInv == Init => RunInv
BY ExitAssumption DEF Init, RunInv, Unfinished, FailedKeeps, Running, Files, NoFiles

\* A run that fails leaves both outputs, or the .stat when the .disp is next.
LEMMA FailInv ==
  ASSUME RunInv, Running, NEW where, NEW left, Fail(where, left), UNCHANGED <<final, caller>>,
         left = NoFiles \/ where = "second", final["stat"] # None => where = "disp",
         faults' = faults \/ Fault, where \in {"input", "header"} \/ Fault
  PROVE  RunInv'
<1>1. faults' \in Nat /\ (Fault => faults' > 0)
  BY DEF RunInv, Fault
<1> QED
  BY <1>1, ExitAssumption DEF RunInv, Unfinished, FailedKeeps, Fail, Running

\* A step after which the run goes on, and that replaces no output.
LEMMA GoesOnInv ==
  ASSUME RunInv, Running, UNCHANGED <<exit, failedAt, final, caller>>, faults' = faults \/ Fault,
         final["stat"] # None => at' = "disp",
         caller = "stage" => tmp' = tmp /\ at' # "stat"
  PROVE  RunInv'
<1>1. faults' \in Nat
  BY DEF RunInv, Fault
<1> QED
  BY <1>1, ExitAssumption DEF RunInv, Unfinished, FailedKeeps, Running

LEMMA NextRunInv == RunInv /\ [Next]_vars => RunInv'
<1> SUFFICES ASSUME RunInv, [Next]_vars
             PROVE  RunInv'
  OBVIOUS
<1>1. Running => final["disp"] = None /\ (final["stat"] # None => at = "disp")
  BY DEF RunInv, Unfinished
<1>2. CASE Prepare
  <2>1. Running /\ caller = "dropin" /\ at = "prepare" /\ UNCHANGED <<final, caller>>
    BY <1>2 DEF Prepare
  <2>2. CASE Fail("input", NoFiles) /\ UNCHANGED faults
    BY <1>1, <2>1, <2>2, FailInv
  <2>3. CASE at' = "header" /\ UNCHANGED <<faults, failedAt, exit>>
    BY <1>1, <2>1, <2>3, GoesOnInv
  <2>4. CASE Fault /\ Fail("first", NoFiles)
    BY <1>1, <2>1, <2>4, FailInv
  <2>5. CASE Fault /\ Fail("second", [NoFiles EXCEPT !["disp"] = "begun"])
    BY <1>1, <2>1, <2>5, FailInv
  <2> QED
    BY <1>2, <2>2, <2>3, <2>4, <2>5 DEF Prepare
<1>3. CASE Header
  <2>1. Running /\ at = "header" /\ UNCHANGED <<final, caller>>
    BY <1>3 DEF Header
  <2>2. CASE at' = "upload" /\ UNCHANGED <<faults, failedAt, exit, tmp>>
    BY <1>1, <2>1, <2>2, GoesOnInv
  <2>3. CASE Fail("header", NoFiles) /\ (UNCHANGED faults \/ Fault)
    BY <1>1, <2>1, <2>3, FailInv
  <2> QED
    BY <1>3, <2>2, <2>3 DEF Header
<1>4. CASE Upload
  <2>1. Running /\ at \in {"upload", "prepare"} /\ UNCHANGED <<final, caller>>
    BY <1>4 DEF Upload
  <2>2. CASE at' \in {"solve", "upload"} /\ UNCHANGED <<failedAt, exit, tmp>> /\ (UNCHANGED faults \/ Fault)
    BY <1>1, <2>1, <2>2, GoesOnInv
  <2>3. CASE Fault /\ Fail("memory", NoFiles)
    BY <1>1, <2>1, <2>3, FailInv
  <2> QED
    BY <1>4, <2>2, <2>3 DEF Upload
<1>5. CASE Solve
  <2>1. /\ Running /\ at = "solve" /\ at' \in {"solve", "write"}
        /\ UNCHANGED <<caller, tmp, final, faults, failedAt>>
        /\ exit' = exit \/ (exit' = "ok" /\ caller = "stage")
    BY <1>5 DEF Solve
  <2>2. CASE exit' = exit
    BY <1>1, <2>1, <2>2, GoesOnInv
  <2>3. CASE exit' = "ok" /\ caller = "stage"
    BY <2>1, <2>3, ExitAssumption DEF RunInv, Unfinished, FailedKeeps, Running
  <2> QED
    BY <2>1, <2>2, <2>3
<1>6. CASE Solved
  <2>1. /\ Running /\ at = "solve" /\ at' \in {"solve", "print"}
        /\ UNCHANGED <<caller, tmp, final, faults, failedAt, exit>>
    BY <1>6 DEF Solved
  <2> QED
    BY <1>1, <2>1, GoesOnInv
<1>7. CASE PrintLine
  <2>1. Running /\ at = "print" /\ UNCHANGED <<caller, at, tmp, final, faults, failedAt, exit>>
    BY <1>7 DEF PrintLine
  <2> QED
    BY <1>1, <2>1, GoesOnInv
<1>8. CASE Reported
  <2>1. Running /\ at = "print" /\ UNCHANGED <<final, caller>>
    BY <1>8 DEF Reported
  <2>2. CASE at' = "solve" /\ UNCHANGED <<faults, failedAt, exit, tmp>>
    BY <1>1, <2>1, <2>2, GoesOnInv
  <2>3. CASE Fault /\ Fail("report", NoFiles)
    BY <1>1, <2>1, <2>3, FailInv
  <2> QED
    BY <1>8, <2>2, <2>3 DEF Reported
<1>9. CASE WriteOutputs
  <2>1. Running /\ at = "write" /\ caller = "dropin" /\ UNCHANGED <<final, caller>>
    BY <1>9 DEF WriteOutputs
  <2>2. CASE at' = "stat" /\ UNCHANGED <<faults, failedAt, exit>>
    BY <1>1, <2>1, <2>2, GoesOnInv
  <2>3. CASE Fault /\ Fail("write", NoFiles)
    BY <1>1, <2>1, <2>3, FailInv
  <2> QED
    BY <1>9, <2>2, <2>3 DEF WriteOutputs
<1>10. CASE ReplaceStat
  <2>1. Running /\ at = "stat" /\ UNCHANGED caller /\ caller # "stage" /\ final["disp"] = None
    BY <1>1, <1>10 DEF ReplaceStat, RunInv, Unfinished
  <2>2. CASE /\ final' = [final EXCEPT !["stat"] = [s \in DOMAIN Codes |-> CountOf(s)]]
             /\ at' = "disp" /\ UNCHANGED <<faults, failedAt, exit>>
    <3>1. final'["disp"] = None /\ DOMAIN final' = Files
      BY <2>1, <2>2 DEF RunInv, Files
    <3> QED
      BY <2>1, <2>2, <3>1, ExitAssumption DEF RunInv, Unfinished, FailedKeeps, Running
  <2>3. CASE Fault /\ Fail("stat", NoFiles) /\ UNCHANGED final
    BY <1>1, <2>1, <2>3, FailInv
  <2> QED
    BY <1>10, <2>2, <2>3 DEF ReplaceStat
<1>11. CASE ReplaceDisp
  <2>1. Running /\ at = "disp" /\ UNCHANGED caller
    BY <1>11 DEF ReplaceDisp
  <2>2. CASE /\ final' = [final EXCEPT !["disp"] = Rows] /\ tmp' = NoFiles /\ exit' = "ok"
             /\ UNCHANGED <<faults, failedAt>>
    BY <2>2, ExitAssumption DEF RunInv, Unfinished, FailedKeeps, Running
  <2>3. CASE Fault /\ Fail("disp", NoFiles) /\ UNCHANGED final
    BY <1>1, <2>1, <2>3, FailInv
  <2> QED
    BY <1>11, <2>2, <2>3 DEF ReplaceDisp
<1>12. CASE ReaderLeaves
  <2>1. Running /\ UNCHANGED <<caller, at, tmp, final, faults, failedAt, exit>>
    BY <1>12 DEF ReaderLeaves
  <2> QED
    BY <2>1 DEF RunInv, Unfinished, FailedKeeps, Running
<1>13. CASE Kill
  <2>1. exit' = "killed" /\ UNCHANGED <<final, faults>>
    BY <1>13 DEF Kill
  <2> QED
    BY <2>1, ExitAssumption DEF RunInv, Unfinished, FailedKeeps, Running
<1>14. CASE UNCHANGED vars
  BY <1>14 DEF vars, runVars, RunInv, Unfinished, FailedKeeps, Running
<1> QED
  BY <1>2, <1>3, <1>4, <1>5, <1>6, <1>7, <1>8, <1>9, <1>10, <1>11, <1>12, <1>13, <1>14 DEF Next, Proceed

\* FailedKeeps: a failed run leaves the earlier outputs, but for the .stat when
\* the last rename failed; it fails for its input, for its reader before the
\* header is out or for a fault; and one that ends by itself leaves no temporary
\* file, except when the second could not be created.
THEOREM FailedKeepsCorrect == Spec => []FailedKeeps
<1>1. RunInv => FailedKeeps
  BY DEF RunInv
<1> QED
  BY <1>1, RunInitInv, NextRunInv, PTL DEF Spec

(***************************************************************************)
(* The points and the orders they are processed in.                        *)
(***************************************************************************)
LEMMA PointsFacts ==
  /\ Points = 1 .. Len(Position) /\ Len(Position) \in Nat /\ Points # {}
  /\ IsFiniteSet(Points) /\ Points \subseteq Int /\ \A p \in Points : Position[p] \in Int
<1>1. Position \in Seq(Int) /\ Position # <<>>
  BY SolverAssumption
<1>2. Points = 1 .. Len(Position) /\ Len(Position) \in Nat /\ Len(Position) # 0
  BY <1>1 DEF Points
<1>3. IsFiniteSet(1 .. Len(Position))
  BY <1>2, FS_Interval
<1>4. \A p \in Points : Position[p] \in Int
  BY <1>1, <1>2
<1> QED
  BY <1>2, <1>3, <1>4

\* The order of a set of points is by the distance from here.
From(S) == IF StartPoint # None THEN StartPoint ELSE Position[Min(S)]
Off(S, p) == Abs(Position[p] - From(S))

LEMMA OrderFacts ==
  ASSUME NEW S \in SUBSET Points, S # {}
  PROVE  LET o == ProcessingOrder(S)  n == Cardinality(S) IN
         /\ n \in Nat /\ n >= 1 /\ Len(o) = n /\ DOMAIN o = 1 .. n /\ o \in Seq(S) /\ Range(o) = S
         /\ \A i, j \in 1 .. n : o[i] = o[j] => i = j
         /\ \A i, j \in 1 .. n : i <= j => Ring(o[i], Min(S)) <= Ring(o[j], Min(S))
         /\ \A i \in 1 .. n : Ring(o[i], Min(S)) \in Int
<1> DEFINE o == ProcessingOrder(S)
           n == Cardinality(S)
           key == [p \in S |-> Abs(Position[p] - From(S))]
<1>1. IsFiniteSet(S) /\ S \in SUBSET Int /\ \A p \in S : Position[p] \in Int
  BY PointsFacts, FS_Subset
<1>2. From(S) \in Int
  BY <1>1, MinFacts, SolverAssumption DEF From
<1>3. \A p \in S : key[p] \in Int /\ key[p] >= 0
  BY <1>1, <1>2 DEF Abs
<1>4. Keys(S, key)
  BY <1>1, <1>3 DEF Keys
<1>5. o = Sorted(S, key)
  BY DEF ProcessingOrder, From
<1>6. n # 0
  BY <1>1, FS_EmptySet
<1> HIDE DEF o, n, key
<1>7. /\ n \in Nat /\ Len(o) = n /\ DOMAIN o = 1 .. n /\ o \in Seq(S) /\ Range(o) = S
      /\ \A i, j \in 1 .. n : i < j <=> Less(key, o[i], o[j])
  BY <1>4, <1>5, SortedFacts DEF n
<1>8. \A i \in 1 .. n : o[i] \in S /\ o[i] \in Int /\ key[o[i]] \in Int
  <2> SUFFICES ASSUME NEW i \in 1 .. n
               PROVE  o[i] \in S /\ o[i] \in Int /\ key[o[i]] \in Int
    OBVIOUS
  <2>1. o[i] \in S
    BY <1>7
  <2> QED
    BY <1>1, <1>3, <2>1
<1>9. \A i, j \in 1 .. n : o[i] = o[j] => i = j
  <2> SUFFICES ASSUME NEW i \in 1 .. n, NEW j \in 1 .. n, o[i] = o[j]
               PROVE  i = j
    OBVIOUS
  <2>1. ~Less(key, o[i], o[j]) /\ ~Less(key, o[j], o[i])
    BY <1>1, <1>8 DEF Less
  <2> QED
    BY <1>7, <2>1
<1>10. \A p \in S : Ring(p, Min(S)) = key[p] \div ShellWidth
  BY DEF Ring, key, From
<1>11. ShellWidth \in Nat /\ ShellWidth > 0
  BY SolverAssumption
<1>12. ASSUME NEW i \in 1 .. n, NEW j \in 1 .. n, i <= j
       PROVE  Ring(o[i], Min(S)) <= Ring(o[j], Min(S))
  <2>1. key[o[i]] <= key[o[j]]
    <3>1. CASE i = j
      BY <1>8, <3>1
    <3>2. CASE i < j
      BY <1>7, <1>8, <3>2 DEF Less
    <3> QED
      BY <1>12, <3>1, <3>2
  <2> QED
    BY <1>8, <1>10, <1>11, <2>1, DivMono
<1>13. \A i \in 1 .. n : Ring(o[i], Min(S)) \in Int
  BY <1>8, <1>10, <1>11, DivMono
<1> QED
  BY <1>6, <1>7, <1>9, <1>12, <1>13 DEF o, n

LEMMA GivenFacts ==
  ASSUME NEW strat
  PROVE  Given(strat) \in SUBSET Points /\ Given(strat) # {} /\ IsFiniteSet(Given(strat))
<1>1. Given(strat) \in SUBSET Points
  BY DEF Given, CoarseSubset
<1>2. CoarseSubset # {}
  <2> DEFINE least == Min(Range(Position))
             key == [p \in Points |-> Position[p] - least]
             s == Sorted(Points, key)
  <2>1. Range(Position) \in SUBSET Int /\ Range(Position) # {} /\ IsFiniteSet(Range(Position))
    <3>1. Range(Position) = {Position[p] : p \in Points}
      BY DEF Range, Points
    <3> QED
      BY <3>1, PointsFacts, ImageFinite
  <2>2. least \in Int
    BY <2>1, MinFacts
  <2> HIDE DEF least
  <2>3. Keys(Points, key) /\ \A p \in Points : key[p] \in Int
    BY <2>2, PointsFacts DEF Keys
  <2> HIDE DEF key, s
  <2>4. /\ DOMAIN s = 1 .. Cardinality(Points) /\ Cardinality(Points) \in Nat /\ s \in Seq(Points)
        /\ \A i, j \in DOMAIN s : i < j <=> Less(key, s[i], s[j])
        /\ \A p \in Points : \E i \in DOMAIN s : s[i] = p
    BY <2>3, SortedFacts DEF s
  <2>5. 1 \in DOMAIN s /\ s[1] \in Points
    BY <2>4, PointsFacts, FS_EmptySet
  <2>6. ASSUME NEW q \in Points
        PROVE  key[s[1]] < key[q] \/ (key[s[1]] = key[q] /\ s[1] <= q)
    <3>1. PICK i \in DOMAIN s : s[i] = q
      BY <2>4
    <3>2. CASE i = 1
      BY <2>3, <2>5, <3>1, <3>2, PointsFacts
    <3>3. CASE i # 1
      <4>1. 1 < i
        BY <2>4, <3>3
      <4>2. Less(key, s[1], q)
        BY <2>4, <2>5, <3>1, <4>1
      <4> QED
        BY <2>5, <4>2, PointsFacts DEF Less
    <3> QED
      BY <3>2, <3>3
  <2>7. \A p \in Points : key[p] = Position[p] - Min(Range(Position))
    BY DEF key, least
  <2>8. s[1] \in CoarseSubset
    BY <2>5, <2>6, <2>7 DEF CoarseSubset
  <2> QED
    BY <2>8
<1>3. Given(strat) # {}
  BY <1>2, PointsFacts DEF Given
<1> QED
  BY <1>1, <1>3, PointsFacts, FS_Subset

(***************************************************************************)
(* The shells: the positions in the order that each of them takes.         *)
(***************************************************************************)
RingsOf(S) == {Ring(ProcessingOrder(S)[i], Min(S)) : i \in 2 .. Len(ProcessingOrder(S))}

Slot(S, k) ==
  IF k = 1 THEN {1}
  ELSE {j \in 2 .. Len(ProcessingOrder(S)) : Ring(ProcessingOrder(S)[j], Min(S)) = Ascending(RingsOf(S))[k - 1]}

LEMMA RingsFinite ==
  ASSUME NEW S \in SUBSET Points, S # {}
  PROVE  RingsOf(S) \in SUBSET Int /\ IsFiniteSet(RingsOf(S))
<1> DEFINE o == ProcessingOrder(S)
           n == Len(o)
           ring == [i \in 1 .. n |-> Ring(o[i], Min(S))]
<1>1. n \in Nat /\ \A i \in 1 .. n : Ring(o[i], Min(S)) \in Int
  BY OrderFacts
<1>2. \A i \in 2 .. n : ring[i] = Ring(o[i], Min(S)) /\ ring[i] \in Int
  BY <1>1
<1>3. RingsOf(S) = {Ring(o[i], Min(S)) : i \in 2 .. n}
  BY DEF RingsOf
<1> HIDE DEF ring, n, o
<1>4. RingsOf(S) = {ring[i] : i \in 2 .. n}
  BY <1>2, <1>3
<1>5. IsFiniteSet(2 .. n)
  BY <1>1, FS_Interval
<1>6. IsFiniteSet({ring[i] : i \in 2 .. n})
  BY <1>5, ImageFinite
<1>7. RingsOf(S) \subseteq Int
  BY <1>2, <1>4
<1> QED
  BY <1>4, <1>6, <1>7

\* Every shell takes some positions, every position is in one shell, and those
\* of an earlier shell are before those of a later one.
LEMMA RingsFacts ==
  ASSUME NEW S \in SUBSET Points, S # {}
  PROVE  LET o == ProcessingOrder(S)
             shs == Rings(o, Min(S))
             last == Cardinality(RingsOf(S)) + 1
         IN
         /\ last \in Nat /\ Len(shs) = last /\ DOMAIN shs = 1 .. last
         /\ \A k \in 1 .. last : shs[k] = At(o, Slot(S, k)) /\ Slot(S, k) \in SUBSET (1 .. Len(o))
         /\ \A i \in 1 .. Len(o) : \E k \in 1 .. last : i \in Slot(S, k)
         /\ \A j, k \in 1 .. last : \A i \in Slot(S, j) : \A l \in Slot(S, k) :
              /\ j < k => i < l
              /\ l # 1 => (j < k <=> i = 1 \/ Ring(o[i], Min(S)) < Ring(o[l], Min(S)))
<1> DEFINE o == ProcessingOrder(S)
           n == Len(o)
           rings == RingsOf(S)
           a == Ascending(rings)
           last == Cardinality(rings) + 1
           shs == Rings(o, Min(S))
           ring == [i \in 1 .. n |-> Ring(o[i], Min(S))]
<1>1. /\ n \in Nat /\ n >= 1 /\ DOMAIN o = 1 .. n /\ o \in Seq(S)
      /\ \A i, j \in 1 .. n : i <= j => ring[i] <= ring[j]
      /\ \A i \in 1 .. n : ring[i] \in Int
  BY OrderFacts
<1>2. /\ Cardinality(rings) \in Nat /\ Len(a) = Cardinality(rings) /\ DOMAIN a = 1 .. Cardinality(rings) /\ a \in Seq(rings)
      /\ \A i, j \in DOMAIN a : i < j <=> a[i] < a[j]
      /\ \A p \in rings : \E i \in DOMAIN a : a[i] = p
  BY RingsFinite, AscendingFacts
<1>3. last \in Nat /\ last >= 1 /\ last - 1 = Cardinality(rings)
  BY <1>2
<1>4. Slot(S, 1) = {1} /\ \A k \in 2 .. last : Slot(S, k) = {j \in 2 .. n : ring[j] = a[k - 1]}
  <2>1. Slot(S, 1) = {1}
    BY DEF Slot
  <2>2. ASSUME NEW k \in 2 .. last
        PROVE  Slot(S, k) = {j \in 2 .. n : ring[j] = a[k - 1]}
    <3>1. k # 1
      BY <1>3
    <3>2. \A j \in 2 .. n : ring[j] = Ring(o[j], Min(S))
      BY <1>1
    <3> QED
      BY <3>1, <3>2 DEF Slot
  <2> QED
    BY <2>1, <2>2
<1>5. rings = {Ring(o[i], Min(S)) : i \in 2 .. n}
  BY DEF RingsOf
<1>6. shs = <<<<Head(o)>>>> \o [i \in 1 .. Cardinality(rings) |-> At(o, {j \in 2 .. n : Ring(o[j], Min(S)) = a[i]})]
  BY DEF Rings, RingsOf
<1>7. Head(o) = o[1]
  BY <1>1
<1>8. \A i \in 1 .. Cardinality(rings) : {j \in 2 .. n : Ring(o[j], Min(S)) = a[i]} = {j \in 2 .. n : ring[j] = a[i]}
  BY <1>1
<1>0. \A i \in 1 .. n : ring[i] = Ring(o[i], Min(S))
  OBVIOUS
<1> HIDE DEF ring, rings, a, last, shs, n, o
<1>9. <<o[1]>> = At(o, {1})
  <2>1. Cardinality({1}) = 1 /\ IsFiniteSet({1}) /\ {1} \in SUBSET Int
    BY FS_Singleton
  <2> DEFINE t == At(o, {1})
  <2>2. /\ Len(t) = 1 /\ DOMAIN t = 1 .. 1 /\ Range(t) = {o[i] : i \in {1}}
        /\ (\A i \in {1} : o[i] \in {o[1]}) => t \in Seq({o[1]})
    <3> HIDE DEF t
    <3>1. /\ Len(t) = Cardinality({1}) /\ DOMAIN t = 1 .. Cardinality({1}) /\ Range(t) = {o[i] : i \in {1}}
          /\ \A E : (\A i \in {1} : o[i] \in E) => t \in Seq(E)
      BY <2>1, AtFacts DEF t
    <3> QED
      BY <2>1, <3>1
  <2>3. t[1] = o[1] /\ t \in Seq({o[1]})
    BY <2>2 DEF Range
  <2> HIDE DEF t
  <2>4. t = <<o[1]>>
    BY <2>2, <2>3
  <2> QED
    BY <2>4 DEF t
<1>10. /\ Len(shs) = last /\ DOMAIN shs = 1 .. last /\ shs[1] = <<o[1]>>
       /\ \A k \in 2 .. last : shs[k] = At(o, {j \in 2 .. n : ring[j] = a[k - 1]})
  <2> DEFINE rest == [i \in 1 .. last - 1 |-> At(o, {j \in 2 .. n : Ring(o[j], Min(S)) = a[i]})]
  <2>1. shs = <<<<o[1]>>>> \o rest
    BY <1>3, <1>6, <1>7
  <2>2. DOMAIN rest = 1 .. last - 1 /\ \A i \in 1 .. last - 1 : rest[i] = At(o, {j \in 2 .. n : ring[j] = a[i]})
    BY <1>3, <1>8
  <2>3. rest \in Seq({rest[i] : i \in 1 .. last - 1}) /\ Len(rest) = last - 1
    <3>1. \A i \in 1 .. last - 1 : rest[i] \in {rest[k] : k \in 1 .. last - 1}
      OBVIOUS
    <3>2. rest = [i \in 1 .. last - 1 |-> rest[i]]
      OBVIOUS
    <3>3. last - 1 \in Nat
      BY <1>3
    <3> HIDE DEF rest
    <3> QED
      BY <3>1, <3>2, <3>3
  <2> HIDE DEF rest
  <2> DEFINE E == {rest[i] : i \in 1 .. last - 1} \union {<<o[1]>>}
  <2>4. rest \in Seq(E) /\ <<<<o[1]>>>> \in Seq(E) /\ Len(<<<<o[1]>>>>) = 1
    BY <2>3
  <2> HIDE DEF E
  <2>5. Len(shs) = 1 + (last - 1) /\ DOMAIN shs = 1 .. 1 + (last - 1) /\ shs[1] = <<o[1]>>
        /\ \A k \in 2 .. last : shs[k] = rest[k - 1]
    BY <1>3, <2>1, <2>3, <2>4
  <2>6. ASSUME NEW k \in 2 .. last
        PROVE  shs[k] = At(o, {j \in 2 .. n : ring[j] = a[k - 1]})
    <3>1. k - 1 \in 1 .. last - 1
      BY <1>3
    <3> QED
      BY <2>2, <2>5, <3>1
  <2> QED
    BY <1>3, <2>5, <2>6
<1>11. \A k \in 1 .. last : shs[k] = At(o, Slot(S, k)) /\ Slot(S, k) \in SUBSET (1 .. n)
  <2> SUFFICES ASSUME NEW k \in 1 .. last
               PROVE  shs[k] = At(o, Slot(S, k)) /\ Slot(S, k) \in SUBSET (1 .. n)
    OBVIOUS
  <2>1. CASE k = 1
    <3>1. Slot(S, 1) = {1} /\ {1} \subseteq 1 .. n
      BY <1>1, <1>4
    <3> QED
      BY <1>9, <1>10, <2>1, <3>1
  <2>2. CASE k # 1
    <3>1. k \in 2 .. last
      BY <1>3, <2>2
    <3>2. Slot(S, k) = {j \in 2 .. n : ring[j] = a[k - 1]}
      BY <1>4, <3>1
    <3> QED
      BY <1>1, <1>10, <3>1, <3>2
  <2> QED
    BY <2>1, <2>2
<1>12. \A i \in 1 .. n : \E k \in 1 .. last : i \in Slot(S, k)
  <2> SUFFICES ASSUME NEW i \in 1 .. n
               PROVE  \E k \in 1 .. last : i \in Slot(S, k)
    OBVIOUS
  <2>1. CASE i = 1
    BY <1>3, <1>4, <2>1
  <2>2. CASE i # 1
    <3>1. i \in 2 .. n
      BY <1>1, <2>2
    <3>2. PICK k \in DOMAIN a : a[k] = ring[i]
      BY <1>0, <1>2, <1>5, <3>1
    <3>3. k + 1 \in 2 .. last /\ (k + 1) - 1 = k
      BY <1>2, <1>3
    <3>4. i \in Slot(S, k + 1)
      BY <1>4, <3>1, <3>2, <3>3
    <3> QED
      BY <1>3, <3>3, <3>4
  <2> QED
    BY <2>1, <2>2
<1>13. ASSUME NEW j \in 1 .. last, NEW k \in 1 .. last, NEW i \in Slot(S, j), NEW l \in Slot(S, k)
       PROVE  /\ j < k => i < l
              /\ l # 1 => (j < k <=> i = 1 \/ ring[i] < ring[l])
  <2>1. i \in 1 .. n /\ l \in 1 .. n
    BY <1>11
  <2>2. /\ j = 1 => i = 1
        /\ k = 1 => l = 1
        /\ j # 1 => i # 1 /\ ring[i] = a[j - 1] /\ j - 1 \in DOMAIN a
        /\ k # 1 => l # 1 /\ ring[l] = a[k - 1] /\ k - 1 \in DOMAIN a
    <3>1. ASSUME NEW kk \in 1 .. last, NEW x \in Slot(S, kk), kk # 1
          PROVE  x # 1 /\ ring[x] = a[kk - 1] /\ kk - 1 \in DOMAIN a
      <4>1. kk \in 2 .. last
        BY <1>3, <3>1
      <4>2. x \in 2 .. n /\ ring[x] = a[kk - 1]
        BY <1>4, <4>1
      <4>3. kk - 1 \in 1 .. last - 1
        BY <1>3, <4>1
      <4> QED
        BY <1>1, <1>2, <1>3, <4>2, <4>3
    <3> QED
      BY <1>4, <3>1
  <2>3. j # 1 /\ k # 1 => (j < k <=> ring[i] < ring[l])
    <3> SUFFICES ASSUME j # 1, k # 1
                 PROVE  j < k <=> ring[i] < ring[l]
      OBVIOUS
    <3>1. j - 1 < k - 1 <=> a[j - 1] < a[k - 1]
      BY <1>2, <2>2
    <3> QED
      BY <1>3, <2>2, <3>1
  <2>4. ring[i] \in Int /\ ring[l] \in Int /\ (l <= i => ring[l] <= ring[i])
    BY <1>1, <2>1
  <2>5. ASSUME j < k
        PROVE  i < l
    <3>1. k # 1 /\ l # 1
      BY <1>3, <2>2, <2>5
    <3>2. CASE j = 1
      BY <1>1, <2>1, <2>2, <3>1, <3>2
    <3>3. CASE j # 1
      BY <1>1, <2>1, <2>3, <2>4, <2>5, <3>1, <3>3
    <3> QED
      BY <3>2, <3>3
  <2>6. ASSUME l # 1
        PROVE  j < k <=> i = 1 \/ ring[i] < ring[l]
    <3>1. k # 1
      BY <2>2, <2>6
    <3>2. CASE j = 1
      BY <1>3, <2>2, <3>1, <3>2
    <3>3. CASE j # 1
      BY <2>2, <2>3, <3>1, <3>3
    <3> QED
      BY <3>2, <3>3
  <2> QED
    BY <2>5, <2>6
<1>14. \A j, k \in 1 .. last : \A i \in Slot(S, j) : \A l \in Slot(S, k) :
         /\ j < k => i < l
         /\ l # 1 => (j < k <=> i = 1 \/ Ring(o[i], Min(S)) < Ring(o[l], Min(S)))
  BY <1>0, <1>11, <1>13
<1> QED
  BY <1>3, <1>10, <1>11, <1>12, <1>14 DEF o, n, rings, last, shs

(***************************************************************************)
(* What is worked out once, before anything is solved.                     *)
(***************************************************************************)
StaticInv ==
  /\ limit \in Nat
  /\ order = ProcessingOrder(Given(strategy))
  /\ shells = IF strategy = "rigid" THEN <<Ascending(ToDo)>> ELSE Rings(order, Min(Given(strategy)))
  /\ neighbours = [p \in Given(strategy) |-> Nearest(Given(strategy), p)]

LEMMA LimitFacts ==
  ASSUME StaticInv
  PROVE  LET S == Given(strategy)  m == Len(Order) IN
         /\ m \in Nat /\ m >= 1 /\ m <= Len(order) /\ Len(order) \in Nat /\ DOMAIN order = 1 .. Len(order)
         /\ Len(order) = Cardinality(S) /\ Range(order) = S
         /\ m = IF limit = 0 THEN Cardinality(S) ELSE Min({limit, Cardinality(S)})
         /\ DOMAIN Order = 1 .. m /\ \A i \in 1 .. m : Order[i] = order[i]
         /\ ToDo = {order[i] : i \in 1 .. m} /\ ToDo \subseteq S /\ S \subseteq Points
         /\ \A i, j \in 1 .. Len(order) : order[i] = order[j] => i = j
         /\ \A i, j \in 1 .. Len(order) : i <= j => Ring(order[i], Min(S)) <= Ring(order[j], Min(S))
         /\ \A i \in 1 .. Len(order) : Ring(order[i], Min(S)) \in Int /\ order[i] \in S
<1> DEFINE S == Given(strategy)
           n == Cardinality(S)
           m == Len(Order)
<1>1. S \in SUBSET Points /\ S # {}
  BY GivenFacts
<1>2. order = ProcessingOrder(S) /\ limit \in Nat
  BY DEF StaticInv
<1> HIDE DEF S
<1>3. /\ n \in Nat /\ n >= 1 /\ Len(order) = n /\ DOMAIN order = 1 .. n /\ order \in Seq(S) /\ Range(order) = S
      /\ \A i, j \in 1 .. n : order[i] = order[j] => i = j
      /\ \A i, j \in 1 .. n : i <= j => Ring(order[i], Min(S)) <= Ring(order[j], Min(S))
      /\ \A i \in 1 .. n : Ring(order[i], Min(S)) \in Int
  BY <1>1, <1>2, OrderFacts
<1>4. \A i \in 1 .. n : order[i] \in S
  BY <1>3
<1> HIDE DEF n
<1>5. /\ m \in Nat /\ m >= 1 /\ m <= n /\ DOMAIN Order = 1 .. m /\ \A i \in 1 .. m : Order[i] = order[i]
      /\ m = IF limit = 0 THEN n ELSE Min({limit, n})
  <2>1. CASE limit = 0
    <3>1. Order = order
      BY <2>1 DEF Order, Limited
    <3> QED
      BY <1>3, <2>1, <3>1
  <2>2. CASE limit # 0
    <3> DEFINE l == Min({limit, n})
    <3>1. l \in 1 .. n
      BY <1>2, <1>3, <2>2, MinOfTwo
    <3>2. Order = SubSeq(order, 1, l)
      BY <1>3, <2>2 DEF Order, Limited
    <3> HIDE DEF l
    <3>3. Len(Order) = l /\ DOMAIN Order = 1 .. l /\ \A i \in 1 .. l : Order[i] = order[i]
      BY <1>3, <3>1, <3>2
    <3>4. m = l
      BY <3>3
    <3> HIDE DEF m
    <3>5. m = IF limit = 0 THEN n ELSE Min({limit, n})
      BY <2>2, <3>4 DEF l
    <3> QED
      <4>1. DOMAIN Order = 1 .. m /\ \A i \in 1 .. m : Order[i] = order[i]
        BY <3>3, <3>4
      <4>2. m \in Nat /\ m >= 1 /\ m <= n
        BY <1>3, <3>1, <3>4
      <4> QED
        BY <3>5, <4>1, <4>2
  <2> QED
    BY <2>1, <2>2
<1>6. ToDo = {order[i] : i \in 1 .. m}
  <2>1. ToDo = Range(Order)
    BY DEF ToDo, Order
  <2> HIDE DEF m
  <2> QED
    BY <1>5, <2>1 DEF Range
<1>7. ToDo \subseteq S
  BY <1>3, <1>4, <1>5, <1>6
<1> QED
  BY <1>1, <1>3, <1>4, <1>5, <1>6, <1>7 DEF S, n

\* The points of shell k that are to be solved.
Part(k) == Range(Batch(k))

\* A sequence of points without repetition, cut to those to be solved.
LEMMA BatchOf ==
  ASSUME NEW s, NEW n \in Nat, DOMAIN s = 1 .. n, \A i, j \in 1 .. n : s[i] = s[j] => i = j, NEW k, shells[k] = s
  PROVE  /\ Len(Batch(k)) \in Nat /\ DOMAIN Batch(k) = 1 .. Len(Batch(k)) /\ Batch(k) \in Seq(ToDo)
         /\ \A i, j \in DOMAIN Batch(k) : Batch(k)[i] = Batch(k)[j] => i = j
         /\ Part(k) = Range(s) \intersect ToDo
<1> DEFINE I == {i \in 1 .. n : s[i] \in ToDo}
<1>1. I \in SUBSET Int /\ IsFiniteSet(I)
  BY FS_Interval, FS_Subset
<1>2. Batch(k) = At(s, I)
  BY DEF Batch
<1>3. /\ Cardinality(I) \in Nat /\ Len(Batch(k)) = Cardinality(I) /\ DOMAIN Batch(k) = 1 .. Cardinality(I)
      /\ Part(k) = {s[i] : i \in I}
      /\ \A S : (\A i \in I : s[i] \in S) => Batch(k) \in Seq(S)
  <2> HIDE DEF I
  <2> QED
    BY <1>1, <1>2, AtFacts DEF Part
<1>4. \A i, j \in DOMAIN Batch(k) : Batch(k)[i] = Batch(k)[j] => i = j
  <2>1. \A i, j \in I : s[i] = s[j] => i = j
    OBVIOUS
  <2> HIDE DEF I
  <2> QED
    BY <1>1, <1>2, <2>1, AtInjective
<1>5. {s[i] : i \in I} = Range(s) \intersect ToDo
  BY DEF Range
<1>6. Batch(k) \in Seq(ToDo)
  BY <1>3
<1> QED
  BY <1>3, <1>4, <1>5, <1>6

LEMMA ShellFacts ==
  ASSUME StaticInv
  PROVE  /\ LastShell \in Nat
         /\ \A k \in 1 .. LastShell :
              /\ Len(Batch(k)) \in Nat /\ DOMAIN Batch(k) = 1 .. Len(Batch(k)) /\ Batch(k) \in Seq(ToDo)
              /\ \A i, j \in DOMAIN Batch(k) : Batch(k)[i] = Batch(k)[j] => i = j
         /\ UNION {Part(k) : k \in 1 .. LastShell} = ToDo
         /\ \A j, k \in 1 .. LastShell : j # k => Part(j) \intersect Part(k) = {}
         /\ strategy # "rigid" => \A j, k \in 1 .. LastShell : \A i, l \in 1 .. Len(Order) :
              order[i] \in Part(j) /\ order[l] \in Part(k) =>
                /\ j < k => i < l
                /\ l # 1 => (j < k <=> i = 1 \/ Ring(order[i], Min(Given(strategy))) < Ring(order[l], Min(Given(strategy))))
<1> DEFINE S == Given(strategy)
           m == Len(Order)
           n == Len(order)
<1>1. S \in SUBSET Points /\ S # {} /\ IsFiniteSet(Points) /\ Points \subseteq Int
  BY GivenFacts, PointsFacts
<1>2. /\ m \in Nat /\ m >= 1 /\ m <= n /\ n \in Nat /\ DOMAIN order = 1 .. n
      /\ ToDo = {order[i] : i \in 1 .. m} /\ ToDo \subseteq S
      /\ \A i, j \in 1 .. n : order[i] = order[j] => i = j
  BY LimitFacts
<1> HIDE DEF S, m, n
<1>3. CASE strategy = "rigid"
  <2> DEFINE a == Ascending(ToDo)
  <2>1. ToDo \in SUBSET Int /\ IsFiniteSet(ToDo)
    BY <1>1, <1>2, FS_Subset
  <2>2. Cardinality(ToDo) \in Nat /\ DOMAIN a = 1 .. Cardinality(ToDo) /\ Range(a) = ToDo /\ a \in Seq(ToDo)
        /\ \A i, j \in DOMAIN a : i < j <=> a[i] < a[j]
    BY <2>1, AscendingFacts
  <2>3. shells = <<a>>
    BY <1>3 DEF StaticInv
  <2> HIDE DEF a
  <2>4. LastShell = 1 /\ shells[1] = a
    BY <2>3 DEF LastShell
  <2>5. \A i, j \in DOMAIN a : a[i] = a[j] => i = j
    <3> SUFFICES ASSUME NEW i \in DOMAIN a, NEW j \in DOMAIN a, a[i] = a[j]
                 PROVE  i = j
      OBVIOUS
    <3>0. a[i] \in ToDo /\ a[j] \in ToDo
      BY <2>2
    <3>1. a[i] \in Int /\ a[j] \in Int
      BY <2>1, <3>0
    <3> QED
      BY <2>2, <3>1
  <2>6. /\ Len(Batch(1)) \in Nat /\ DOMAIN Batch(1) = 1 .. Len(Batch(1)) /\ Batch(1) \in Seq(ToDo)
        /\ \A i, j \in DOMAIN Batch(1) : Batch(1)[i] = Batch(1)[j] => i = j
        /\ Part(1) = ToDo
    <3> DEFINE c == Cardinality(ToDo)
    <3>1. c \in Nat /\ DOMAIN a = 1 .. c /\ (\A i, j \in 1 .. c : a[i] = a[j] => i = j) /\ shells[1] = a
      BY <2>2, <2>4, <2>5
    <3> HIDE DEF c
    <3>2. /\ Len(Batch(1)) \in Nat /\ DOMAIN Batch(1) = 1 .. Len(Batch(1)) /\ Batch(1) \in Seq(ToDo)
          /\ \A i, j \in DOMAIN Batch(1) : Batch(1)[i] = Batch(1)[j] => i = j
          /\ Part(1) = Range(a) \intersect ToDo
      BY <3>1, BatchOf
    <3> QED
      BY <2>2, <3>2
  <2>7. \A k \in 1 .. LastShell : k = 1
    BY <2>4
  <2> QED
    BY <1>3, <2>4, <2>6, <2>7
<1>4. CASE strategy # "rigid"
  <2> DEFINE last == Cardinality(RingsOf(S)) + 1
  <2>1. order = ProcessingOrder(S) /\ shells = Rings(order, Min(S))
    BY <1>4 DEF StaticInv, S
  <2>2. /\ last \in Nat /\ Len(shells) = last
        /\ \A k \in 1 .. last : shells[k] = At(order, Slot(S, k)) /\ Slot(S, k) \in SUBSET (1 .. n)
        /\ \A i \in 1 .. n : \E k \in 1 .. last : i \in Slot(S, k)
        /\ \A j, k \in 1 .. last : \A i \in Slot(S, j) : \A l \in Slot(S, k) :
             /\ j < k => i < l
             /\ l # 1 => (j < k <=> i = 1 \/ Ring(order[i], Min(S)) < Ring(order[l], Min(S)))
    BY <1>1, <2>1, RingsFacts DEF n
  <2> HIDE DEF last
  <2>3. LastShell = last
    BY <2>2 DEF LastShell
  <2>4. ASSUME NEW k \in 1 .. last
        PROVE  /\ Len(Batch(k)) \in Nat /\ DOMAIN Batch(k) = 1 .. Len(Batch(k)) /\ Batch(k) \in Seq(ToDo)
               /\ \A i, j \in DOMAIN Batch(k) : Batch(k)[i] = Batch(k)[j] => i = j
               /\ Part(k) = {order[i] : i \in Slot(S, k)} \intersect ToDo
    <3> DEFINE s == At(order, Slot(S, k))
    <3>1. Slot(S, k) \in SUBSET Int /\ IsFiniteSet(Slot(S, k))
      BY <1>2, <2>2, FS_Interval, FS_Subset
    <3>2. Cardinality(Slot(S, k)) \in Nat /\ DOMAIN s = 1 .. Cardinality(Slot(S, k)) /\ Range(s) = {order[i] : i \in Slot(S, k)}
      BY <3>1, AtFacts
    <3>3. \A i, j \in Slot(S, k) : order[i] = order[j] => i = j
      BY <1>2, <2>2
    <3>4. \A i, j \in DOMAIN s : s[i] = s[j] => i = j
      BY <3>1, <3>3, AtInjective
    <3>5. shells[k] = s
      BY <2>2
    <3> HIDE DEF s
    <3> QED
      BY <3>2, <3>4, <3>5, BatchOf
  <2>5. ASSUME NEW k \in 1 .. last, NEW i \in 1 .. n
        PROVE  order[i] \in Part(k) <=> i \in Slot(S, k) /\ order[i] \in ToDo
    <3>1. ASSUME order[i] \in Part(k)
          PROVE  i \in Slot(S, k) /\ order[i] \in ToDo
      <4>1. PICK j \in Slot(S, k) : order[i] = order[j]
        BY <2>4, <3>1
      <4>2. j = i
        BY <1>2, <2>2, <4>1
      <4> QED
        BY <2>4, <3>1, <4>1, <4>2
    <3>2. ASSUME i \in Slot(S, k), order[i] \in ToDo
          PROVE  order[i] \in Part(k)
      BY <2>4, <3>2
    <3> QED
      BY <3>1, <3>2
  <2>6. UNION {Part(k) : k \in 1 .. LastShell} = ToDo
    <3>1. ASSUME NEW p \in ToDo
          PROVE  \E k \in 1 .. LastShell : p \in Part(k)
      <4>1. PICK i \in 1 .. m : p = order[i]
        BY <1>2
      <4>2. i \in 1 .. n
        BY <1>2
      <4>3. PICK k \in 1 .. last : i \in Slot(S, k)
        BY <2>2, <4>2
      <4> QED
        BY <2>3, <2>5, <4>1, <4>2, <4>3
    <3>2. \A k \in 1 .. LastShell : Part(k) \subseteq ToDo
      BY <2>3, <2>4
    <3> QED
      BY <3>1, <3>2
  <2>7. ASSUME NEW j \in 1 .. last, NEW k \in 1 .. last, NEW p \in Part(j) \intersect Part(k), j # k
        PROVE  FALSE
    <3>1. PICK i \in 1 .. n : p = order[i]
      BY <2>2, <2>4
    <3>2. i \in Slot(S, j) /\ i \in Slot(S, k)
      BY <2>5, <3>1
    <3>3. j < k \/ k < j
      BY <2>2, <2>7
    <3>4. i < i
      BY <2>2, <3>2, <3>3
    <3> QED
      BY <3>1, <3>4
  <2>8. ASSUME NEW j \in 1 .. last, NEW k \in 1 .. last, NEW i \in 1 .. m, NEW l \in 1 .. m,
               order[i] \in Part(j), order[l] \in Part(k)
        PROVE  /\ j < k => i < l
               /\ l # 1 => (j < k <=> i = 1 \/ Ring(order[i], Min(S)) < Ring(order[l], Min(S)))
    <3>1. i \in 1 .. n /\ l \in 1 .. n
      BY <1>2
    <3>2. i \in Slot(S, j) /\ l \in Slot(S, k)
      BY <2>5, <2>8, <3>1
    <3> QED
      BY <2>2, <3>2
  <2>9. \A k \in 1 .. last :
          /\ Len(Batch(k)) \in Nat /\ DOMAIN Batch(k) = 1 .. Len(Batch(k)) /\ Batch(k) \in Seq(ToDo)
          /\ \A i, j \in DOMAIN Batch(k) : Batch(k)[i] = Batch(k)[j] => i = j
    BY <2>4
  <2>10. \A j, k \in 1 .. last : j # k => Part(j) \intersect Part(k) = {}
    BY <2>7
  <2> QED
    BY <2>2, <2>3, <2>6, <2>8, <2>9, <2>10 DEF S, m
<1> QED
  BY <1>3, <1>4

(***************************************************************************)
(* The solve passes the shells one by one.                                 *)
(***************************************************************************)
Solving == {"chunk", "iterate", "finish", "solved"}
Done == Cardinality(DOMAIN out)
Upper == Min({Done + ChunkSize, Len(Batch(shell))})
Taken(u) == {Batch(shell)[i] : i \in 1 .. u}

\* A batch is solved from its first point on, chunk by chunk.
BatchInv ==
  /\ pc \in Solving =>
       /\ shell \in 1 .. LastShell /\ DOMAIN seeds = Part(shell)
       /\ Done \in 0 .. Len(Batch(shell)) /\ DOMAIN out = Taken(Done)
  /\ pc \in {"chunk", "iterate", "finish"} => Done < Len(Batch(shell))
  /\ pc \in {"iterate", "finish"} => DOMAIN chunk = {Batch(shell)[i] : i \in Done + 1 .. Upper}
  /\ pc = "solved" => Done = Len(Batch(shell))

Tries == \A p \in DOMAIN chunk : Form(chunk[p]) /\ chunk[p].status # NotSearched
Results == \A p \in DOMAIN out : out[p].status # NotSearched

\* The points with a result are those of the shells that have been passed.
SearchedInv ==
  /\ shell \in 1 .. LastShell + 1
  /\ pc \in Solving \union {"shell", "done"}
  /\ pc = "done" => shell = LastShell + 1
  /\ \A p \in Points : result[p].status # NotSearched <=> \E k \in 1 .. shell - 1 : p \in Part(k)

ProgressInv == StaticInv /\ BatchInv /\ Tries /\ Results /\ SearchedInv

LEMMA StaticStays ==
  ASSUME UNCHANGED solveInputs
  PROVE  /\ ToDo' = ToDo /\ Order' = Order /\ LastShell' = LastShell
         /\ \A k : Batch(k)' = Batch(k) /\ Part(k)' = Part(k)
         /\ StaticInv <=> StaticInv'
<1>1. UNCHANGED <<order, limit, shells, strategy, neighbours>>
  BY DEF solveInputs
<1>2. Order' = Order /\ ToDo' = ToDo
  BY <1>1 DEF Order, ToDo, Limited
<1>3. \A k : Batch(k)' = Batch(k) /\ Part(k)' = Part(k)
  BY <1>1, <1>2 DEF Batch, Part
<1> QED
  BY <1>1, <1>2, <1>3 DEF StaticInv, LastShell

LEMMA StatusFacts ==
  /\ \A w, s : Begin(w, s).status # NotSearched
  /\ \A w, st : Form(st) /\ st.status # NotSearched => Update(w, st).status # NotSearched
  /\ \A w, st, b : Form(st) /\ st.status # NotSearched => Conclude(w, st, b).status # NotSearched
<1>1. ASSUME NEW w, NEW s
      PROVE  Begin(w, s).status # NotSearched
  BY DEF Begin, NotSearched
<1>2. ASSUME NEW w, NEW st, Form(st), st.status # NotSearched
      PROVE  Update(w, st).status # NotSearched
  <2>1. Update(w, st).status \in {st.status, "RANGE_FAIL", "SINGULAR"}
    <3> DEFINE status == st.status  prev == st.prev  n == st.n  done == st.done  seed == st.seed  u == st.u
    <3>1. st = [status |-> status, prev |-> prev, n |-> n, done |-> done, seed |-> seed, u |-> u]
      BY <1>2 DEF Form
    <3> QED
      BY <3>1 DEF Update
  <2> QED
    BY <1>2, <2>1 DEF NotSearched
<1>3. ASSUME NEW w, NEW st, NEW b, Form(st), st.status # NotSearched
      PROVE  Conclude(w, st, b).status # NotSearched
  <2>1. Conclude(w, st, b).status \in {st.status, "CONVG_FAIL", "RANGE_FAIL", "SINGULAR"}
    <3> DEFINE status == st.status  prev == st.prev  n == st.n  done == st.done  seed == st.seed  u == st.u
    <3>1. st = [status |-> status, prev |-> prev, n |-> n, done |-> done, seed |-> seed, u |-> u]
      BY <1>3 DEF Form
    <3> QED
      BY <3>1 DEF Conclude
  <2> QED
    BY <1>3, <2>1 DEF NotSearched
<1> QED
  BY <1>1, <1>2, <1>3

\* Upper is a position of the batch, past Done when the batch is not at its end.
LEMMA UpperFacts ==
  ASSUME StaticInv, shell \in 1 .. LastShell, Done \in 0 .. Len(Batch(shell))
  PROVE  /\ Len(Batch(shell)) \in Nat /\ DOMAIN Batch(shell) = 1 .. Len(Batch(shell)) /\ Batch(shell) \in Seq(ToDo)
         /\ Upper \in Done .. Len(Batch(shell))
         /\ Part(shell) = Taken(Len(Batch(shell)))
         /\ \A i, j \in 1 .. Len(Batch(shell)) : Batch(shell)[i] = Batch(shell)[j] => i = j
         /\ \A u \in 0 .. Len(Batch(shell)) : Cardinality(Taken(u)) = u
<1> DEFINE n == Len(Batch(shell))
<1>1. /\ n \in Nat /\ DOMAIN Batch(shell) = 1 .. n /\ Batch(shell) \in Seq(ToDo)
      /\ \A i, j \in 1 .. n : Batch(shell)[i] = Batch(shell)[j] => i = j
  BY ShellFacts
<1> HIDE DEF n
<1>2. ChunkSize \in Nat /\ ChunkSize > 0
  BY SolverAssumption
<1>3. Upper \in Done .. n
  <2>1. Done + ChunkSize \in Int /\ n \in Int /\ Done \in 0 .. n
    BY <1>1, <1>2 DEF n
  <2>2. Upper = Min({Done + ChunkSize, n})
    BY DEF Upper, n
  <2> HIDE DEF Upper
  <2>3. Upper = IF Done + ChunkSize <= n THEN Done + ChunkSize ELSE n
    BY <2>1, <2>2, MinOfTwo
  <2> QED
    BY <1>1, <1>2, <2>1, <2>3
<1>4. Part(shell) = Taken(n)
  BY <1>1 DEF Part, Range, Taken
<1>5. ASSUME NEW u \in 0 .. n
      PROVE  Cardinality(Taken(u)) = u
  <2>1. u \in Nat /\ \A i, j \in 1 .. u : Batch(shell)[i] = Batch(shell)[j] => i = j
    BY <1>1
  <2> QED
    BY <2>1, PrefixCard DEF Taken
<1> QED
  BY <1>1, <1>3, <1>4, <1>5 DEF n

LEMMA ProgressSteps == ProgressInv /\ SolverNext => ProgressInv'
<1> SUFFICES ASSUME ProgressInv, SolverNext
             PROVE  ProgressInv'
  OBVIOUS
<1>1. UNCHANGED solveInputs
  BY DEF SolverNext, StartShell, StartChunk, Iterate, FinishChunk, KeepBatch, SolveEnds
<1>2. /\ StaticInv /\ StaticInv' /\ LastShell' = LastShell /\ LastShell \in Nat /\ ToDo \subseteq Points
      /\ \A k : Batch(k)' = Batch(k) /\ Part(k)' = Part(k)
  BY <1>1, StaticStays, ShellFacts, LimitFacts DEF ProgressInv
<1>3. BatchInv /\ Tries /\ Results /\ SearchedInv
  BY DEF ProgressInv
<1>4. CASE StartShell
  <2>1. pc = "shell" /\ shell \in 1 .. LastShell /\ UNCHANGED <<result, chunk>>
    BY <1>2, <1>3, <1>4 DEF StartShell, SearchedInv
  <2>2. CASE Batch(shell) = <<>> /\ shell' = shell + 1 /\ UNCHANGED <<seeds, out, pc>>
    <3>1. Part(shell) = {}
      BY <2>2 DEF Part, Range
    <3>2. ASSUME NEW p
          PROVE  (\E k \in 1 .. shell' - 1 : p \in Part(k)) <=> (\E k \in 1 .. shell - 1 : p \in Part(k))
      BY <2>1, <2>2, <3>1
    <3>3. SearchedInv'
      BY <1>2, <1>3, <2>1, <2>2, <3>2 DEF SearchedInv
    <3>4. BatchInv'
      BY <2>1, <2>2 DEF BatchInv, Solving
    <3> QED
      BY <1>2, <1>3, <2>1, <2>2, <3>3, <3>4 DEF ProgressInv, Tries, Results, Form
  <2>3. CASE /\ Batch(shell) # <<>> /\ UNCHANGED shell /\ out' = <<>> /\ pc' = "chunk"
             /\ DOMAIN seeds' = ToSet(Batch(shell))
    <3>1. Done' = 0 /\ DOMAIN out' = {}
      BY <2>3, FS_EmptySet DEF Done
    <3>2. Len(Batch(shell)) \in Nat /\ Len(Batch(shell)) # 0
      BY <1>2, <2>1, <2>3, ShellFacts
    <3>3. ToSet(Batch(shell)) = Part(shell)
      BY DEF ToSet, Part, Range
    <3>4. Taken(0)' = {}
      BY DEF Taken
    <3>5. BatchInv'
      BY <1>2, <2>1, <2>3, <3>1, <3>2, <3>3, <3>4 DEF BatchInv, Solving
    <3>6. SearchedInv'
      BY <1>2, <1>3, <2>1, <2>3 DEF SearchedInv, Solving
    <3> QED
      BY <1>2, <1>3, <2>1, <2>3, <3>5, <3>6 DEF ProgressInv, Tries, Results, Form
  <2> QED
    BY <1>4, <2>2, <2>3 DEF StartShell
<1>5. CASE StartChunk
  <2>1. /\ pc = "chunk" /\ pc' = "iterate" /\ UNCHANGED <<result, shell, seeds, out>>
        /\ chunk' = [p \in ToSet(NextChunk) |-> Begin(world[p], seeds[p])]
    BY <1>5 DEF StartChunk
  <2>2. Done' = Done /\ Upper' = Upper /\ \A u : Taken(u)' = Taken(u)
    BY <1>2, <2>1 DEF Done, Upper, Taken
  <2>3. shell \in 1 .. LastShell /\ Done \in 0 .. Len(Batch(shell)) /\ Done < Len(Batch(shell))
    BY <1>3, <2>1 DEF BatchInv, Solving
  <2>4. ToSet(NextChunk) = {Batch(shell)[i] : i \in Done + 1 .. Upper}
    <3>1. /\ Len(Batch(shell)) \in Nat /\ Batch(shell) \in Seq(ToDo) /\ Upper \in Done .. Len(Batch(shell))
      BY <1>2, <2>3, UpperFacts
    <3>2. NextChunk = SubSeq(Batch(shell), Done + 1, Upper)
      BY DEF NextChunk, Done, Upper
    <3> HIDE DEF Done, Upper
    <3>3. Done + 1 \in 1 .. Len(Batch(shell)) + 1 /\ Upper \in (Done + 1) - 1 .. Len(Batch(shell))
      BY <2>3, <3>1
    <3> QED
      BY <3>1, <3>2, <3>3, SubSeqRange
  <2>5. BatchInv'
    BY <1>2, <1>3, <2>1, <2>2, <2>3, <2>4 DEF BatchInv, Solving
  <2>6. Tries'
    BY <2>1, StatusFacts, BeginFacts DEF Tries
  <2>7. SearchedInv' /\ Results'
    BY <1>2, <1>3, <2>1 DEF SearchedInv, Solving, Results
  <2> QED
    BY <1>2, <2>5, <2>6, <2>7 DEF ProgressInv
<1>6. CASE Iterate
  <2>1. pc = "iterate" /\ pc' \in {"iterate", "finish"} /\ UNCHANGED <<result, shell, seeds, out>>
    BY <1>6 DEF Iterate
  <2>2. Done' = Done /\ Upper' = Upper /\ \A u : Taken(u)' = Taken(u)
    BY <1>2, <2>1 DEF Done, Upper, Taken
  <2>3. DOMAIN chunk' = DOMAIN chunk /\ Tries'
    <3>1. CASE chunk' = [p \in DOMAIN chunk |-> IF p \in active THEN Update(world[p], chunk[p]) ELSE chunk[p]]
      <4>1. ASSUME NEW p \in DOMAIN chunk
            PROVE  Form(chunk'[p]) /\ chunk'[p].status # NotSearched
        <5>1. Form(chunk[p]) /\ chunk[p].status # NotSearched
          BY <1>3 DEF Tries
        <5>2. CASE p \in active
          <6>1. chunk'[p] = Update(world[p], chunk[p])
            BY <3>1, <5>2
          <6> QED
            BY <5>1, <6>1, UpdateFacts, StatusFacts
        <5>3. CASE p \notin active
          <6>1. chunk'[p] = chunk[p]
            BY <3>1, <5>3
          <6> QED
            BY <5>1, <6>1
        <5> QED
          BY <5>2, <5>3
      <4> QED
        BY <3>1, <4>1 DEF Tries, Form
    <3>2. CASE UNCHANGED chunk
      BY <1>3, <3>2 DEF Tries, Form
    <3> QED
      BY <1>6, <3>1, <3>2 DEF Iterate
  <2>4. BatchInv'
    BY <1>2, <1>3, <2>1, <2>2, <2>3 DEF BatchInv, Solving
  <2>5. SearchedInv' /\ Results'
    BY <1>2, <1>3, <2>1 DEF SearchedInv, Solving, Results
  <2> QED
    BY <1>2, <2>3, <2>4, <2>5 DEF ProgressInv
<1>7. CASE FinishChunk
  <2>1. /\ pc = "finish" /\ chunk' = <<>> /\ UNCHANGED <<result, shell, seeds>>
        /\ out' = [p \in DOMAIN out \union DOMAIN chunk |->
             IF p \in DOMAIN chunk THEN Conclude(world[p], chunk[p], p \in active /\ reportConvgFail) ELSE out[p]]
        /\ pc' = IF Cardinality(DOMAIN out') < Len(Batch(shell)) THEN "chunk" ELSE "solved"
    BY <1>7 DEF FinishChunk
  <2>2. /\ shell \in 1 .. LastShell /\ Done \in 0 .. Len(Batch(shell)) /\ DOMAIN seeds = Part(shell)
        /\ DOMAIN out = Taken(Done) /\ DOMAIN chunk = {Batch(shell)[i] : i \in Done + 1 .. Upper}
    BY <1>3, <2>1 DEF BatchInv, Solving
  <2>3. /\ Len(Batch(shell)) \in Nat /\ Upper \in Done .. Len(Batch(shell))
        /\ \A u \in 0 .. Len(Batch(shell)) : Cardinality(Taken(u)) = u
    BY <1>2, <2>2, UpperFacts
  <2>4. DOMAIN out' = Taken(Upper)
    <3>1. 1 .. Upper = (1 .. Done) \union (Done + 1 .. Upper)
      BY <2>2, <2>3
    <3>2. DOMAIN out' = DOMAIN out \union DOMAIN chunk
      BY <2>1
    <3> HIDE DEF Upper, Done
    <3> QED
      BY <2>2, <3>1, <3>2 DEF Taken
  <2>5. Upper \in 0 .. Len(Batch(shell))
    BY <2>2, <2>3
  <2>6. Done' = Upper
    BY <2>3, <2>4, <2>5 DEF Done
  <2>7. \A u : Taken(u)' = Taken(u)
    BY <1>2, <2>1 DEF Taken
  <2>8. BatchInv'
    <3>1. Done' \in 0 .. Len(Batch(shell)) /\ DOMAIN out' = Taken(Done')
      BY <2>4, <2>5, <2>6
    <3>2. pc' \in {"chunk", "solved"} /\ (pc' = "chunk" => Done' < Len(Batch(shell)))
          /\ (pc' = "solved" => Done' = Len(Batch(shell)))
      BY <2>1, <2>3, <3>1 DEF Done
    <3>3. Taken(Done)' = Taken(Done')
      BY <1>2, <2>1 DEF Taken
    <3> QED
      BY <1>2, <2>1, <2>2, <3>1, <3>2, <3>3 DEF BatchInv, Solving
  <2>9. Results'
    <3> SUFFICES ASSUME NEW p \in DOMAIN out \union DOMAIN chunk
                 PROVE  out'[p].status # NotSearched
      BY <2>1 DEF Results
    <3>1. CASE p \in DOMAIN chunk
      <4>1. out'[p] = Conclude(world[p], chunk[p], p \in active /\ reportConvgFail)
        BY <2>1, <3>1
      <4>2. Form(chunk[p]) /\ chunk[p].status # NotSearched
        BY <1>3, <3>1 DEF Tries
      <4> QED
        BY <4>1, <4>2, StatusFacts
    <3>2. CASE p \notin DOMAIN chunk
      BY <1>3, <2>1, <3>2 DEF Results
    <3> QED
      BY <3>1, <3>2
  <2>10. Tries' /\ SearchedInv'
    BY <1>2, <1>3, <2>1 DEF SearchedInv, Solving, Tries
  <2> QED
    BY <1>2, <2>8, <2>9, <2>10 DEF ProgressInv
<1>8. CASE KeepBatch
  <2>1. /\ pc = "solved" /\ pc' = "shell" /\ shell' = shell + 1 /\ out' = <<>> /\ UNCHANGED chunk
        /\ result' = [p \in Points |->
             IF p \in DOMAIN out THEN [status |-> out[p].status, u |-> out[p].u, seed |-> seeds[p], n |-> out[p].n]
             ELSE result[p]]
    BY <1>8 DEF KeepBatch
  <2>2. shell \in 1 .. LastShell /\ DOMAIN out = Part(shell)
    <3>1. shell \in 1 .. LastShell /\ Done \in 0 .. Len(Batch(shell)) /\ DOMAIN out = Taken(Len(Batch(shell)))
      BY <1>3, <2>1 DEF BatchInv, Solving
    <3> QED
      BY <1>2, <3>1, UpperFacts
  <2>3. ASSUME NEW p \in Points
        PROVE  result'[p].status # NotSearched <=> \E k \in 1 .. shell' - 1 : p \in Part(k)
    <3>1. (\E k \in 1 .. shell' - 1 : p \in Part(k)) <=> p \in Part(shell) \/ \E k \in 1 .. shell - 1 : p \in Part(k)
      BY <1>2, <2>1, <2>2
    <3>2. CASE p \in DOMAIN out
      <4>1. result'[p].status = out[p].status
        BY <2>1, <3>2
      <4> QED
        BY <1>3, <2>2, <3>1, <3>2, <4>1 DEF Results
    <3>3. CASE p \notin DOMAIN out
      <4>1. result'[p] = result[p]
        BY <2>1, <3>3
      <4> QED
        BY <1>3, <2>2, <3>1, <3>3, <4>1 DEF SearchedInv
    <3> QED
      BY <3>2, <3>3
  <2>4. SearchedInv'
    BY <1>2, <2>1, <2>2, <2>3 DEF SearchedInv
  <2>5. BatchInv' /\ Results' /\ Tries'
    BY <1>3, <2>1 DEF BatchInv, Solving, Results, Tries, Form
  <2> QED
    BY <1>2, <2>4, <2>5 DEF ProgressInv
<1>9. CASE SolveEnds
  <2>1. pc = "shell" /\ shell > LastShell /\ pc' = "done" /\ UNCHANGED <<result, shell, seeds, out, chunk>>
    BY <1>9 DEF SolveEnds, batch
  <2>2. SearchedInv'
    BY <1>2, <1>3, <2>1 DEF SearchedInv
  <2>3. BatchInv' /\ Results' /\ Tries'
    BY <1>3, <2>1 DEF BatchInv, Solving, Results, Tries, Form
  <2> QED
    BY <1>2, <2>2, <2>3 DEF ProgressInv
<1> QED
  BY <1>4, <1>5, <1>6, <1>7, <1>8, <1>9 DEF SolverNext

LEMMA ProgressStutter == ProgressInv /\ UNCHANGED solverVars => ProgressInv'
<1> SUFFICES ASSUME ProgressInv, UNCHANGED solverVars
             PROVE  ProgressInv'
  OBVIOUS
<1>1. UNCHANGED solveInputs /\ UNCHANGED <<result, shell, seeds, out, chunk, pc>>
  BY DEF solverVars, batch
<1>2. StaticInv' /\ LastShell' = LastShell /\ \A k : Batch(k)' = Batch(k) /\ Part(k)' = Part(k)
  BY <1>1, StaticStays DEF ProgressInv
<1>3. Done' = Done /\ Upper' = Upper /\ \A u : Taken(u)' = Taken(u)
  BY <1>1, <1>2 DEF Done, Upper, Taken
<1>4. BatchInv'
  BY <1>1, <1>2, <1>3 DEF ProgressInv, BatchInv, Solving
<1>5. Tries' /\ Results' /\ SearchedInv'
  BY <1>1, <1>2 DEF ProgressInv, Tries, Results, SearchedInv, Solving, Form
<1> QED
  BY <1>2, <1>4, <1>5 DEF ProgressInv

LEMMA ProgressInit == Init => ProgressInv
<1> SUFFICES ASSUME Init
             PROVE  ProgressInv
  OBVIOUS
<1>1. /\ limit \in ProcessLimits /\ order = ProcessingOrder(Given(strategy))
      /\ shells = IF strategy = "rigid" THEN <<Ascending(ToDo)>> ELSE Rings(order, Min(Given(strategy)))
      /\ neighbours = [p \in Given(strategy) |-> Nearest(Given(strategy), p)]
      /\ result = [p \in Points |-> Blank] /\ shell = 1 /\ out = <<>> /\ chunk = <<>> /\ pc = "shell"
  BY DEF Init, SolverInit
<1>2. StaticInv
  BY <1>1, SolverAssumption DEF StaticInv
<1>3. LastShell \in Nat
  BY <1>2, ShellFacts
<1>4. SearchedInv
  BY <1>1, <1>3 DEF SearchedInv, Blank
<1>5. BatchInv /\ Tries /\ Results
  BY <1>1 DEF BatchInv, Solving, Tries, Results
<1> QED
  BY <1>2, <1>4, <1>5 DEF ProgressInv

\* In the end the points with a result are those to be processed.
LEMMA DoneSearched ==
  ASSUME ProgressInv, pc = "done"
  PROVE  {p \in Points : result[p].status # NotSearched} = ToDo
<1>1. /\ \A p \in Points : result[p].status # NotSearched <=> \E k \in 1 .. LastShell : p \in Part(k)
      /\ ToDo \subseteq Points /\ UNION {Part(k) : k \in 1 .. LastShell} = ToDo
  <2>1. LastShell \in Nat /\ shell = LastShell + 1 /\ ToDo \subseteq Points /\ UNION {Part(k) : k \in 1 .. LastShell} = ToDo
    BY ShellFacts, LimitFacts DEF ProgressInv, SearchedInv
  <2>2. shell - 1 = LastShell
    BY <2>1
  <2> QED
    BY <2>1, <2>2 DEF ProgressInv, SearchedInv
<1> QED
  BY <1>1

LEMMA ProcessedFollows == ProgressInv => Processed
<1> SUFFICES ASSUME ProgressInv, pc = "done"
             PROVE  Processed
  BY DEF Processed
<1> DEFINE G == Given(strategy)
           m == Len(Order)
           n == Len(order)
           searched == {p \in Points : result[p].status # NotSearched}
<1>1. /\ m \in Nat /\ m <= n /\ n \in Nat /\ DOMAIN order = 1 .. n /\ n = Cardinality(G) /\ Range(order) = G
      /\ m = IF limit = 0 THEN Cardinality(G) ELSE Min({limit, Cardinality(G)})
      /\ ToDo = {order[i] : i \in 1 .. m} /\ ToDo \subseteq G
      /\ \A i, j \in 1 .. n : order[i] = order[j] => i = j
      /\ \A i, j \in 1 .. n : i <= j => Ring(order[i], Min(G)) <= Ring(order[j], Min(G))
  BY LimitFacts DEF ProgressInv
<1>2. searched = ToDo
  BY DoneSearched
<1>3. DOMAIN neighbours = G
  BY DEF ProgressInv, StaticInv
<1> HIDE DEF searched, G, m, n
<1>4. Cardinality(ToDo) = m
  <2>1. \A i, j \in 1 .. m : order[i] = order[j] => i = j
    BY <1>1
  <2>2. m \in Nat /\ ToDo = {order[i] : i \in 1 .. m}
    BY <1>1
  <2> HIDE DEF m
  <2>3. IsFiniteSet({order[i] : i \in 1 .. m}) /\ Cardinality({order[i] : i \in 1 .. m}) = m
    BY <2>1, <2>2, PrefixCard
  <2> QED
    BY <2>2, <2>3
<1>5. ASSUME NEW p \in ToDo, NEW q \in G \ ToDo
      PROVE  Ring(p, Min(G)) <= Ring(q, Min(G))
  <2>1. PICK i \in 1 .. m : p = order[i]
    BY <1>1
  <2>2. PICK j \in 1 .. n : q = order[j]
    BY <1>1 DEF Range
  <2>3. j > m
    <3>1. j \in 1 .. m => order[j] \in ToDo
      BY <1>1
    <3>2. j \notin 1 .. m
      BY <1>5, <2>2, <3>1
    <3> QED
      BY <1>1, <3>2
  <2>4. i \in 1 .. n /\ i <= j
    BY <1>1, <2>3
  <2> QED
    BY <1>1, <2>1, <2>2, <2>4
<1>6. Cardinality(searched) = IF limit = 0 THEN Cardinality(G) ELSE Min({limit, Cardinality(G)})
  BY <1>1, <1>2, <1>4
<1> QED
  BY <1>1, <1>2, <1>3, <1>5, <1>6 DEF Processed, searched

\* Processed: the points that are solved are as many as asked for, the nearest
\* to the start by whole shells, and no shell loses or repeats one.
THEOREM ProcessedCorrect == Spec => []Processed
<1>1. ProgressInv /\ [Next]_vars => ProgressInv'
  BY SolverSteps, ProgressSteps, ProgressStutter
<1> QED
  BY <1>1, ProcessedFollows, ProgressInit, PTL DEF Spec

(***************************************************************************)
(* Seeds.                                                                  *)
(***************************************************************************)
LEMMA NeighboursFacts ==
  ASSUME StaticInv
  PROVE  DOMAIN neighbours = Given(strategy) /\ \A p \in Given(strategy) : neighbours[p] \subseteq Points
<1> DEFINE G == Given(strategy)
<1>1. G \in SUBSET Points /\ IsFiniteSet(G) /\ Points \subseteq Int /\ \A p \in Points : Position[p] \in Int
  BY GivenFacts, PointsFacts
<1>2. neighbours = [p \in G |-> Nearest(G, p)]
  BY DEF StaticInv
<1> HIDE DEF G
<1>3. ASSUME NEW p \in G
      PROVE  Nearest(G, p) \subseteq Points
  <2> DEFINE key == [q \in G |-> Distance(p, q)]
             near == Sorted(G \ {p}, key)
             c == Min({NNeighbours, Len(near)})
  <2>1. \A q \in G : key[q] \in Int
    BY <1>1 DEF Distance, Abs
  <2>2. Keys(G \ {p}, key)
    <3>1. IsFiniteSet(G \ {p}) /\ G \ {p} \in SUBSET Int
      BY <1>1, FS_Subset
    <3> HIDE DEF key
    <3> QED
      BY <2>1, <3>1 DEF Keys
  <2>3. Nearest(G, p) = {near[i] : i \in 1 .. c}
    BY DEF Nearest
  <2> HIDE DEF key, near
  <2>4. Len(near) \in Nat /\ DOMAIN near = 1 .. Len(near) /\ near \in Seq(G \ {p})
    BY <2>2, SortedFacts DEF near
  <2>5. NNeighbours \in Nat
    BY SolverAssumption
  <2>6. c \in 0 .. Len(near)
    BY <2>4, <2>5, MinOfTwo
  <2>7. \A i \in 1 .. c : near[i] \in G
    BY <2>4, <2>6
  <2> QED
    BY <1>1, <2>3, <2>7
<1> QED
  BY <1>2, <1>3 DEF G

\* The points a seed may come from, and the seed they make.
Earlier(q, p) == q = order[1] \/ Ring(q, Min(Given(strategy))) < Ring(p, Min(Given(strategy)))
SeedGood(p)  == {q \in neighbours[p] \intersect ToDo : result[q].status = "GOOD" /\ Earlier(q, p)}
SeedFrom(p)  == IF p = order[1] \/ SeedGood(p) = {} THEN Rigid ELSE Mean([q \in SeedGood(p) |-> result[q].u])

SeedsInv ==
  /\ strategy # "rigid" =>
       /\ pc \in Solving => \A p \in Part(shell) : seeds[p] = SeedFrom(p)
       /\ \A p \in ToDo : result[p].status # NotSearched => result[p].seed = SeedFrom(p)
  /\ pc = "done" /\ strategy = "coarse" => field = [p \in Points |-> Sources(p)]

\* For points to be solved, those of earlier shells are the earlier ones.
LEMMA EarlierShell ==
  ASSUME StaticInv, strategy # "rigid", NEW j \in 1 .. LastShell, NEW k \in 1 .. LastShell,
         NEW q \in Part(j), NEW p \in Part(k)
  PROVE  /\ p # order[1] => (j < k <=> Earlier(q, p))
         /\ p = order[1] => ~(j < k)
<1> DEFINE m == Len(Order)
<1>1. /\ m \in Nat /\ m >= 1 /\ m <= Len(order) /\ Len(order) \in Nat /\ ToDo = {order[i] : i \in 1 .. m}
      /\ \A a, b \in 1 .. Len(order) : order[a] = order[b] => a = b
  BY LimitFacts
<1>2. /\ Part(j) \subseteq ToDo /\ Part(k) \subseteq ToDo
      /\ \A i, l \in 1 .. m : order[i] \in Part(j) /\ order[l] \in Part(k) =>
           /\ j < k => i < l
           /\ l # 1 => (j < k <=> i = 1 \/ Ring(order[i], Min(Given(strategy))) < Ring(order[l], Min(Given(strategy))))
  BY ShellFacts
<1> HIDE DEF m
<1>3. PICK i \in 1 .. m : q = order[i]
  BY <1>1, <1>2
<1>4. PICK l \in 1 .. m : p = order[l]
  BY <1>1, <1>2
<1>5. (q = order[1] <=> i = 1) /\ (p = order[1] <=> l = 1)
  <2>1. i \in 1 .. Len(order) /\ l \in 1 .. Len(order) /\ 1 \in 1 .. Len(order)
    BY <1>1
  <2> QED
    BY <1>1, <1>3, <1>4, <2>1
<1>6. /\ j < k => i < l
      /\ l # 1 => (j < k <=> i = 1 \/ Ring(q, Min(Given(strategy))) < Ring(p, Min(Given(strategy))))
  BY <1>2, <1>3, <1>4
<1> QED
  BY <1>3, <1>4, <1>5, <1>6 DEF Earlier

\* The seeds of a batch, when it starts.
LEMMA BatchSeeds ==
  ASSUME ProgressInv, strategy # "rigid", shell \in 1 .. LastShell, NEW p \in Part(shell)
  PROVE  SeedFromNeighbours(p, result) = SeedFrom(p)
<1> DEFINE good == {q \in neighbours[p] : result[q].status = "GOOD"}
<1>1. StaticInv /\ p \in Given(strategy) /\ LastShell \in Nat
  <2>1. StaticInv
    BY DEF ProgressInv
  <2>2. Part(shell) \subseteq ToDo /\ LastShell \in Nat
    BY <2>1, ShellFacts
  <2>3. ToDo \subseteq Given(strategy)
    BY <2>1, LimitFacts
  <2> QED
    BY <2>1, <2>2, <2>3
<1>2. neighbours[p] \subseteq Points
  BY <1>1, NeighboursFacts
<1>3. ASSUME NEW q \in good
      PROVE  q \in ToDo /\ p # order[1] /\ Earlier(q, p)
  <2>1. q \in Points /\ result[q].status # NotSearched
    BY <1>2 DEF NotSearched
  <2>2. PICK j \in 1 .. shell - 1 : q \in Part(j)
    BY <2>1 DEF ProgressInv, SearchedInv
  <2>3. j \in 1 .. LastShell /\ j < shell
    BY <1>1
  <2>4. q \in ToDo
    BY <1>1, <2>2, <2>3, ShellFacts
  <2> QED
    BY <1>1, <2>2, <2>3, <2>4, EarlierShell
<1>4. SeedFromNeighbours(p, result) = IF good = {} THEN Rigid ELSE Mean([q \in good |-> result[q].u])
  BY DEF SeedFromNeighbours
<1>5. SeedGood(p) \subseteq good /\ (p # order[1] => SeedGood(p) = good) /\ (p = order[1] => good = {})
  BY <1>3 DEF SeedGood
<1> HIDE DEF good
<1>6. CASE p = order[1]
  BY <1>4, <1>5, <1>6 DEF SeedFrom
<1>7. CASE p # order[1]
  <2>1. SeedGood(p) = good
    BY <1>5, <1>7
  <2> QED
    BY <1>4, <1>7, <2>1 DEF SeedFrom
<1> QED
  BY <1>6, <1>7

\* Keeping a batch's results changes no seed of its own shell or an earlier one.
LEMMA SeedsStay ==
  ASSUME ProgressInv, strategy # "rigid", UNCHANGED solveInputs, NEW k \in 1 .. shell, shell \in 1 .. LastShell,
         NEW p \in Part(k), \A q \in Points \ Part(shell) : result'[q] = result[q]
  PROVE  SeedFrom(p)' = SeedFrom(p)
<1>1. UNCHANGED <<order, limit, shells, strategy, neighbours>> /\ ToDo' = ToDo
  BY StaticStays DEF solveInputs
<1>2. StaticInv /\ LastShell \in Nat /\ k \in 1 .. LastShell /\ p \in ToDo
  BY ShellFacts DEF ProgressInv
<1>3. CASE p = order[1]
  BY <1>1, <1>3 DEF SeedFrom
<1>4. CASE p # order[1]
  <2>1. ASSUME NEW q \in ToDo, Earlier(q, p)
        PROVE  result'[q] = result[q]
    <3>1. PICK j \in 1 .. LastShell : q \in Part(j)
      BY <1>2, ShellFacts
    <3>2. j < k
      BY <1>2, <1>4, <2>1, <3>1, EarlierShell
    <3>3. q \notin Part(shell)
      <4>1. j # shell
        BY <3>2
      <4> QED
        BY <1>2, <3>1, <4>1, ShellFacts
    <3>4. q \in Points
      BY <1>2, LimitFacts
    <3> QED
      BY <3>3, <3>4
  <2>2. \A q : Earlier(q, p)' <=> Earlier(q, p)
    BY <1>1 DEF Earlier
  <2>3. SeedGood(p)' = SeedGood(p)
    BY <1>1, <2>1, <2>2 DEF SeedGood
  <2>4. \A q \in SeedGood(p) : result'[q].u = result[q].u
    BY <2>1 DEF SeedGood
  <2>5. [q \in SeedGood(p)' |-> result'[q].u] = [q \in SeedGood(p) |-> result[q].u]
    BY <2>3, <2>4
  <2>6. SeedFrom(p)' = IF p = order[1] \/ SeedGood(p)' = {} THEN Rigid ELSE Mean([q \in SeedGood(p)' |-> result'[q].u])
    BY <1>1 DEF SeedFrom
  <2> QED
    BY <2>3, <2>5, <2>6 DEF SeedFrom
<1> QED
  BY <1>3, <1>4

LEMMA SeedsFrame ==
  ASSUME UNCHANGED solveInputs, UNCHANGED result
  PROVE  /\ \A p : SeedFrom(p)' = SeedFrom(p) /\ Sources(p)' = Sources(p)
         /\ \A k : Part(k)' = Part(k)
         /\ ToDo' = ToDo
<1>1. UNCHANGED <<order, limit, shells, strategy, neighbours>> /\ ToDo' = ToDo /\ \A k : Part(k)' = Part(k)
  BY StaticStays DEF solveInputs
<1>2. \A p : SeedGood(p)' = SeedGood(p)
  BY <1>1 DEF SeedGood, Earlier
<1>3. \A p : SeedFrom(p)' = SeedFrom(p)
  BY <1>1, <1>2 DEF SeedFrom
<1>4. \A p : Sources(p)' = Sources(p)
  BY DEF Sources
<1> QED
  BY <1>1, <1>3, <1>4

LEMMA SeedsSteps == ProgressInv /\ SeedsInv /\ SolverNext => SeedsInv'
<1> SUFFICES ASSUME ProgressInv, SeedsInv, SolverNext
             PROVE  SeedsInv'
  OBVIOUS
<1>1. UNCHANGED solveInputs
  BY DEF SolverNext, StartShell, StartChunk, Iterate, FinishChunk, KeepBatch, SolveEnds
<1>2. UNCHANGED strategy /\ ToDo' = ToDo /\ \A k : Part(k)' = Part(k)
  BY <1>1, StaticStays DEF solveInputs
<1>3. StaticInv /\ BatchInv /\ SearchedInv /\ LastShell \in Nat /\ ToDo \subseteq Points
  BY ShellFacts, LimitFacts DEF ProgressInv
<1>4. CASE StartShell
  <2>1. pc = "shell" /\ shell \in 1 .. LastShell /\ UNCHANGED <<result, field>>
    BY <1>3, <1>4 DEF StartShell, SearchedInv
  <2>2. \A p : SeedFrom(p)' = SeedFrom(p)
    BY <1>1, <2>1, SeedsFrame
  <2>3. CASE UNCHANGED pc
    BY <1>2, <2>1, <2>2, <2>3 DEF SeedsInv, Solving
  <2>4. CASE /\ UNCHANGED shell /\ pc' = "chunk"
             /\ seeds' = [p \in ToSet(Batch(shell)) |-> IF strategy = "rigid" THEN Rigid ELSE SeedFromNeighbours(p, result)]
    <3>1. ToSet(Batch(shell)) = Part(shell)
      BY DEF ToSet, Part, Range
    <3>2. ASSUME strategy # "rigid", NEW p \in Part(shell)
          PROVE  seeds'[p] = SeedFrom(p)
      <4>1. seeds'[p] = SeedFromNeighbours(p, result)
        BY <2>4, <3>1, <3>2
      <4> QED
        BY <2>1, <3>2, <4>1, BatchSeeds
    <3>3. pc' # "done"
      BY <2>4
    <3>4. Part(shell)' = Part(shell)
      BY <1>2, <2>4
    <3> QED
      BY <1>2, <2>1, <2>2, <3>2, <3>3, <3>4 DEF SeedsInv
  <2> QED
    BY <1>4, <2>3, <2>4 DEF StartShell
<1>5. CASE StartChunk \/ Iterate \/ FinishChunk
  <2>1. pc \in Solving /\ pc' \in Solving /\ UNCHANGED <<result, seeds, shell, field>>
    BY <1>5 DEF StartChunk, Iterate, FinishChunk, Solving
  <2>2. \A p : SeedFrom(p)' = SeedFrom(p)
    BY <1>1, <2>1, SeedsFrame
  <2>3. pc' # "done" /\ Part(shell)' = Part(shell)
    BY <1>2, <2>1 DEF Solving
  <2> QED
    BY <1>2, <2>1, <2>2, <2>3 DEF SeedsInv
<1>6. CASE KeepBatch
  <2>1. /\ pc = "solved" /\ pc' = "shell"
        /\ result' = [p \in Points |->
             IF p \in DOMAIN out THEN [status |-> out[p].status, u |-> out[p].u, seed |-> seeds[p], n |-> out[p].n]
             ELSE result[p]]
    BY <1>6 DEF KeepBatch
  <2>2. shell \in 1 .. LastShell /\ DOMAIN out = Part(shell)
    <3>1. shell \in 1 .. LastShell /\ Done \in 0 .. Len(Batch(shell)) /\ DOMAIN out = Taken(Len(Batch(shell)))
      BY <1>3, <2>1 DEF BatchInv, Solving
    <3> QED
      BY <1>3, <3>1, UpperFacts
  <2>3. \A q \in Points \ Part(shell) : result'[q] = result[q]
    BY <2>1, <2>2
  <2>4. ASSUME strategy # "rigid", NEW p \in ToDo, result'[p].status # NotSearched
        PROVE  result'[p].seed = SeedFrom(p)'
    <3>1. CASE p \in Part(shell)
      <4>1. result'[p].seed = seeds[p]
        BY <1>3, <2>1, <2>2, <3>1
      <4>2. seeds[p] = SeedFrom(p)
        BY <2>1, <2>4, <3>1 DEF SeedsInv, Solving
      <4>3. SeedFrom(p)' = SeedFrom(p)
        BY <1>1, <2>2, <2>3, <2>4, <3>1, SeedsStay
      <4> QED
        BY <4>1, <4>2, <4>3
    <3>2. CASE p \notin Part(shell)
      <4>1. result'[p] = result[p]
        BY <1>3, <2>3, <3>2
      <4>2. PICK k \in 1 .. shell - 1 : p \in Part(k)
        BY <1>3, <2>4, <4>1 DEF SearchedInv
      <4>3. k \in 1 .. shell
        BY <2>2
      <4>4. SeedFrom(p)' = SeedFrom(p)
        BY <1>1, <2>2, <2>3, <2>4, <4>2, <4>3, SeedsStay
      <4> QED
        BY <2>4, <4>1, <4>4 DEF SeedsInv
    <3> QED
      BY <3>1, <3>2
  <2> QED
    BY <1>2, <2>1, <2>4 DEF SeedsInv, Solving
<1>7. CASE SolveEnds
  <2>1. /\ pc = "shell" /\ pc' = "done" /\ UNCHANGED result
        /\ field' = IF strategy = "coarse" THEN [p \in Points |-> Sources(p)] ELSE field
    BY <1>7 DEF SolveEnds
  <2>2. \A p : SeedFrom(p)' = SeedFrom(p) /\ Sources(p)' = Sources(p)
    BY <1>1, <2>1, SeedsFrame
  <2> QED
    BY <1>2, <2>1, <2>2 DEF SeedsInv, Solving
<1> QED
  BY <1>4, <1>5, <1>6, <1>7 DEF SolverNext

LEMMA SeedsStutter == SeedsInv /\ UNCHANGED solverVars => SeedsInv'
<1> SUFFICES ASSUME SeedsInv, UNCHANGED solverVars
             PROVE  SeedsInv'
  OBVIOUS
<1>1. UNCHANGED solveInputs /\ UNCHANGED <<result, shell, seeds, field, pc, strategy>>
  BY DEF solverVars, batch, solveInputs
<1>2. /\ \A p : SeedFrom(p)' = SeedFrom(p) /\ Sources(p)' = Sources(p)
      /\ Part(shell)' = Part(shell) /\ ToDo' = ToDo
  BY <1>1, SeedsFrame
<1> QED
  BY <1>1, <1>2 DEF SeedsInv

LEMMA SeedsInit == Init => SeedsInv
<1> SUFFICES ASSUME Init
             PROVE  SeedsInv
  OBVIOUS
<1>1. result = [p \in Points |-> Blank] /\ pc = "shell"
  BY DEF Init, SolverInit
<1>2. ToDo \subseteq Points
  BY ProgressInit, LimitFacts DEF ProgressInv
<1> QED
  BY <1>1, <1>2 DEF SeedsInv, Solving, Blank

\* The coarse points a seed is interpolated from.
LEMMA SourcesFacts ==
  ASSUME NEW p \in Points
  PROVE  /\ \A q \in Sources(p) : q \in CoarseSubset /\ result[q].status = "GOOD"
         /\ p \in CoarseSubset /\ result[p].status = "GOOD" => \A q \in Sources(p) : Distance(p, q) = 0
<1> DEFINE good  == {q \in CoarseSubset : result[q].status = "GOOD"}
           exact == {q \in good : Distance(p, q) = 0}
           key   == [q \in good |-> Distance(p, q)]
           near  == Sorted(good, key)
           n     == Cardinality(good)
           c     == Min({8, Len(near)})
<1>1. good \in SUBSET Points /\ IsFiniteSet(good) /\ good \in SUBSET Int
  <2>1. CoarseSubset \subseteq Points
    BY DEF CoarseSubset
  <2> QED
    BY <2>1, PointsFacts, FS_Subset
<1>2. \A q \in good : key[q] = Distance(p, q) /\ key[q] \in Int /\ key[q] >= 0
  <2>1. \A q \in good : key[q] = Distance(p, q)
    OBVIOUS
  <2>2. \A q \in good : Position[q] \in Int
    BY <1>1, PointsFacts
  <2>3. Position[p] \in Int
    BY PointsFacts
  <2> HIDE DEF good, key
  <2> QED
    BY <2>1, <2>2, <2>3 DEF Distance, Abs
<1>3. Sources(p) = IF exact # {} THEN {near[1]} ELSE {near[i] : i \in 1 .. c}
  BY DEF Sources
<1>4. \A q \in good : q \in CoarseSubset /\ result[q].status = "GOOD"
  OBVIOUS
<1>5. /\ exact # {} => good # {}
      /\ p \in CoarseSubset /\ result[p].status = "GOOD" => p \in good /\ exact # {} /\ key[p] = 0
  <2>1. Distance(p, p) = 0
    BY PointsFacts DEF Distance, Abs
  <2> QED
    BY <2>1
<1>6. Keys(good, key)
  BY <1>1, <1>2 DEF Keys
<1> HIDE DEF good, exact, key, near, n, c
<1>7. /\ n \in Nat /\ Len(near) = n /\ DOMAIN near = 1 .. n /\ near \in Seq(good)
      /\ \A i, j \in 1 .. n : i < j <=> Less(key, near[i], near[j])
      /\ \A q \in good : \E i \in 1 .. n : near[i] = q
  BY <1>6, SortedFacts DEF near, n
<1>8. \A i \in 1 .. n : near[i] \in good
  BY <1>7
<1>9. exact # {} => 1 \in 1 .. n
  BY <1>5, <1>7
<1>10. c \in 0 .. n
  BY <1>7, MinOfTwo DEF c
<1>11. \A q \in Sources(p) : q \in good
  BY <1>3, <1>7, <1>8, <1>9, <1>10
<1>12. ASSUME p \in CoarseSubset, result[p].status = "GOOD", NEW q \in Sources(p)
       PROVE  Distance(p, q) = 0
  <2>1. p \in good /\ key[p] = 0 /\ q = near[1] /\ 1 \in 1 .. n /\ q \in good
    BY <1>3, <1>5, <1>9, <1>11, <1>12
  <2>2. PICK i \in 1 .. n : near[i] = p
    BY <1>7, <2>1
  <2>3. key[q] \in Int /\ key[q] >= 0 /\ key[q] = Distance(p, q)
    BY <1>2, <2>1
  <2>4. CASE i = 1
    BY <2>1, <2>2, <2>3, <2>4
  <2>5. CASE i # 1
    <3>1. Less(key, q, p)
      BY <1>7, <2>1, <2>2, <2>5
    <3> QED
      BY <2>1, <2>3, <3>1 DEF Less
  <2> QED
    BY <2>4, <2>5
<1> QED
  BY <1>4, <1>11, <1>12

LEMMA SeedOriginFollows == ProgressInv /\ SeedsInv => SeedOrigin
<1> SUFFICES ASSUME ProgressInv, SeedsInv, pc = "done"
             PROVE  SeedOrigin
  BY DEF SeedOrigin
<1>1. DOMAIN neighbours = Given(strategy) /\ ToDo \subseteq Points /\ ToDo \subseteq Given(strategy)
  BY NeighboursFacts, LimitFacts DEF ProgressInv
<1>2. \A p \in Points : result[p].status # NotSearched <=> p \in ToDo
  BY <1>1, DoneSearched
<1>3. ASSUME strategy # "rigid", NEW p \in ToDo
      PROVE  result[p].seed = SeedFrom(p)
  BY <1>1, <1>2, <1>3 DEF SeedsInv
<1>4. ASSUME strategy = "coarse", NEW p \in Points
      PROVE  /\ \A q \in field[p] : result[q].status = "GOOD"
             /\ result[p].status = "GOOD" => \A q \in field[p] : Distance(p, q) = 0
  <2>1. field[p] = Sources(p)
    BY <1>4 DEF SeedsInv
  <2>2. result[p].status = "GOOD" => p \in CoarseSubset
    <3>1. Given(strategy) = CoarseSubset
      BY <1>4 DEF Given
    <3> QED
      BY <1>1, <1>2, <3>1 DEF NotSearched
  <2> QED
    BY <2>1, <2>2, SourcesFacts
<1>5. SeedOrigin <=>
        /\ strategy # "rigid" => \A p \in ToDo : result[p].seed = SeedFrom(p)
        /\ strategy = "coarse" => \A p \in Points :
             /\ \A q \in field[p] : result[q].status = "GOOD"
             /\ result[p].status = "GOOD" => \A q \in field[p] : Distance(p, q) = 0
  BY <1>1 DEF SeedOrigin, SeedFrom, SeedGood, Earlier
<1> QED
  BY <1>3, <1>4, <1>5

\* SeedOrigin: seeds come from the GOOD points of earlier shells, as they are in
\* the end, and the seed field from GOOD coarse points.
THEOREM SeedOriginCorrect == Spec => []SeedOrigin
<1> DEFINE IInv == ProgressInv /\ SeedsInv
<1>1. IInv /\ [Next]_vars => IInv'
  BY SolverSteps, ProgressSteps, ProgressStutter, SeedsSteps, SeedsStutter
<1>2. Init => IInv
  BY ProgressInit, SeedsInit
<1>3. IInv => SeedOrigin
  BY SeedOriginFollows
<1> QED
  BY <1>1, <1>2, <1>3, PTL DEF Spec

(***************************************************************************)
(* What the drop-in prints and writes.                                     *)
(***************************************************************************)

Lines == [count : Nat, point : Points, code : DOMAIN Codes \union {NotSearched}]
Line(i) == [count |-> i, point |-> Order[i], code |-> CCPiCode(result[Order[i]].status)]

\* The points with a result are the first of the order; those whose lines are
\* not out are the last of these.
PrintInv ==
  /\ caller \in {"dropin", "stage"} /\ (caller = "dropin" => strategy = "wavefront")
  /\ toPrint # <<>> => at = "print"
  /\ at = "print" => caller = "dropin"
  /\ caller = "dropin" =>
       /\ count \in Nat /\ toPrint \in Seq(Points)
       /\ \A i \in DOMAIN Order : result[Order[i]].status # NotSearched <=> i <= count + Len(toPrint)
       /\ \A i \in 1 .. Len(toPrint) : count + i \in DOMAIN Order /\ toPrint[i] = Order[count + i]
  /\ caller = "stage" => lines = <<>>
  /\ lines \in Seq(Lines)
  /\ caller = "dropin" => Len(lines) <= count /\ (saying /\ reader => Len(lines) = count)
  /\ \A i \in DOMAIN lines : i \in DOMAIN Order /\ result[Order[i]].status # NotSearched /\ lines[i] = Line(i)

\* The points of a batch follow those of the batches before it.
LEMMA RankedBatch ==
  ASSUME ProgressInv, strategy # "rigid", shell \in 1 .. LastShell, NEW c \in Nat,
         \A i \in DOMAIN Order : result[Order[i]].status # NotSearched <=> i <= c
  PROVE  LET r == Ranked(Part(shell)) IN
         /\ Len(r) \in Nat /\ DOMAIN r = 1 .. Len(r) /\ r \in Seq(Points)
         /\ \A i \in 1 .. Len(r) : c + i \in DOMAIN Order /\ r[i] = Order[c + i]
         /\ \A i \in DOMAIN Order : Order[i] \in Part(shell) <=> i \in c + 1 .. c + Len(r)
<1> DEFINE r == Ranked(Part(shell))
           m == Len(Order)
           J == {i \in DOMAIN Order : Order[i] \in Part(shell)}
           n == Cardinality(J)
<1>1. StaticInv /\ SearchedInv
  BY DEF ProgressInv
<1>2. /\ m \in Nat /\ DOMAIN Order = 1 .. m /\ \A i \in 1 .. m : Order[i] = order[i]
      /\ ToDo = {order[i] : i \in 1 .. m} /\ ToDo \subseteq Points
  BY <1>1, LimitFacts
<1>3. /\ UNION {Part(k) : k \in 1 .. LastShell} = ToDo /\ LastShell \in Nat
      /\ \A j, k \in 1 .. LastShell : j # k => Part(j) \intersect Part(k) = {}
      /\ \A j, k \in 1 .. LastShell : \A i, l \in 1 .. m : order[i] \in Part(j) /\ order[l] \in Part(k) => (j < k => i < l)
  BY <1>1, ShellFacts
<1>4. \A i \in 1 .. m : Order[i] \in Points
  BY <1>2
<1>5. J \in SUBSET Int /\ IsFiniteSet(J) /\ J \subseteq 1 .. m /\ \A i \in 1 .. m : i \in J <=> Order[i] \in Part(shell)
  <2>1. IsFiniteSet(1 .. m)
    BY <1>2, FS_Interval
  <2> QED
    BY <1>2, <2>1, FS_Subset
<1>6. r = At(Order, J)
  BY DEF Ranked
<1> HIDE DEF m, r, J, n
<1>7. ASSUME NEW i \in J
      PROVE  i > c
  <2>1. i \in 1 .. m /\ Order[i] \in Part(shell) /\ Order[i] \in Points
    BY <1>4, <1>5
  <2>2. result[Order[i]].status = NotSearched
    <3>1. \A k \in 1 .. shell - 1 : Order[i] \notin Part(k)
      BY <1>3, <2>1
    <3> QED
      BY <1>1, <2>1, <3>1 DEF SearchedInv
  <2> QED
    BY <1>2, <2>1, <2>2
<1>8. ASSUME NEW i \in J, NEW l \in c + 1 .. i
      PROVE  l \in J
  <2>1. i \in 1 .. m /\ l \in 1 .. m /\ l <= i
    <3>1. i \in 1 .. m
      BY <1>5
    <3> QED
      BY <1>2, <3>1
  <2>2. order[l] = Order[l] /\ order[i] = Order[i] /\ order[l] \in ToDo /\ order[l] \in Points
    BY <1>2, <2>1
  <2>3. PICK k \in 1 .. LastShell : order[l] \in Part(k)
    BY <1>3, <2>2
  <2>4. ~(k < shell)
    <3>1. result[Order[l]].status = NotSearched
      BY <1>2, <2>1
    <3> QED
      BY <1>1, <1>3, <2>2, <2>3, <3>1 DEF SearchedInv
  <2>5. ~(shell < k)
    <3>1. order[i] \in Part(shell)
      BY <1>5, <2>1, <2>2
    <3> QED
      BY <1>3, <2>1, <2>3, <3>1
  <2>6. k = shell
    BY <1>3, <2>3, <2>4, <2>5
  <2> QED
    BY <1>5, <2>1, <2>2, <2>3, <2>6
<1>9. n \in Nat /\ J = c + 1 .. c + n
  BY <1>5, <1>7, <1>8, IntervalSet DEF n
<1>10. /\ Len(r) = n /\ DOMAIN r = 1 .. n /\ \A j \in 1 .. n : r[j] = Order[Ascending(J)[j]]
       /\ r \in Seq(Points)
  <2>1. /\ Len(r) = n /\ DOMAIN r = 1 .. n /\ \A j \in 1 .. n : r[j] = Order[Ascending(J)[j]]
        /\ \A S : (\A i \in J : Order[i] \in S) => r \in Seq(S)
    BY <1>5, <1>6, AtFacts DEF n
  <2> QED
    BY <1>4, <1>5, <2>1
<1>11. ASSUME NEW i \in 1 .. n
       PROVE  c + i \in DOMAIN Order /\ r[i] = Order[c + i]
  <2>1. Ascending(c + 1 .. c + n)[i] = c + i
    <3>1. c + n \in Int /\ c \in Int /\ (c + n) - c = n
      BY <1>9
    <3> QED
      BY <3>1, AscendingInterval
  <2>2. c + i \in J
    BY <1>9
  <2> QED
    BY <1>2, <1>5, <1>9, <1>10, <2>1, <2>2
<1>12. \A i \in DOMAIN Order : Order[i] \in Part(shell) <=> i \in c + 1 .. c + n
  BY <1>2, <1>5, <1>9
<1> QED
  BY <1>9, <1>10, <1>11, <1>12 DEF r

LEMMA PrintInit == Init => PrintInv
<1> SUFFICES ASSUME Init
             PROVE  PrintInv
  OBVIOUS
<1>1. /\ caller \in {"dropin", "stage"} /\ (caller = "dropin" => strategy = "wavefront")
      /\ at = "prepare" /\ toPrint = <<>> /\ lines = <<>> /\ count = 0 /\ result = [p \in Points |-> Blank]
  BY DEF Init, SolverInit
<1>2. \A i \in DOMAIN Order : Order[i] \in Points /\ i >= 1
  <2>1. /\ Len(Order) \in Nat /\ DOMAIN Order = 1 .. Len(Order) /\ \A i \in 1 .. Len(Order) : Order[i] = order[i]
        /\ ToDo = {order[i] : i \in 1 .. Len(Order)} /\ ToDo \subseteq Points
    BY ProgressInit, LimitFacts DEF ProgressInv
  <2> QED
    BY <2>1
<1>3. \A i \in DOMAIN Order : result[Order[i]].status # NotSearched <=> i <= count + Len(toPrint)
  BY <1>1, <1>2 DEF Blank
<1> QED
  BY <1>1, <1>3 DEF PrintInv

\* Most steps neither solve nor print.
LEMMA PrintFrame ==
  ASSUME PrintInv, UNCHANGED <<solveInputs, result, caller, toPrint, lines, count>>, saying' /\ reader' => saying /\ reader,
         toPrint # <<>> => at' = "print", at' = "print" => caller = "dropin"
  PROVE  PrintInv'
<1>1. UNCHANGED <<strategy, Order>>
  BY StaticStays DEF solveInputs
<1>2. \A i : Line(i)' = Line(i)
  BY <1>1 DEF Line
<1>3. Lines' = Lines
  BY DEF Lines
<1> QED
  BY <1>1, <1>2, <1>3 DEF PrintInv

LEMMA PrintSteps == ProgressInv /\ PrintInv /\ [Next]_vars => PrintInv'
<1> SUFFICES ASSUME ProgressInv, PrintInv, [Next]_vars
             PROVE  PrintInv'
  OBVIOUS
<1>1. CASE Prepare \/ Header \/ Upload \/ Reported \/ WriteOutputs \/ ReplaceStat \/ ReplaceDisp \/ ReaderLeaves \/ Kill
           \/ UNCHANGED vars
  <2>1. UNCHANGED <<solveInputs, result, caller, toPrint, lines, count>>
    BY <1>1 DEF Prepare, Header, Upload, Reported, WriteOutputs, ReplaceStat, ReplaceDisp, ReaderLeaves, Kill, vars,
                runVars, solverVars
  <2>2. saying' /\ reader' => saying /\ reader
    BY <1>1 DEF Prepare, Header, Upload, Reported, WriteOutputs, ReplaceStat, ReplaceDisp, ReaderLeaves, Kill, vars, runVars
  <2>3. (toPrint # <<>> => at' = "print") /\ (at' = "print" => caller = "dropin")
    BY <1>1 DEF PrintInv, Prepare, Header, Upload, Reported, WriteOutputs, ReplaceStat, ReplaceDisp, ReaderLeaves, Kill,
                vars, runVars, Fail
  <2> QED
    BY <2>1, <2>2, <2>3, PrintFrame
<1>2. CASE Solve
  <2>1. pc # "solved" /\ SolverNext /\ at = "solve" /\ at' \in {"write", "solve"}
        /\ UNCHANGED <<caller, toPrint, lines, count, reader, saying>>
    BY <1>2 DEF Solve
  <2>2. UNCHANGED <<solveInputs, result>>
    BY <2>1 DEF SolverNext, StartShell, StartChunk, Iterate, FinishChunk, KeepBatch, SolveEnds
  <2>3. toPrint = <<>> /\ at' # "print"
    BY <2>1 DEF PrintInv
  <2> QED
    BY <2>1, <2>2, <2>3, PrintFrame
<1>3. CASE Solved
  <2>1. /\ pc = "solved" /\ at = "solve" /\ KeepBatch /\ UNCHANGED <<solveInputs, caller, lines, count, reader, saying>>
        /\ IF caller = "dropin" THEN toPrint' = Ranked(DOMAIN out) /\ at' = "print" ELSE UNCHANGED <<toPrint, at>>
        /\ result' = [p \in Points |->
             IF p \in DOMAIN out THEN [status |-> out[p].status, u |-> out[p].u, seed |-> seeds[p], n |-> out[p].n]
             ELSE result[p]]
    BY <1>3 DEF Solved, KeepBatch
  <2>2. UNCHANGED <<strategy, Order>> /\ toPrint = <<>> /\ Lines' = Lines
    BY <2>1, StaticStays DEF PrintInv, solveInputs, Lines
  <2>3. /\ DOMAIN Order = 1 .. Len(Order) /\ Len(Order) \in Nat /\ \A i \in DOMAIN Order : Order[i] \in Points
    <3>1. /\ Len(Order) \in Nat /\ DOMAIN Order = 1 .. Len(Order) /\ \A i \in 1 .. Len(Order) : Order[i] = order[i]
          /\ ToDo = {order[i] : i \in 1 .. Len(Order)} /\ ToDo \subseteq Points
      BY LimitFacts DEF ProgressInv
    <3> QED
      BY <3>1
  <2>4. CASE caller = "stage"
    <3>1. lines = <<>> /\ lines' = <<>> /\ toPrint' = <<>> /\ at' # "print" /\ caller' = "stage"
      BY <2>1, <2>2, <2>4 DEF PrintInv
    <3> QED
      BY <2>1, <3>1 DEF PrintInv
  <2>5. CASE caller = "dropin"
    <3>1. strategy # "rigid" /\ count \in Nat /\ Len(toPrint) = 0 /\ count + 0 = count
      BY <2>2, <2>5 DEF PrintInv
    <3>2. shell \in 1 .. LastShell /\ DOMAIN out = Part(shell) /\ \A p \in Part(shell) : out[p].status # NotSearched
      <4>1. shell \in 1 .. LastShell /\ Done \in 0 .. Len(Batch(shell)) /\ DOMAIN out = Taken(Len(Batch(shell)))
        BY <2>1 DEF ProgressInv, BatchInv, Solving
      <4>2. DOMAIN out = Part(shell)
        BY <4>1, UpperFacts DEF ProgressInv
      <4> QED
        BY <4>1, <4>2 DEF ProgressInv, Results
    <3>3. \A i \in DOMAIN Order : result[Order[i]].status # NotSearched <=> i <= count
      BY <2>5, <3>1 DEF PrintInv
    <3> DEFINE r == Ranked(Part(shell))
    <3>4. /\ Len(r) \in Nat /\ DOMAIN r = 1 .. Len(r) /\ r \in Seq(Points)
          /\ \A i \in 1 .. Len(r) : count + i \in DOMAIN Order /\ r[i] = Order[count + i]
          /\ \A i \in DOMAIN Order : Order[i] \in Part(shell) <=> i \in count + 1 .. count + Len(r)
      BY <3>1, <3>2, <3>3, RankedBatch
    <3>5. toPrint' = r /\ at' = "print" /\ caller' = "dropin"
      BY <2>1, <2>5, <3>2
    <3> HIDE DEF r
    <3>6. ASSUME NEW i \in DOMAIN Order
          PROVE  result'[Order[i]].status # NotSearched <=> i <= count + Len(r)
      <4>1. Order[i] \in Points /\ i \in Int
        BY <2>3
      <4>2. CASE Order[i] \in Part(shell)
        BY <2>1, <3>1, <3>2, <3>4, <4>1, <4>2
      <4>3. CASE Order[i] \notin Part(shell)
        <5>1. result'[Order[i]] = result[Order[i]]
          BY <2>1, <3>2, <4>1, <4>3
        <5>2. ~(i \in count + 1 .. count + Len(r))
          BY <3>4, <4>3
        <5> QED
          BY <3>1, <3>3, <3>4, <4>1, <5>1, <5>2
      <4> QED
        BY <4>2, <4>3
    <3>7. ASSUME NEW i \in DOMAIN lines
          PROVE  i \in DOMAIN Order /\ result'[Order[i]].status # NotSearched /\ lines[i] = Line(i)'
      <4>1. i \in DOMAIN Order /\ result[Order[i]].status # NotSearched /\ lines[i] = Line(i)
        BY DEF PrintInv
      <4>2. Order[i] \notin Part(shell) /\ Order[i] \in Points
        BY <2>3, <3>1, <3>3, <3>4, <4>1
      <4>3. result'[Order[i]] = result[Order[i]]
        BY <2>1, <3>2, <4>2
      <4>4. Line(i)' = Line(i)
        BY <2>2, <4>3 DEF Line
      <4> QED
        BY <4>1, <4>3, <4>4
    <3> QED
      BY <2>1, <2>2, <3>4, <3>5, <3>6, <3>7 DEF PrintInv
  <2> QED
    BY <2>4, <2>5 DEF PrintInv
<1>4. CASE PrintLine
  <2>1. /\ at = "print" /\ toPrint # <<>> /\ toPrint' = Tail(toPrint) /\ count' = count + 1
        /\ \/ saying /\ reader /\ UNCHANGED saying
              /\ lines' = Append(lines, [count |-> count', point |-> Head(toPrint),
                                         code |-> CCPiCode(result[Head(toPrint)].status)])
           \/ saying /\ ~reader /\ UNCHANGED lines
           \/ ~saying /\ UNCHANGED <<lines, saying>>
        /\ UNCHANGED <<solveInputs, result, caller, at, reader>>
    BY <1>4 DEF PrintLine, solverVars
  <2>2. UNCHANGED <<strategy, Order>> /\ (\A i : Line(i)' = Line(i)) /\ Lines' = Lines
    <3>1. UNCHANGED <<strategy, Order>>
      BY <2>1, StaticStays DEF solveInputs
    <3> QED
      BY <2>1, <3>1 DEF Line, Lines
  <2>3. /\ caller = "dropin" /\ count \in Nat /\ toPrint \in Seq(Points)
        /\ \A i \in DOMAIN Order : result[Order[i]].status # NotSearched <=> i <= count + Len(toPrint)
        /\ \A i \in 1 .. Len(toPrint) : count + i \in DOMAIN Order /\ toPrint[i] = Order[count + i]
        /\ lines \in Seq(Lines) /\ Len(lines) <= count /\ (saying /\ reader => Len(lines) = count)
        /\ \A i \in DOMAIN lines : i \in DOMAIN Order /\ result[Order[i]].status # NotSearched /\ lines[i] = Line(i)
    BY <2>1 DEF PrintInv
  <2> DEFINE n == Len(toPrint)
  <2>4. n \in Nat /\ n >= 1 /\ Len(toPrint') = n - 1 /\ toPrint' \in Seq(Points)
        /\ \A i \in 1 .. n - 1 : toPrint'[i] = toPrint[i + 1]
    BY <2>1, <2>3
  <2>5. Head(toPrint) = Order[count + 1] /\ count + 1 \in DOMAIN Order /\ Order[count + 1] \in Points
    <3>1. Head(toPrint) = toPrint[1] /\ 1 \in 1 .. n /\ toPrint[1] \in Points
      BY <2>3, <2>4
    <3> QED
      BY <2>3, <3>1
  <2> HIDE DEF n
  <2>6. \A i \in DOMAIN Order : result[Order[i]].status # NotSearched <=> i <= count' + Len(toPrint')
    <3>1. count' + Len(toPrint') = count + n
      <4>1. count' = count + 1 /\ count \in Nat
        BY <2>1, <2>3
      <4> QED
        BY <2>4, <4>1
    <3> QED
      BY <2>3, <3>1 DEF n
  <2>7. ASSUME NEW i \in 1 .. Len(toPrint')
        PROVE  count' + i \in DOMAIN Order /\ toPrint'[i] = Order[count' + i]
    <3>1. i + 1 \in 1 .. Len(toPrint) /\ count + (i + 1) = count' + i /\ toPrint'[i] = toPrint[i + 1]
      BY <2>1, <2>3, <2>4 DEF n
    <3> QED
      BY <2>3, <3>1
  <2>8. CASE lines' = lines
    <3>1. Len(lines) <= count + 1 /\ (saying' /\ reader' => Len(lines) = count + 1)
      BY <2>1, <2>3, <2>8
    <3> QED
      BY <2>1, <2>2, <2>3, <2>4, <2>6, <2>7, <2>8, <3>1 DEF PrintInv
  <2>9. CASE saying /\ reader /\ lines' = Append(lines, [count |-> count', point |-> Head(toPrint),
                                         code |-> CCPiCode(result[Head(toPrint)].status)])
    <3>1. Len(lines) = count
      BY <2>3, <2>9
    <3>2. lines' = Append(lines, Line(count + 1)) /\ Line(count + 1) \in Lines
      <4>1. CCPiCode(result[Head(toPrint)].status) \in DOMAIN Codes \union {NotSearched}
        BY DEF CCPiCode
      <4> QED
        BY <2>1, <2>3, <2>5, <2>9, <4>1 DEF Line, Lines
    <3>3. /\ lines' \in Seq(Lines) /\ Len(lines') = count + 1 /\ DOMAIN lines' = 1 .. count + 1
          /\ lines'[count + 1] = Line(count + 1) /\ \A i \in 1 .. count : lines'[i] = lines[i] /\ i \in DOMAIN lines
      BY <2>3, <3>1, <3>2
    <3>4. result[Order[count + 1]].status # NotSearched
      BY <2>3, <2>4, <2>5 DEF n
    <3>5. \A i \in DOMAIN lines' : i \in DOMAIN Order /\ result[Order[i]].status # NotSearched /\ lines'[i] = Line(i)
      <4> SUFFICES ASSUME NEW i \in 1 .. count + 1
                   PROVE  i \in DOMAIN Order /\ result[Order[i]].status # NotSearched /\ lines'[i] = Line(i)
        BY <3>3
      <4>1. CASE i = count + 1
        BY <2>5, <3>3, <3>4, <4>1
      <4>2. CASE i # count + 1
        <5>1. i \in 1 .. count
          BY <2>3, <4>2
        <5> QED
          BY <2>3, <3>3, <5>1
      <4> QED
        BY <4>1, <4>2
    <3> QED
      BY <2>1, <2>2, <2>3, <2>4, <2>6, <2>7, <3>3, <3>5 DEF PrintInv
  <2> QED
    BY <2>1, <2>8, <2>9
<1> QED
  BY <1>1, <1>2, <1>3, <1>4 DEF Next, Proceed

(***************************************************************************)
(* The outputs.                                                            *)
(***************************************************************************)
Counts == [s \in DOMAIN Codes |-> CountOf(s)]

FinalInv ==
  /\ DOMAIN final = Files
  /\ at \in {"write", "stat", "disp"} => pc = "done"
  /\ at = "disp" => final["stat"] = Counts
  /\ final["disp"] # None =>
       exit = "ok" /\ pc = "done" /\ final["disp"] = Rows /\ final["stat"] = Counts

LEMMA OutputFrame ==
  ASSUME UNCHANGED <<solveInputs, result>>
  PROVE  Rows' = Rows /\ Counts' = Counts /\ \A s : CountOf(s)' = CountOf(s)
<1>1. Order' = Order
  BY StaticStays DEF solveInputs
<1>2. \A s : CountOf(s)' = CountOf(s)
  BY <1>1 DEF CountOf
<1> QED
  BY <1>1, <1>2 DEF Rows, Counts

LEMMA FinalInit == Init => FinalInv
BY DEF Init, FinalInv, Files

LEMMA FinalSteps == FinalInv /\ [Next]_vars => FinalInv'
<1> SUFFICES ASSUME FinalInv, [Next]_vars
             PROVE  FinalInv'
  OBVIOUS
<1>1. CASE Prepare \/ Header \/ Upload \/ PrintLine \/ Reported \/ WriteOutputs \/ ReaderLeaves \/ Kill
  <2>1. Running /\ UNCHANGED <<solveInputs, result, pc, final>>
    BY <1>1 DEF Prepare, Header, Upload, PrintLine, Reported, WriteOutputs, ReaderLeaves, Kill, solverVars
  <2>2. at' \in {"write", "stat", "disp"} => pc = "done" /\ (at' = "disp" => at = "disp")
    BY <1>1 DEF FinalInv, Prepare, Header, Upload, PrintLine, Reported, WriteOutputs, ReaderLeaves, Kill, Fail
  <2>3. final["disp"] = None
    BY <2>1, ExitAssumption DEF FinalInv, Running
  <2> QED
    BY <2>1, <2>2, <2>3, OutputFrame DEF FinalInv
<1>2. CASE Solve \/ Solved
  <2>1. Running /\ UNCHANGED final /\ at = "solve" /\ at' \in {"solve", "write", "print"} /\ (at' = "write" => pc' = "done")
    BY <1>2 DEF Solve, Solved
  <2>2. final["disp"] = None
    BY <2>1, ExitAssumption DEF FinalInv, Running
  <2> QED
    BY <2>1, <2>2 DEF FinalInv
<1>3. CASE ReplaceStat
  <2>1. Running /\ at = "stat" /\ UNCHANGED <<solveInputs, result, pc>>
    BY <1>3 DEF ReplaceStat, solverVars
  <2>2. Counts' = Counts
    BY <2>1, OutputFrame
  <2>3. final["disp"] = None
    BY <2>1, ExitAssumption DEF FinalInv, Running
  <2>4. CASE /\ final' = [final EXCEPT !["stat"] = [s \in DOMAIN Codes |-> CountOf(s)]]
             /\ at' = "disp"
    <3>1. DOMAIN final' = Files /\ final'["stat"] = Counts /\ final'["disp"] = None
      BY <2>3, <2>4 DEF FinalInv, Files, Counts
    <3> QED
      BY <2>1, <2>2, <2>4, <3>1 DEF FinalInv
  <2>5. CASE Fault /\ Fail("stat", NoFiles) /\ UNCHANGED final
    BY <2>3, <2>5 DEF FinalInv, Fail
  <2> QED
    BY <1>3, <2>4, <2>5 DEF ReplaceStat
<1>4. CASE ReplaceDisp
  <2>1. Running /\ at = "disp" /\ UNCHANGED <<solveInputs, result, pc>>
    BY <1>4 DEF ReplaceDisp, solverVars
  <2>2. Counts' = Counts /\ Rows' = Rows
    BY <2>1, OutputFrame
  <2>3. CASE final' = [final EXCEPT !["disp"] = Rows] /\ at' = "ended" /\ exit' = "ok"
    <3>1. DOMAIN final' = Files /\ final'["stat"] = Counts /\ final'["disp"] = Rows
      BY <2>1, <2>3 DEF FinalInv, Files
    <3> QED
      BY <2>1, <2>2, <2>3, <3>1 DEF FinalInv
  <2>4. CASE Fault /\ Fail("disp", NoFiles) /\ UNCHANGED final
    <3>1. final["disp"] = None
      BY <2>1, ExitAssumption DEF FinalInv, Running
    <3> QED
      BY <2>4, <3>1 DEF FinalInv, Fail
  <2> QED
    BY <1>4, <2>3, <2>4 DEF ReplaceDisp
<1>5. CASE UNCHANGED vars
  <2>1. UNCHANGED <<solveInputs, result, pc, final, at, exit>>
    BY <1>5 DEF vars, runVars, solverVars
  <2> QED
    BY <2>1, OutputFrame DEF FinalInv
<1> QED
  BY <1>1, <1>2, <1>3, <1>4, <1>5 DEF Next, Proceed

LEMMA DispFollows == ProgressInv /\ PrintInv /\ FinalInv /\ AsAlone => DispMeansDone
<1> SUFFICES ASSUME ProgressInv, PrintInv, FinalInv, AsAlone, final["disp"] # None
             PROVE  DispMeansDone
  BY DEF DispMeansDone
<1>1. exit = "ok" /\ pc = "done" /\ final["disp"] = Rows /\ final["stat"] = Counts
  BY DEF FinalInv
<1>2. /\ \A i \in DOMAIN Order : Order[i] \in Points /\ Order[i] \in ToDo
      /\ Len(Order) \in Nat /\ DOMAIN Order = 1 .. Len(Order)
  <2>1. /\ Len(Order) \in Nat /\ DOMAIN Order = 1 .. Len(Order) /\ \A i \in 1 .. Len(Order) : Order[i] = order[i]
        /\ ToDo = {order[i] : i \in 1 .. Len(Order)} /\ ToDo \subseteq Points
    BY LimitFacts DEF ProgressInv
  <2> QED
    BY <2>1
<1>3. DOMAIN Rows = DOMAIN Order /\ \A i \in DOMAIN Order :
        /\ Rows[i].point = Order[i] /\ Rows[i].code = CCPiCode(result[Order[i]].status)
        /\ Rows[i].u = IF result[Order[i]].status = "GOOD" THEN result[Order[i]].u ELSE 0
  BY DEF Rows
<1>4. ASSUME NEW i \in DOMAIN Order
      PROVE  LET alone == Alone(world[Order[i]], result[Order[i]].seed, reportConvgFail) IN
             /\ Rows[i].point = Order[i] /\ Rows[i].code = CCPiCode(alone.status)
             /\ Rows[i].u = IF alone.status = "GOOD" THEN alone.u ELSE 0
  <2>1. result[Order[i]].status # NotSearched
    BY <1>1, <1>2, DoneSearched
  <2>2. result[Order[i]] = Alone(world[Order[i]], result[Order[i]].seed, reportConvgFail)
    BY <1>2, <2>1 DEF AsAlone
  <2> QED
    BY <1>3, <2>2
<1>5. Counts # None
  <2>1. ASSUME NEW s \in DOMAIN Codes
        PROVE  CountOf(s) \in Nat
    <3>1. IsFiniteSet(1 .. Len(Order))
      BY <1>2, FS_Interval
    <3>2. IsFiniteSet({i \in DOMAIN Order : CCPiCode(result[Order[i]].status) = s})
      BY <1>2, <3>1, FS_Subset
    <3> QED
      BY <3>2, FS_CardinalityType DEF CountOf
  <2> QED
    BY <2>1, CountsAssumption DEF Counts
<1>6. ASSUME NEW s \in DOMAIN Codes
      PROVE  Counts[s] = Cardinality({i \in DOMAIN Order : Rows[i].code = s})
  <2>1. {i \in DOMAIN Order : Rows[i].code = s} = {i \in DOMAIN Order : CCPiCode(result[Order[i]].status) = s}
    BY <1>3
  <2> QED
    BY <2>1 DEF Counts, CountOf
<1>7. ASSUME NEW i \in DOMAIN lines
      PROVE  lines[i] = [count |-> i, point |-> Order[i], code |-> Rows[i].code]
  <2>1. i \in DOMAIN Order /\ lines[i] = Line(i)
    BY DEF PrintInv
  <2> QED
    BY <1>3, <2>1 DEF Line
<1> HIDE DEF Rows, Counts
<1> QED
  BY <1>1, <1>3, <1>4, <1>5, <1>6, <1>7 DEF DispMeansDone

\* DispMeansDone: a new .disp is that of a finished run, with the .stat that
\* counts it and the lines that told of it, and each of its rows is the point's
\* result solved alone.
THEOREM DispMeansDoneCorrect == Spec => []DispMeansDone
<1> DEFINE IInv == SolverInv /\ AloneInv /\ ProgressInv /\ PrintInv /\ FinalInv
<1>1. IInv /\ [Next]_vars => IInv'
  BY NextSolverInv, NextAloneInv, SolverSteps, ProgressSteps, ProgressStutter, PrintSteps, FinalSteps
<1>2. Init => IInv
  BY SolverInitInv, InitAloneInv, ProgressInit, PrintInit, FinalInit
<1>3. IInv => DispMeansDone
  BY DispFollows DEF AloneInv
<1> QED
  BY <1>1, <1>2, <1>3, PTL DEF Spec
=============================================================================
