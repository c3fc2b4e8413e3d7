------------------------------- MODULE Checks -------------------------------
(***************************************************************************)
(* zvdvc check: the suite a developer runs on a machine of their own.  A   *)
(* tier is a list of steps; what they measure is compared with the         *)
(* machine's baseline, a document whose reference arrays lie apart from    *)
(* it, under the output root, which several may share.  An update records  *)
(* the run as the new baseline.  Checks are run at places: a machine may   *)
(* have several, with one document between them.                           *)
(*                                                                         *)
(* What a step measures follows from the code it runs: position is where   *)
(* the displacements of the case A grid are, in units of ARRAY_DU_MAX, as  *)
(* are CCPi's results; a digest of an array is the array.                  *)
(***************************************************************************)
EXTENDS Integers, Sequences, FiniteSets, SequencesExt, FiniteSetsExt, TLC

CONSTANTS
  Places,
  Host,        \* of each place, its machine
  Revisions,   \* a sequence of [tests, selftest, kernelExact, position, micros, cv, seconds]
  Bias,        \* of each machine: how far its arithmetic moves the results
  References,  \* CCPi's results for the central grid: file -> position
  Default,     \* the one in the case A directory
  Setups,      \* set of [root, lacks, users, requests, checks, changes, kinds, campaign]: per place its output root,
               \* per machine what it is without, where checks are run by hand and what they are asked,
               \* [tier, update, reason, data, require, ccpi]; bounds: checks by hand, and what may befall
               \* them, together, each of one of the kinds
  None, Torn   \* Torn: a file that was opened, and not written

TIERS == {"quick", "gpu", "full"}
Machines == {Host[p] : p \in Places}

ASSUME ChecksAssumption ==
  /\ DOMAIN Host = Places /\ Bias \in [Machines -> Int] /\ References \in [DOMAIN References -> Int]
  /\ Default \in DOMAIN References /\ None \notin DOMAIN References
  /\ \A s \in Setups : /\ DOMAIN s.root = Places /\ s.users \subseteq Places
                       /\ s.lacks \in [Machines -> SUBSET {"gpu", "headers", "compiler"}]
                       /\ {s.checks, s.changes} \subseteq Nat
                       /\ \A q \in s.requests : q.tier \in TIERS /\ q.ccpi \in DOMAIN References \union {None}
  /\ Revisions # <<>> /\ Revisions \in Seq([tests : [cpu : Int, gpu : Int, slow : Int], selftest : BOOLEAN,
       kernelExact : BOOLEAN, position : Int, micros : Nat, cv : Nat, seconds : Nat])

VARIABLES
  setup,
  revision,    \* of the tree, which all run from
  others,      \* per machine, what others use of it: "none", "gpu" or "cpu"
  print,       \* per machine, its fingerprint: [hardware, software]
  present,     \* the references that are on disk
  baseline,    \* per machine: None, Torn or [print, metrics, arrays: name -> digest, ccpi, ref]
  stored,      \* per root: the reference arrays on disk
  latest,      \* per root: the run the symlink names, or None
  reports,     \* per run: the result its report states, or None
  job,         \* per place: None or its check
  changes

hostVars == <<setup, revision, others, print, present, changes>>
checkVars == <<hostVars, baseline, stored, latest, reports, job>>

Abs(x) == IF x < 0 THEN -x ELSE x
Root(p) == setup.root[p]
Roots == UNION {Range(s.root) : s \in Setups}

-----------------------------------------------------------------------------
(* The steps.                                                               *)

\* tests_cpu, tests_gpu and tests_slow are "tests (cpu, emulator)" and so on.
Plan(tier) ==
  CASE tier = "quick" -> <<"tests_cpu">>
    [] tier = "gpu"   -> <<"tests_cpu", "tests_gpu", "selftest">>
    [] tier = "full"  -> <<"tests_cpu", "tests_gpu", "selftest", "tests_slow", "kernel", "casea",
                           "casea_pf1", "e2e">>

\* casea.cpu, from the other engine, is recorded and compared as casea.fused is: one stands for both.
ArraysOf(step) ==
  CASE step = "casea" -> {"casea.fused"} [] step = "casea_pf1" -> {"casea_pf1.fused"} [] OTHER -> {}

NeedsCaseA(step) == step \in {"casea", "casea_pf1", "e2e"}
IsSuite(step) == step \in {"tests_cpu", "tests_gpu", "tests_slow"}

\* pytest_step: no test ran, one failed, or all passed.
Suite(n) == IF n = 0 THEN "skip" ELSE IF n < 0 THEN "fail" ELSE "pass"

\* A timing while others use the processor it is taken on is twice as long.
Slowed(t, use, by) == IF use = by THEN 2 * t ELSE t

KernelMetric(data) == IF data THEN "kernel.caseA.us" ELSE "kernel.synthetic.us"
MetricNames(step, data) ==
  CASE step = "kernel"   -> {KernelMetric(data)}
    [] step = "casea"    -> {"casea.fused.seconds", "casea.cpu.seconds", "ccpi.median"}
    [] step = "e2e"      -> {"e2e.fused.seconds"}
    [] OTHER             -> {}
IsKernel(name) == name \in {KernelMetric(d) : d \in BOOLEAN}

Value(name, r, position, use, ref) ==
  CASE IsKernel(name)                 -> Slowed(r.micros, use, "gpu")
    [] name = "casea.fused.seconds"   -> Slowed(r.seconds, use, "gpu")
    [] name = "casea.cpu.seconds"     -> Slowed(4 * r.seconds, use, "cpu")
    [] name = "e2e.fused.seconds"     -> Slowed(9 * r.seconds, use, "gpu")
    [] name = "ccpi.median"           -> Abs(position - References[ref])
MetricsOf(step, r, position, use, j, ref) ==
  [name \in MetricNames(step, j.request.data) |->
     [value |-> Value(name, r, position, use, ref), cv |-> IF IsKernel(name) THEN r.cv ELSE 0]]

Position(r, p) == r.position + Bias[Host[p]]

\* dict.update.
Updated(f, g) == [x \in DOMAIN f \union DOMAIN g |-> IF x \in DOMAIN g THEN g[x] ELSE f[x]]

\* _ccpi_reference: the one asked for, else the baseline's if it is still there, else the default.
Reference(j) ==
  IF j.request.ccpi # None THEN j.request.ccpi
  ELSE IF j.doc # None /\ j.doc.ccpi \in present THEN j.doc.ccpi ELSE Default

\* compare_with_baseline_arrays: arrays that are gone are passed over, in silence; a torn one raises.
ArraysAgree(step, j, p, r) ==
  j.doc # None => \A n \in ArraysOf(step) \intersect DOMAIN j.doc.arrays \intersect DOMAIN stored[Root(p)] :
    stored[Root(p)][n] # Torn /\ Abs(Position(r, p) - stored[Root(p)][n]) <= 1

\* The grid's steps raise without the reference; the step on all points asks for none.
StepStatus(step, j, p, r) ==
  CASE step = "tests_cpu"  -> Suite(r.tests.cpu)
    [] step = "tests_gpu"  -> Suite(r.tests.gpu)
    [] step = "tests_slow" -> Suite(r.tests.slow)
    [] step = "selftest"   -> IF r.selftest THEN "pass" ELSE "fail"
    [] step = "kernel"     -> IF r.kernelExact THEN "pass" ELSE "fail"
    [] NeedsCaseA(step)    -> IF ~j.request.data THEN "skip"
                              ELSE IF ArraysOf(step) # {} /\ Reference(j) \notin present THEN "fail"
                              ELSE IF ArraysAgree(step, j, p, r) THEN "pass" ELSE "fail"

-----------------------------------------------------------------------------
(* The comparison.                                                          *)

\* PERF_LIMITS, in percent.
Limits(name) == IF IsKernel(name) THEN [warn |-> 20, fail |-> 40] ELSE [warn |-> 25, fail |-> 50]
IsTiming(name) == IsKernel(name) \/ name \in {"casea.fused.seconds", "casea.cpu.seconds", "e2e.fused.seconds"}

Slower(v, b, limit, least) == v * 100 > b * (100 + Max({limit, least}))

Timing(name, v, base, j) ==
  LET noise == 3 * base.cv lim == Limits(name) IN
  CASE j.print.hardware # j.doc.print.hardware       -> "skip"
    [] j.gpuBusy                                     -> "skip"
    [] j.cpuBusy /\ name = "casea.cpu.seconds"       -> "skip"
    [] Slower(v, base.value, lim.fail, 2 * noise)    -> "fail"
    [] Slower(v, base.value, lim.warn, noise)        -> "warn"
    [] OTHER                                         -> "pass"

\* CCPI_SLACK: 0.005 voxel.  The p95 and the statuses are judged likewise.
Verdict(name, v, j) ==
  IF name \notin DOMAIN j.doc.metrics THEN "skip"
  ELSE LET base == j.doc.metrics[name] IN
       CASE IsTiming(name)                  -> Timing(name, v, base, j)
         [] name = "ccpi.median"            -> IF v > base.value + 5 THEN "fail" ELSE "pass"

\* bitwise_findings, by the digests of the document.
Bitwise(j) ==
  {IF j.arrays[n] = j.doc.arrays[n] THEN "pass"
   ELSE IF j.print.software = j.doc.print.software THEN "warn" ELSE "note" :
     n \in DOMAIN j.arrays \intersect DOMAIN j.doc.arrays}

Findings(j) ==
  IF j.doc = None THEN {"skip"}
  ELSE {Verdict(name, j.metrics[name].value, j) : name \in DOMAIN j.metrics} \union Bitwise(j)

\* Mutant: what a step found by itself is not looked at.
OverallOfFindings(j) ==
  LET all == j.found \union Findings(j) IN
  IF "fail" \in all \/ (j.skipped /\ j.request.require) THEN "FAIL"
  ELSE IF "warn" \in all THEN "WARN" ELSE IF j.skipped THEN "PASS (partial)" ELSE "PASS"

Overall(j) ==
  LET all == j.statuses \union j.found \union Findings(j) IN
  IF "fail" \in all \/ (j.skipped /\ j.request.require) THEN "FAIL"
  ELSE IF "warn" \in all THEN "WARN" ELSE IF j.skipped THEN "PASS (partial)" ELSE "PASS"

-----------------------------------------------------------------------------
(* A check.                                                                 *)

ChecksInit ==
  /\ setup \in Setups /\ revision = 1 /\ changes = 0 /\ present = DOMAIN References
  /\ others = [m \in Machines |-> "none"]
  /\ print = [m \in Machines |-> [hardware |-> 0, software |-> 0]]
  /\ baseline = [m \in Machines |-> None]
  /\ stored = [r \in Roots |-> <<>>] /\ latest = [r \in Roots |-> None]
  /\ reports = <<>> /\ job = [p \in Places |-> None]

Changed(kind) == kind \in setup.kinds /\ changes < setup.changes /\ changes' = changes + 1

At(p, pc) == job[p] # None /\ job[p].pc = pc
Set(p, j) == job' = [job EXCEPT ![p] = j]

\* What a check sees others use: another check of the machine counts among them.
Uses(p) ==
  {others[Host[p]]} \union
    (IF \E q \in Places \ {p} : Host[q] = Host[p] /\ job[q] # None THEN {"gpu", "cpu"} ELSE {})

Begin(p, q, id) ==
  /\ job[p] = None
  /\ reports' = [i \in DOMAIN reports \union {id} |-> IF i = id THEN None ELSE reports[i]]
  /\ Set(p, [pc |-> "unlink", id |-> id, request |-> q, revision |-> revision, doc |-> None,
             print |-> print[Host[p]], gpuBusy |-> FALSE, cpuBusy |-> FALSE, todo |-> <<>>, statuses |-> {},
             found |-> {}, skipped |-> FALSE, held |-> {}, metrics |-> <<>>, arrays |-> <<>>, ref |-> None,
             intact |-> TRUE, digests |-> <<>>, result |-> None])
  /\ UNCHANGED <<hostVars, baseline, stored, latest>>

\* `latest` is removed if it is there, then made; it raises when another check made it first.
Unlink(p) ==
  /\ At(p, "unlink")
  /\ latest' = [latest EXCEPT ![Root(p)] = None] /\ Set(p, [job[p] EXCEPT !.pc = "symlink"])
  /\ UNCHANGED <<hostVars, baseline, stored, reports>>

Symlink(p) ==
  /\ At(p, "symlink")
  /\ \/ /\ latest[Root(p)] = None
        /\ latest' = [latest EXCEPT ![Root(p)] = job[p].id] /\ Set(p, [job[p] EXCEPT !.pc = "load"])
     \/ /\ latest[Root(p)] # None /\ Set(p, None) /\ UNCHANGED latest
  /\ UNCHANGED <<hostVars, baseline, stored, reports>>

\* preflight: the compiler always, the GPU and who uses it from the second tier on.
Preflight(m, tier, use) ==
  LET lacks == setup.lacks[m] IN
  UNION {IF "compiler" \in lacks THEN {"warn"} ELSE {},
         IF tier # "quick" /\ {"gpu", "headers"} \intersect lacks # {} THEN {"fail"} ELSE {},
         IF tier # "quick" /\ use = "gpu" THEN {"warn"} ELSE {}}

\* load_baseline, preflight, and the first load average.
Loaded(j, m, use) ==
  LET pre == Preflight(m, j.request.tier, use) IN
  [j EXCEPT !.pc = "steps", !.doc = baseline[m], !.todo = IF "fail" \in pre THEN <<>> ELSE Plan(j.request.tier),
            !.gpuBusy = use = "gpu", !.cpuBusy = use = "cpu", !.found = pre]

Load(p) ==
  /\ At(p, "load")
  /\ \/ baseline[Host[p]] = Torn /\ Set(p, None)
     \/ baseline[Host[p]] # Torn /\ \E use \in Uses(p) : Set(p, Loaded(job[p], Host[p], use))
  /\ UNCHANGED <<hostVars, baseline, stored, latest, reports>>

\* At this revision, no test of the suite fails, or the step finds what it should.
Holds(step, r) ==
  CASE step = "tests_cpu"  -> r.tests.cpu >= 0
    [] step = "tests_gpu"  -> r.tests.gpu >= 0
    [] step = "tests_slow" -> r.tests.slow >= 0
    [] step = "selftest"   -> r.selftest
    [] step = "kernel"     -> r.kernelExact
    [] OTHER               -> TRUE

\* The revisions a step may run: pytest starts from the tree as it is, and what runs in the
\* check itself was imported at some time since the check noted its revision.
Runs(step, j) == IF IsSuite(step) THEN {revision} ELSE j.revision .. revision

Over(j, step, status, r) ==
  [j EXCEPT !.todo = Tail(@), !.statuses = @ \union {status},
            !.skipped = @ \/ (status = "skip" /\ NeedsCaseA(step)), !.held = @ \union {x \in {step} : Holds(x, r)}]

\* Whether the arrays the document has digests of are those on disk.
Untouched(j, p, step) ==
  j.doc # None => \A n \in ArraysOf(step) \intersect DOMAIN j.doc.arrays :
    n \in DOMAIN stored[Root(p)] /\ stored[Root(p)][n] = j.doc.arrays[n]

Measuring(j, p, step, status, r, use) ==
  [Over(j, step, status, r) EXCEPT
     !.metrics = Updated(@, MetricsOf(step, r, Position(r, p), use, j, Reference(j))),
     !.arrays = Updated(@, [n \in ArraysOf(step) |-> Position(r, p)]),
     !.ref = IF step = "casea" THEN Reference(j) ELSE @, !.intact = @ /\ Untouched(j, p, step)]

Raised(j, step, status, r) == [Over(j, step, status, r) EXCEPT !.statuses = @ \union {"fail"}, !.skipped = j.skipped]

Step(p) ==
  /\ At(p, "steps") /\ job[p].todo # <<>>
  /\ LET j == job[p] step == Head(j.todo) IN
     \E rev \in Runs(step, j) :
       LET r == Revisions[rev] status == StepStatus(step, j, p, r) IN
       \/ status = "skip" /\ Set(p, Over(j, step, status, r)) /\ UNCHANGED changes
       \/ status # "skip" /\ (\E use \in Uses(p) : Set(p, Measuring(j, p, step, status, r, use))) /\ UNCHANGED changes
       \/ Changed("error") /\ Set(p, Raised(j, step, status, r))
  /\ UNCHANGED <<setup, revision, others, print, present, baseline, stored, latest, reports>>

Records(j) == j.request.update /\ j.result # "FAIL" /\ ~j.gpuBusy /\ ~j.cpuBusy /\ j.request.reason

Judged(j, use) ==
  LET cpuBusy == j.cpuBusy \/ use = "cpu"
      seen    == [j EXCEPT !.cpuBusy = cpuBusy, !.found = @ \union {x \in {"warn"} : cpuBusy}]
      judged  == [seen EXCEPT !.result = Overall(seen)]
  IN  [judged EXCEPT !.pc = IF Records(judged) THEN "copy" ELSE "report", !.todo = SetToSeq(DOMAIN j.arrays)]

Compare(p) ==
  /\ At(p, "steps") /\ job[p].todo = <<>>
  /\ \E use \in Uses(p) : Set(p, Judged(job[p], use))
  /\ UNCHANGED <<hostVars, baseline, stored, latest, reports>>

\* write_baseline: array by array the file is opened, filled, and hashed as it is then,
\* whoever wrote it; it raises if it is gone.  Then the document that holds the digests.
OpenArray(p) ==
  /\ At(p, "copy") /\ job[p].todo # <<>>
  /\ stored' = [stored EXCEPT ![Root(p)] = Updated(@, [x \in {Head(job[p].todo)} |-> Torn])]
  /\ Set(p, [job[p] EXCEPT !.pc = "fill"])
  /\ UNCHANGED <<hostVars, baseline, latest, reports>>

FillArray(p) ==
  /\ At(p, "fill")
  /\ LET n == Head(job[p].todo) IN
     stored' = [stored EXCEPT ![Root(p)] = [x \in DOMAIN @ |-> IF x = n THEN job[p].arrays[n] ELSE @[x]]]
  /\ Set(p, [job[p] EXCEPT !.pc = "hash"])
  /\ UNCHANGED <<hostVars, baseline, latest, reports>>

HashArray(p) ==
  /\ At(p, "hash")
  /\ LET n == Head(job[p].todo) there == stored[Root(p)] IN
     Set(p, IF n \in DOMAIN there
            THEN [job[p] EXCEPT !.pc = "copy", !.todo = Tail(@), !.digests = Updated(@, [x \in {n} |-> there[x]])]
            ELSE None)
  /\ UNCHANGED <<hostVars, baseline, stored, latest, reports>>

OpenDocument(p) ==
  /\ At(p, "copy") /\ job[p].todo = <<>>
  /\ baseline' = [baseline EXCEPT ![Host[p]] = Torn] /\ Set(p, [job[p] EXCEPT !.pc = "document"])
  /\ UNCHANGED <<hostVars, stored, latest, reports>>

\* ccpi is what this check was asked, not what it compared with (ref).
WriteDocument(p) ==
  /\ At(p, "document")
  /\ LET j == job[p] IN
     baseline' = [baseline EXCEPT ![Host[p]] =
       [print |-> j.print, metrics |-> j.metrics, arrays |-> j.digests, ccpi |-> j.request.ccpi, ref |-> j.ref]]
  /\ Set(p, [job[p] EXCEPT !.pc = "report"])
  /\ UNCHANGED <<hostVars, stored, latest, reports>>

Report(p) ==
  /\ At(p, "report")
  /\ LET j == job[p] IN
     reports' = [reports EXCEPT ![j.id] = j.result]
  /\ Set(p, None)
  /\ UNCHANGED <<hostVars, baseline, stored, latest>>

CheckStep(p) ==
  \/ Unlink(p) \/ Symlink(p) \/ Load(p) \/ Step(p) \/ Compare(p)
  \/ OpenArray(p) \/ FillArray(p) \/ HashArray(p) \/ OpenDocument(p) \/ WriteDocument(p) \/ Report(p)

\* Also an unlink of what another has unlinked, and the whole of runs/ deleted.
KillCheck(p) ==
  /\ Changed("kill") /\ job[p] # None /\ Set(p, None)
  /\ UNCHANGED <<setup, revision, others, print, present, baseline, stored, latest, reports>>

-----------------------------------------------------------------------------
(* Around it.                                                               *)

Commit ==
  /\ Changed("commit") /\ revision < Len(Revisions) /\ revision' = revision + 1
  /\ UNCHANGED <<setup, others, print, present, baseline, stored, latest, reports, job>>

Upgrade(m) ==
  /\ Changed("upgrade") /\ \E part \in {"hardware", "software"} : print' = [print EXCEPT ![m][part] = @ + 1]
  /\ UNCHANGED <<setup, revision, others, present, baseline, stored, latest, reports, job>>

OthersChange(m) ==
  /\ Changed("others") /\ \E use \in {"none", "gpu", "cpu"} \ {others[m]} : others' = [others EXCEPT ![m] = use]
  /\ UNCHANGED <<setup, revision, print, present, baseline, stored, latest, reports, job>>

\* A result of CCPi is moved away, or back.
Moved(ref) ==
  /\ Changed("ccpi") /\ present' = IF ref \in present THEN present \ {ref} ELSE present \union {ref}
  /\ UNCHANGED <<setup, revision, others, print, baseline, stored, latest, reports, job>>

\* runs/ is not under version control.
CleanUp(r) ==
  /\ Changed("cleanup") /\ (stored[r] # <<>> \/ latest[r] # None)
  /\ stored' = [stored EXCEPT ![r] = <<>>] /\ latest' = [latest EXCEPT ![r] = None]
  /\ UNCHANGED <<setup, revision, others, print, present, baseline, reports, job>>

-----------------------------------------------------------------------------
(* Property.                                                                *)

\* What a check that does not fail means, whatever roots and machines are shared,
\* wherever an update was killed and whatever was committed meanwhile.  Every step
\* of the tier was done, and no test of it failed at the revision it was run at,
\* which may be later than the one reported; a suite of which nothing ran fails
\* nothing.  With the software of the baseline, PASS means the very arrays of the
\* document's digests, be they another machine's.  PASS and WARN mean arrays within
\* tolerance of those, if they were on disk still, and no worse against CCPi than
\* the document says, if that was taken against the same result of CCPi.
Means(j) ==
  /\ \A step \in ToSet(Plan(j.request.tier)) : NeedsCaseA(step) \/ step \in j.held
  /\ j.doc # None => \A n \in DOMAIN j.arrays \intersect DOMAIN j.doc.arrays :
       /\ j.result = "PASS" /\ j.print.software = j.doc.print.software => j.arrays[n] = j.doc.arrays[n]
       /\ j.intact => Abs(j.arrays[n] - j.doc.arrays[n]) <= 1
  /\ j.doc # None /\ j.ref # None /\ j.ref = j.doc.ref =>
       Abs(j.arrays["casea.fused"] - References[j.ref]) <= j.doc.metrics["ccpi.median"].value + 5

\* From the verdict on, through the recording, to the report.
PassMeans == \A p \in Places : job[p] # None /\ job[p].result \notin {None, "FAIL"} => Means(job[p])
=============================================================================
