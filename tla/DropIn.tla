------------------------------- MODULE DropIn -------------------------------
(***************************************************************************)
(* zvdvc-dvc, the stand-in for CCPi's dvc that iDVC starts: it checks the  *)
(* input, solves in memory (module Solver), prints a line for every point  *)
(* that is solved, writes .stat and .disp to temporary files and renames   *)
(* them.  The one that reads its output may go away, a write or a rename   *)
(* may fail, the GPU may be too small, and it may be killed at any time.   *)
(*                                                                         *)
(* The seed stage calls the same solve and has none of this: caller.       *)
(***************************************************************************)
EXTENDS Solver, Settings

CONSTANTS
  Jobs,         \* what a run may be started with: [lines, from, cloud, backend, gpu, sameShape, folder]
  JobWorlds(_), \* and the worlds it is started in, of each
  MaxFaults   \* bound: disk and memory errors together

ASSUME DropInAssumption ==
  MaxFaults \in Nat /\ \A j \in DOMAIN Jobs : JobWorlds(j) # {} /\ JobWorlds(j) \subseteq Worlds


ASSUME ExitAssumption == None \notin {"ok", "failed", "killed"}

VARIABLES
  job,       \* one of Jobs
  caller,    \* "dropin" or "stage"
  accepted,  \* whether its input stands every check
  engine,    \* "gpu" or "cpu"
  at,        \* where the drop-in is
  tmp,       \* its two temporary files: None, "begun" or "whole"
  final,     \* the two outputs: what this run wrote, None for what was there before
  toPrint,   \* points solved whose lines are not printed
  lines,     \* the lines the reader has got: [count, point, code]
  count,     \* points counted
  reader,    \* whether somebody reads
  saying,    \* whether the drop-in still prints
  faults,
  failedAt,  \* where an error stopped it, or None
  exit       \* None while it runs, "ok", "failed" or "killed"

runVars == <<job, caller, accepted, engine, at, tmp, final, toPrint, lines, count, reader, saying, faults, failedAt, exit>>
vars == <<solverVars, runVars>>

Files == {"disp", "stat"}
NoFiles == [f \in Files |-> None]
Codes == [s \in {"GOOD", "RANGE_FAIL", "CONVG_FAIL"} |-> s]

\* PointStatus.to_ccpi.
CCPiCode(s) == IF s \in DOMAIN Codes THEN s ELSE NotSearched

ASSUME CountsAssumption == None \notin [DOMAIN Codes -> Nat]

Order == Limited(order)
First == List(<<Whole(Position[Min(Points)]), Whole(0), Whole(0)>>)

Params(j) == ReadDvcInput(Jobs[j].lines)
Config(j) == RunConfigOf(Params(j))

\* default_backend, on_device.
Backend(j) == IF Jobs[j].backend # "" THEN Jobs[j].backend ELSE IF Jobs[j].gpu THEN "fused" ELSE "cpu"
EngineOf(j) == IF Backend(j) \in {"cupy", "fused"} THEN "gpu" ELSE "cpu"

\* What the solve is given from the settings.
PointsToProcess(j) ==
  LET cfg == Config(j) IN
  IF cfg = Refused THEN 0 ELSE IF cfg.num_points_to_process = Null THEN 0 ELSE Single(cfg, "num_points_to_process") \div Unit

\* What _prepare checks before it touches an output.
Acceptable(j) ==
  /\ Config(j) # Refused /\ BackendUsable(Backend(j), Jobs[j].gpu, TRUE) /\ CloudUsable(Jobs[j].cloud)
  /\ Jobs[j].sameShape /\ ~EchoRaises(Params(j)) /\ Jobs[j].folder

\* A stage has its settings from a YAML file: any strategy, and CONVG_FAIL reported, the default.
Init ==
  /\ job \in DOMAIN Jobs /\ accepted = Acceptable(job) /\ engine = EngineOf(job) /\ limit = PointsToProcess(job)
  /\ caller \in {"dropin", "stage"} /\ strategy \in Strategies /\ reportConvgFail = (caller = "stage")
  /\ caller = "dropin" => strategy = "wavefront"
  /\ caller = "stage" => accepted
  /\ world \in JobWorlds(job) /\ SolverInit
  /\ at = "prepare" /\ tmp = NoFiles /\ final = [f \in Files |-> None]
  /\ toPrint = <<>> /\ lines = <<>> /\ count = 0 /\ reader = TRUE /\ saying = TRUE
  /\ faults = 0 /\ failedAt = None /\ exit = None

Running == exit = None

\* An error on the way: the temporary files of a prepared job are removed.
Fail(where, left) ==
  /\ exit' = "failed" /\ failedAt' = where /\ tmp' = left /\ at' = "ended"

\* A write or a rename that does not succeed.
Fault == faults < MaxFaults /\ faults' = faults + 1

\* _prepare: every check first, then the two temporary files.
Prepare ==
  /\ Running /\ at = "prepare" /\ caller = "dropin"
  /\ \/ ~accepted /\ Fail("input", NoFiles) /\ UNCHANGED faults
     \/ /\ accepted
        /\ \/ at' = "header" /\ tmp' = [f \in Files |-> "begun"] /\ UNCHANGED <<faults, failedAt, exit>>
           \/ Fault /\ Fail("first", NoFiles)
           \/ Fault /\ Fail("second", [NoFiles EXCEPT !["disp"] = "begun"])     \* no job yet, so it is left
  /\ UNCHANGED <<solverVars, job, caller, accepted, engine, final, toPrint, lines, count, reader, saying>>

\* The one line that is printed without regard to the reader.
Header ==
  /\ Running /\ at = "header"
  /\ \/ reader /\ at' = "upload" /\ UNCHANGED <<faults, failedAt, exit, tmp>>
     \/ ~reader /\ Fail("header", NoFiles) /\ UNCHANGED faults
     \/ Fault /\ Fail("header", NoFiles)
  /\ UNCHANGED <<solverVars, job, caller, accepted, engine, final, toPrint, lines, count, reader, saying>>

\* engine.prepare, and _cpu_fallback once when the GPU is too small.
Upload ==
  /\ Running
  /\ at = "upload" \/ (at = "prepare" /\ caller = "stage")
  /\ \/ at' = "solve" /\ UNCHANGED <<faults, failedAt, exit, tmp, engine>>
     \/ engine = "gpu" /\ Fault /\ engine' = "cpu" /\ at' = "upload" /\ UNCHANGED <<failedAt, exit, tmp>>
     \/ Fault /\ Fail("memory", NoFiles) /\ UNCHANGED engine
  /\ UNCHANGED <<solverVars, job, caller, accepted, final, toPrint, lines, count, reader, saying>>

Ranked(S) == At(Order, {i \in DOMAIN Order : Order[i] \in S})

\* The solve goes on between two calls of on_solved.
Solve ==
  /\ Running /\ at = "solve" /\ pc # "solved"
  /\ SolverNext
  /\ at' = IF pc' = "done" THEN "write" ELSE "solve"
  /\ exit' = IF pc' = "done" /\ caller = "stage" THEN "ok" ELSE exit
  /\ UNCHANGED <<job, caller, accepted, engine, tmp, final, toPrint, lines, count, reader, saying, faults, failedAt>>

Solved ==
  /\ Running /\ at = "solve" /\ pc = "solved"
  /\ KeepBatch
  /\ IF caller = "dropin" THEN toPrint' = Ranked(DOMAIN out) /\ at' = "print"
                          ELSE UNCHANGED <<toPrint, at>>
  /\ UNCHANGED <<job, caller, accepted, engine, tmp, final, lines, count, reader, saying, faults, failedAt, exit>>

\* on_solved: a line per point; once printing fails, counting goes on alone.
PrintLine ==
  /\ Running /\ at = "print" /\ toPrint # <<>>
  /\ toPrint' = Tail(toPrint) /\ count' = count + 1
  /\ \/ /\ saying /\ reader
        /\ lines' = Append(lines, [count |-> count', point |-> Head(toPrint),
                                   code |-> CCPiCode(result[Head(toPrint)].status)])
        /\ UNCHANGED saying
     \/ /\ saying /\ ~reader /\ saying' \in BOOLEAN      \* it may be in the buffer still
        /\ UNCHANGED lines
     \/ ~saying /\ UNCHANGED <<lines, saying>>
  /\ UNCHANGED <<solverVars, job, caller, accepted, engine, at, tmp, final, reader, faults, failedAt, exit>>

\* Mutant: the flush is not guarded.
ReportedUnguarded ==
  /\ Running /\ at = "print" /\ toPrint = <<>> /\ UNCHANGED saying
  /\ \/ reader /\ at' = "solve" /\ UNCHANGED <<faults, failedAt, exit, tmp>>
     \/ ~reader /\ Fail("report", NoFiles) /\ UNCHANGED faults
  /\ UNCHANGED <<solverVars, job, caller, accepted, engine, final, toPrint, lines, count, reader>>

\* Flush, and a line appended to the temporary .stat.
Reported ==
  /\ Running /\ at = "print" /\ toPrint = <<>>
  /\ saying' = (saying /\ reader)
  /\ \/ at' = "solve" /\ UNCHANGED <<faults, failedAt, exit, tmp>>
     \/ Fault /\ Fail("report", NoFiles)
  /\ UNCHANGED <<solverVars, job, caller, accepted, engine, final, toPrint, lines, count, reader>>

\* ccpi.write_disp: displacements of GOOD points only; stat_summary.
Rows == [i \in DOMAIN Order |->
  LET r == result[Order[i]]
  IN  [point |-> Order[i], code |-> CCPiCode(r.status), u |-> IF r.status = "GOOD" THEN r.u ELSE 0]]

CountOf(s) == Cardinality({i \in DOMAIN Order : CCPiCode(result[Order[i]].status) = s})

WriteOutputs ==
  /\ Running /\ at = "write" /\ caller = "dropin"
  /\ \/ at' = "stat" /\ tmp' = [f \in Files |-> "whole"] /\ UNCHANGED <<faults, failedAt, exit>>
     \/ Fault /\ Fail("write", NoFiles)
  /\ UNCHANGED <<solverVars, job, caller, accepted, engine, final, toPrint, lines, count, reader, saying>>

ReplaceStat ==
  /\ Running /\ at = "stat"
  /\ \/ /\ final' = [final EXCEPT !["stat"] = [s \in DOMAIN Codes |-> CountOf(s)]]
        /\ tmp' = [tmp EXCEPT !["stat"] = None] /\ at' = "disp" /\ UNCHANGED <<faults, failedAt, exit>>
     \/ Fault /\ Fail("stat", NoFiles) /\ UNCHANGED final
  /\ UNCHANGED <<solverVars, job, caller, accepted, engine, toPrint, lines, count, reader, saying>>

\* Mutant: the .disp, which iDVC takes for success, is renamed first.
ReplaceDispFirst ==
  /\ Running /\ at \in {"stat", "disp"}
  /\ \/ /\ final' = [final EXCEPT !["disp"] = Rows]
        /\ tmp' = NoFiles /\ at' = "ended" /\ exit' = "ok" /\ UNCHANGED <<faults, failedAt>>
     \/ Fault /\ Fail("disp", NoFiles) /\ UNCHANGED final
  /\ UNCHANGED <<solverVars, job, caller, accepted, engine, toPrint, lines, count, reader, saying>>

ReplaceDisp ==
  /\ Running /\ at = "disp"
  /\ \/ /\ final' = [final EXCEPT !["disp"] = Rows]
        /\ tmp' = NoFiles /\ at' = "ended" /\ exit' = "ok" /\ UNCHANGED <<faults, failedAt>>
     \/ Fault /\ Fail("disp", NoFiles) /\ UNCHANGED final
  /\ UNCHANGED <<solverVars, job, caller, accepted, engine, toPrint, lines, count, reader, saying>>

ReaderLeaves ==
  /\ Running /\ reader /\ caller = "dropin" /\ reader' = FALSE
  /\ UNCHANGED <<solverVars, job, caller, accepted, engine, at, tmp, final, toPrint, lines, count, saying, faults, failedAt, exit>>

Kill ==
  /\ Running /\ exit' = "killed"
  /\ UNCHANGED <<solverVars, job, caller, accepted, engine, at, tmp, final, toPrint, lines, count, reader, saying, faults, failedAt>>

Proceed ==
  \/ Prepare \/ Header \/ Upload \/ Solve \/ Solved \/ PrintLine \/ Reported
  \/ WriteOutputs \/ ReplaceStat \/ ReplaceDisp

Next == Proceed \/ ReaderLeaves \/ Kill

Spec == Init /\ [][Next]_vars /\ WF_vars(Proceed)

-----------------------------------------------------------------------------
(* Properties.                                                              *)

\* A new .disp, the only sign of success iDVC knows, means the run finished: the
\* .stat beside it is this run's and counts its rows, and the rows are the points
\* to be processed in CCPi's order, each with its result solved alone, and no
\* displacement on a point that failed.  The lines iDVC followed, up to where it
\* stopped reading, told of the same points in the same order, counted from 1.
DispMeansDone ==
  final["disp"] # None =>
    /\ exit = "ok"
    /\ DOMAIN final["disp"] = DOMAIN Order
    /\ \A i \in DOMAIN Order :
         LET row == final["disp"][i] alone == Alone(world[Order[i]], result[Order[i]].seed, reportConvgFail) IN
         /\ row.point = Order[i] /\ row.code = CCPiCode(alone.status)
         /\ row.u = IF alone.status = "GOOD" THEN alone.u ELSE 0
    /\ final["stat"] # None
    /\ \A s \in DOMAIN Codes :
         final["stat"][s] = Cardinality({i \in DOMAIN Order : final["disp"][i].code = s})
    /\ \A i \in DOMAIN lines :
         lines[i] = [count |-> i, point |-> Order[i], code |-> final["disp"][i].code]

\* run: a failed run leaves earlier outputs as they were, but for a failure of
\* the last rename, which comes after that of the .stat; once the header is out,
\* it is not for want of a reader that a run fails; and a run that ends by itself
\* leaves no temporary file, except when the second could not be created.
FailedKeeps ==
  /\ exit = "failed" =>
       /\ final["disp"] = None /\ (final["stat"] # None => failedAt = "disp")
       /\ faults > 0 \/ failedAt \in {"input", "header"}
  /\ exit \in {"ok", "failed"} => tmp = NoFiles \/ failedAt = "second"

\* read_dvc_input, write_dvc_input and stat_echo: the settings of a dvc_in that is
\* accepted are those it has after it is written out and read again, those of the
\* configuration it was written from, and those iDVC reads in the echo, to six
\* digits; the one exception are numbers separated by commas, which the reader
\* takes and the echo does not.
Kept(j) ==
  LET cfg == Config(j) echoed == RunConfigOf(ReadDvcInput(StatEcho(Params(j)))) IN
  cfg # Refused =>
    /\ SameCase(RunConfigOf(ReadDvcInput(WriteDvcInput(cfg, First))), cfg)
    /\ Jobs[j].from # Null => SameCase(cfg, Jobs[j].from)
    /\ \/ EchoRaises(Params(j))
       \/ SameCase([echoed EXCEPT !.num_points_to_process = cfg.num_points_to_process], Rounded(cfg))

SettingsKept == at = "prepare" => Kept(job)

\* The run ends, whoever goes away and whatever fails.
Ends == <>(~Running)
=============================================================================
