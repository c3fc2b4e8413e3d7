------------------------------ MODULE Campaign ------------------------------
(***************************************************************************)
(* The cluster benchmark campaign: one job that goes through a list of     *)
(* steps, writes <step>.json after each, and passes over the steps whose   *)
(* file is there when it is submitted again.  Its check step runs zvdvc    *)
(* check (module Checks) on the node; its data step generates the volumes  *)
(* the later steps measure on.  The job may be stopped anywhere.           *)
(***************************************************************************)
EXTENDS Checks

CONSTANTS
  Node,         \* the place it runs at
  Visible,      \* the GPUs of its machine
  Submissions,  \* [size, devices, tile, steps, redo]: what it may be submitted with, in some setup; tile is
                \* 0 if not given
  MaxKills,     \* bound: jobs stopped at their time limit
  MaxAlters     \* bound: submissions with other options

\* The check of a campaign has an output root of its own: a check by hand, of the same
\* machine too, shares its baseline document but not the root.
ASSUME CampaignAssumption ==
  /\ Node \in Places /\ {Visible, MaxKills, MaxAlters} \subseteq Nat
  /\ \A s \in Setups : /\ s.campaign \subseteq Submissions
                       /\ s.campaign # {} => /\ Node \notin s.users
                                             /\ \A p \in Places \ {Node} : s.root[p] # s.root[Node]

VARIABLES
  given,    \* the submission, None before the first
  camp,     \* what the job is at, "off" without one
  todo,     \* steps left
  made,     \* per size, the parts of case L on disk
  part,     \* parts make_case has made in this job
  config,   \* per size: case L's config.yaml: None, Torn or the tile edge in it
  done,     \* per step, its .json: None, Torn or what it records
  outcome,  \* what the step at hand found
  run,      \* the check the check step has started last
  kills, alters,
  partial   \* whether it was ever submitted with --steps or --redo

campVars == <<given, camp, todo, made, part, config, done, outcome, run, kills, alters, partial>>
vars == <<checkVars, campVars>>
restVars == <<setup, revision, others, print, present, baseline, stored, latest, reports, job>>   \* all but changes

STEPS == <<"env", "check", "kernel", "data", "storage", "strong", "weak", "profile", "ncu", "e2e", "report">>
Setting == {"env", "check", "data"}      \* nothing after these can be trusted
Measured == {"storage", "strong", "weak", "profile", "e2e"}
Parts == <<"ref.ome.zarr", "def.ome.zarr", "points", "truth.npz">>
Sizes == {s.size : s \in Submissions}

\* The largest power-of-two tile with at least 4 tiles per GPU, unless one is given.
TileEdge(sub) ==
  LET edge[e \in 1..sub.size] ==
        IF e > 128 /\ (sub.size \div e) * (sub.size \div e) * (sub.size \div e) < 4 * sub.devices
        THEN edge[e \div 2] ELSE e
  IN  IF sub.tile # 0 THEN sub.tile ELSE edge[sub.size]

\* The point store of a volume has 4 cells along an edge, whatever the tiles: a plan
\* refuses tiles that are not of whole cells, within 1 %, and has one for each block.
CellsPerTile(size, edge) == (8 * edge + size) \div (2 * size)
WholeCells(size, edge) ==
  LET n == CellsPerTile(size, edge) IN n >= 1 /\ 100 * Abs(4 * edge - n * size) <= 4 * edge
TilesOf(size, edge) == LET n == (CellsPerTile(size, edge) + 3) \div CellsPerTile(size, edge) IN n * n * n

Edges    == Sizes \union {TileEdge(sub) : sub \in Submissions} \union {0}
Results  == {"PASS", "PASS (partial)", "WARN", "FAIL"}
Outcomes == [result : Results \union {None}] \union [edge : Edges, size : Sizes \union {0}]

ASSUME OutcomeAssumption ==
  None # Torn /\ None \notin Results /\ {None, Torn} \intersect (Edges \union Outcomes) = {}

Whole(step) == done[step] \notin {None, Torn}
Step1 == Head(todo)
Readable(size) == config[size] \notin {None, Torn}

CampaignInit ==
  /\ given = None /\ camp = "off" /\ todo = <<>> /\ part = 0 /\ outcome = None /\ run = 0
  /\ made = [s \in Sizes |-> {}] /\ config = [s \in Sizes |-> None]
  /\ done = [s \in ToSet(STEPS) |-> None]
  /\ kills = 0 /\ alters = 0 /\ partial = FALSE

-----------------------------------------------------------------------------
(* The driver.                                                              *)

Submit(sub) ==
  /\ camp = "off" /\ sub \in setup.campaign /\ sub # given
  /\ given # None => alters < MaxAlters
  /\ alters' = IF given = None THEN alters ELSE alters + 1
  /\ given' = sub /\ camp' = "next" /\ todo' = sub.steps
  /\ partial' = (partial \/ sub.redo # {} \/ sub.steps # STEPS)
  /\ UNCHANGED <<checkVars, made, part, config, done, outcome, run, kills>>

Finished == given # None /\ \A s \in ToSet(given.steps) : Whole(s)

Resubmit ==
  /\ camp = "off" /\ given # None /\ ~Finished
  /\ camp' = "next" /\ todo' = given.steps
  /\ UNCHANGED <<checkVars, given, made, part, config, done, outcome, run, kills, alters, partial>>

PassedOver(step) == done[step] # None /\ step \notin given.redo /\ step # "report"

\* Mutant: the volumes are generated whether or not they are there.
GeneratesAnew == TRUE

\* step_data: the volumes of a case that has its config are there.
Generates == config[given.size] = None

\* What step_check asks.  The report of its check before is dropped: nobody reads it again.
NodeCheck == [tier |-> "gpu", update |-> FALSE, reason |-> FALSE, data |-> FALSE, require |-> FALSE, ccpi |-> None]

NextStep ==
  /\ camp = "next" /\ todo # <<>>
  /\ \/ PassedOver(Step1) /\ todo' = Tail(todo) /\ UNCHANGED <<checkVars, camp, part, run>>
     \/ /\ ~PassedOver(Step1) /\ UNCHANGED todo
        /\ \/ /\ Step1 = "check" /\ run' = (IF run = 0 THEN Len(reports) + 1 ELSE run) /\ Begin(Node, NodeCheck, run')
              /\ camp' = "check" /\ UNCHANGED part
           \/ /\ Step1 = "data" /\ camp' = (IF Generates THEN "case" ELSE "tiles") /\ part' = 0
              /\ UNCHANGED <<checkVars, run>>
           \/ Step1 \notin {"check", "data"} /\ camp' = "measure" /\ UNCHANGED <<checkVars, part, run>>
  /\ UNCHANGED <<given, made, config, done, outcome, kills, alters, partial>>

\* Mutant: the campaign goes on after a step that failed, whichever it is.
FailsOn == camp' = "next" /\ todo' = Tail(todo) /\ UNCHANGED outcome

\* A step raised.
Fails ==
  /\ camp' = IF Step1 \in Setting THEN "off" ELSE "next"
  /\ todo' = IF Step1 \in Setting THEN <<>> ELSE Tail(todo)
  /\ UNCHANGED outcome

Succeeds(found) == camp' = "open" /\ outcome' = found /\ UNCHANGED todo

\* The result is written in place.
OpenResult ==
  /\ camp = "open" /\ camp' = "write" /\ done' = [done EXCEPT ![Step1] = Torn]
  /\ UNCHANGED <<checkVars, given, todo, made, part, config, outcome, run, kills, alters, partial>>

WriteResult ==
  /\ camp = "write" /\ done' = [done EXCEPT ![Step1] = outcome]
  /\ outcome' = None /\ todo' = Tail(todo) /\ camp' = "next"
  /\ UNCHANGED <<checkVars, given, made, part, config, run, kills, alters, partial>>

JobEnds ==
  /\ camp = "next" /\ todo = <<>> /\ camp' = "off"
  /\ UNCHANGED <<checkVars, given, todo, made, part, config, done, outcome, run, kills, alters, partial>>

\* h_rt: the job and the check it runs.
KillJob ==
  /\ camp # "off" /\ kills < MaxKills /\ kills' = kills + 1
  /\ camp' = "off" /\ todo' = <<>> /\ outcome' = None /\ part' = 0
  /\ job' = [job EXCEPT ![Node] = None]
  /\ UNCHANGED <<hostVars, baseline, stored, latest, reports, given, made, config, done, run, alters, partial>>

-----------------------------------------------------------------------------
(* The steps.                                                               *)

\* step_check: the exit code, then the report behind `latest`.
CheckEnds ==
  /\ camp = "check" /\ job[Node] = None
  /\ LET rep == reports[run] IN
     IF rep \in {None, "FAIL"} THEN Fails
     ELSE Succeeds([result |-> IF latest[Root(Node)] = None THEN None ELSE reports[latest[Root(Node)]]])
  /\ UNCHANGED <<checkVars, given, made, part, config, done, run, kills, alters, partial>>

\* make_case, without overwrite: a volume that is there is an error.
MakePart ==
  /\ camp = "case" /\ part < Len(Parts)
  /\ LET p == Parts[part + 1] IN
     \/ /\ p \in made[given.size] /\ part < 2 /\ Fails /\ UNCHANGED <<made, part, changes>>
     \/ /\ p \notin made[given.size] \/ part >= 2
        /\ made' = [made EXCEPT ![given.size] = @ \union {p}]
        /\ \/ part' = part + 1 /\ UNCHANGED <<camp, todo, outcome, changes>>
           \/ Changed("error") /\ Fails /\ UNCHANGED part
  /\ UNCHANGED <<restVars, given, config, done, run, kills, alters, partial>>

\* A case's tiles are the whole volume until step_data sets them.
OpenConfig ==
  /\ camp = "case" /\ part = Len(Parts)
  /\ config' = [config EXCEPT ![given.size] = Torn] /\ camp' = "config"
  /\ UNCHANGED <<checkVars, given, todo, made, part, done, outcome, run, kills, alters, partial>>

WriteConfig ==
  /\ camp = "config"
  /\ config' = [config EXCEPT ![given.size] = given.size] /\ camp' = "tiles"
  /\ UNCHANGED <<checkVars, given, todo, made, part, done, outcome, run, kills, alters, partial>>

\* The config is read, and rewritten in place.
Retile ==
  /\ camp = "tiles"
  /\ \/ config[given.size] = Torn /\ Fails /\ UNCHANGED <<config, changes>>
     \/ /\ Readable(given.size) /\ config' = [config EXCEPT ![given.size] = Torn]
        /\ camp' = "retile" /\ UNCHANGED <<todo, outcome, changes>>
     \/ Changed("error") /\ Fails /\ UNCHANGED config
  /\ UNCHANGED <<restVars, given, made, part, done, run, kills, alters, partial>>

Retiled ==
  /\ camp = "retile"
  /\ config' = [config EXCEPT ![given.size] = TileEdge(given)]
  /\ Succeeds([edge |-> TileEdge(given), size |-> given.size])
  /\ UNCHANGED <<checkVars, given, made, part, done, run, kills, alters, partial>>

\* scaling: no more devices than are visible; mode weak: 4 tiles for each of the most.
DevicesVisible == given.devices <= Visible
EnoughTiles == TilesOf(given.size, config[given.size]) >= 4 * given.devices

\* What report_markdown loads.
ReportLoads == {"env", "kernel", "storage", "strong", "weak", "e2e", "profile", "ncu"}

CanMeasure(step) ==
  /\ step \in Measured => Readable(given.size) /\ WholeCells(given.size, config[given.size])
  /\ step \in {"strong", "weak"} => DevicesVisible
  /\ step = "weak" => EnoughTiles
  /\ step = "report" => \A s \in ReportLoads : done[s] # Torn

Measure ==
  /\ camp = "measure"
  /\ \/ /\ CanMeasure(Step1) /\ UNCHANGED changes
        /\ Succeeds(IF Step1 \in Measured THEN [edge |-> config[given.size], size |-> given.size] ELSE [edge |-> 0, size |-> 0])
     \/ ~CanMeasure(Step1) /\ Fails /\ UNCHANGED changes
     \/ Changed("error") /\ Fails
  /\ UNCHANGED <<restVars, given, made, part, config, done, run, kills, alters, partial>>

Work ==
  \/ NextStep \/ OpenResult \/ WriteResult \/ JobEnds \/ CheckEnds
  \/ MakePart \/ OpenConfig \/ WriteConfig \/ Retile \/ Retiled \/ Measure

-----------------------------------------------------------------------------
Init == ChecksInit /\ CampaignInit

ByHand ==
  /\ \/ \E p \in setup.users :
          \/ KillCheck(p) \/ OthersChange(Host[p]) \/ Upgrade(Host[p])
          \/ Len(reports) < setup.checks /\ \E q \in setup.requests : Begin(p, q, Len(reports) + 1)
     \/ Commit \/ (\E ref \in DOMAIN References : Moved(ref)) \/ (\E r \in Roots : CleanUp(r))
  /\ UNCHANGED campVars

Checking(p) == CheckStep(p) /\ UNCHANGED campVars

Next ==
  \/ ByHand \/ (\E p \in Places : Checking(p)) \/ (\E sub \in Submissions : Submit(sub))
  \/ Resubmit \/ Work \/ KillJob

Spec == Init /\ [][Next]_vars
          /\ (\A p \in Places : WF_vars(Checking(p))) /\ WF_vars(Work) /\ WF_vars(Resubmit)

-----------------------------------------------------------------------------
(* Properties.                                                              *)

\* campaign.py: nothing after env, check and data can be trusted when they fail.
\* As long as it was never asked for single steps or to redo some, a measurement
\* that is recorded was made after a check that passed, with the tiles the config
\* of its volumes still has, whatever the devices of a later submission, and that
\* data.json states, if that is of the same size: data.json of another does not
\* keep the campaign from measuring on volumes an earlier submission left.
Trusted ==
  ~partial => \A s \in Measured : Whole(s) =>
    /\ done["env"] # None /\ done["check"] # None /\ done["data"] # None
    /\ Whole("check") => done["check"].result # "FAIL"
    /\ Readable(done[s].size) /\ done[s].edge = config[done[s].size]
    /\ Whole("data") /\ done["data"].size = done[s].size => done[s] = done["data"]

\* What no submission gets over by itself: a file a killed job left torn (only the
\* report is always written anew), volumes without their config, data made for another
\* size, too few tiles or tiles of broken cells, more devices than there are, and a
\* baseline document that an update by hand, killed, left torn: no check loads it.
LeftTorn  == camp = "off" /\ ((\E s \in ToSet(STEPS) \ {"report"} : done[s] = Torn) \/ \E n \in Sizes : config[n] = Torn)
HalfMade  == camp = "off" /\ \E n \in Sizes : made[n] # {} /\ config[n] = None
OtherCase ==
  /\ given # None /\ done["data"] # None
  /\ \/ config[given.size] = None
     \/ Readable(given.size) /\ ~(WholeCells(given.size, config[given.size]) /\ EnoughTiles)
TooManyDevices == given # None /\ ~DevicesVisible
BaselineTorn   == baseline[Host[Node]] = Torn /\ \A p \in Places : Host[p] = Host[Node] => ~At(p, "document")

\* A job that hits its time limit continues when it is submitted again: every step
\* is done in the end, whatever fails at times, if none of the above holds.
Completes ==
  given # None ~>
    Finished \/ LeftTorn \/ HalfMade \/ OtherCase \/ TooManyDevices \/ BaselineTorn \/ partial
=============================================================================
