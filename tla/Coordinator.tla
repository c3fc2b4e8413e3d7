----------------------------- MODULE Coordinator -----------------------------
(***************************************************************************)
(* The stages of a run (pipeline/coordinator.py): plan, seed, run and      *)
(* finalize, each a process of its own that the user starts, in any order  *)
(* and as often as needed, on what the earlier ones left on disk: the      *)
(* imported points, plan.json, seeds.npz and the results store.  A stage   *)
(* may be killed or fail between any two steps.  Between stages the user   *)
(* may edit the config, replace the .roi or remove the results store.      *)
(*                                                                         *)
(* A digest is what it is the digest of.  The volumes are never changed:   *)
(* their identity is checked wherever the settings are.  Points are the    *)
(* version of the .roi and the tiles whose cells the import holds: whole,  *)
(* or in halves (the vertices of the cell without its point ids).          *)
(***************************************************************************)
EXTENDS Integers, FiniteSets

CONSTANTS
  Settings,     \* records: template (subvolume, prefilter), strategy and a name for the rest
  Tiles,
  MaxFaults,    \* bound: stages killed or failing
  MaxEdits,     \* bound: edits of the config
  MaxRoiEdits,  \* bound: replacements of the .roi
  MaxRemovals,  \* bound: removals of the results store
  None

Strategies == {"rigid", "coarse", "wavefront"}

ASSUME SettingsAssumption == \A s \in Settings : s.strategy \in Strategies
ASSUME CountsAssumption   == {MaxFaults, MaxEdits, MaxRoiEdits, MaxRemovals} \subseteq Nat

VARIABLES
  config,    \* the settings in the user's config file
  roi,       \* version of the .roi file
  imported,  \* points.zarrvectors in the workdir, or None
  current,   \* whether its mtime is at least that of the .roi
  output,    \* the results store: absent, raw (allocation not finished) or ready
  rows,      \* per tile: what its rows in the store were solved with, or None
  plan,      \* plan.json, or None
  seeds,     \* seeds.npz, or None
  final,     \* whether finalize finished the store
  step,      \* what the running stage does next, or idle
  cfg,       \* the config the running stage read, or None
  left,      \* tiles it has still to write
  faults, edits, removals

disk == <<imported, current, output, rows, plan, seeds, final>>
user == <<config, roi, edits, removals>>
vars == <<disk, user, step, cfg, left, faults>>

\* The points imported, what a plan and a store are made for, a seed field.
Imports == [version : 0 .. MaxRoiEdits, allocated : BOOLEAN, halves : SUBSET Tiles, tiles : SUBSET Tiles]
Prints  == [settings : Settings, points : Imports]
Fields  == [whole : BOOLEAN, of : Prints]

ASSUME NoneAssumption ==
  None \notin Settings /\ None \notin Imports /\ None \notin Fields
  /\ None \notin [print : Prints, tiles : SUBSET Tiles, seeds : Fields \union {None}]

Missing == [kind |-> "absent", print |-> None]

Init ==
  /\ config \in Settings /\ roi = 0 /\ imported = None /\ current = FALSE
  /\ output = Missing /\ rows = [t \in Tiles |-> None] /\ plan = None /\ seeds = None
  /\ final = FALSE /\ step = "idle" /\ cfg = None /\ left = {}
  /\ faults = 0 /\ edits = 0 /\ removals = 0

Then(s)     == step' = s /\ UNCHANGED <<cfg, left>>
Begin(s)    == step = "idle" /\ step' = s /\ cfg' = config
Stop        == step' = "idle" /\ cfg' = None /\ left' = {}
Fault       == faults < MaxFaults /\ faults' = faults + 1
Fingerprint == [settings |-> cfg, points |-> imported]
Written     == {t \in Tiles : rows[t] # None}

(***************************************************************************)
(* plan (prepare): import the .roi if the import is older, read all points *)
(* for the fingerprint, check an existing store against it or allocate     *)
(* one, save the plan.                                                     *)
(***************************************************************************)
\* PointCloud opens an import that is allocated, read_all raises on a cell in
\* halves, and points_digest refuses an import of no points.
Loads(import)    == import # None /\ import.allocated /\ import.halves = {}
Readable(import) == Loads(import) /\ import.tiles # {}

Plan == Begin("import") /\ UNCHANGED <<disk, user, left, faults>>

ImportCurrent ==
  /\ step = "import" /\ imported # None /\ current /\ Then("check")
  /\ UNCHANGED <<disk, user, faults>>

\* rmtree of an older import.  What it has left of it is either not to be
\* opened, and newer than the .roi once something was removed at its top, or
\* it still is and has lost cells.
Clear ==
  /\ step = "import" /\ imported # None /\ ~current /\ Then("cleared")
  /\ \/ imported' = [imported EXCEPT !.allocated = FALSE] /\ current' \in BOOLEAN
     \/ \E T \in SUBSET imported.tiles : imported' = [imported EXCEPT !.tiles = T] /\ current' = FALSE
  /\ UNCHANGED <<output, rows, plan, seeds, final, user, faults>>

Import ==
  /\ (step = "import" /\ imported = None) \/ step = "cleared"
  /\ Then("importing") /\ current' = TRUE
  /\ imported' = [version |-> roi, allocated |-> FALSE, halves |-> {}, tiles |-> {}]
  /\ UNCHANGED <<output, rows, plan, seeds, final, user, faults>>

ImportAllocated ==
  /\ step = "importing" /\ ~imported.allocated /\ imported' = [imported EXCEPT !.allocated = TRUE]
  /\ UNCHANGED <<current, output, rows, plan, seeds, final, user, step, cfg, left, faults>>

\* write_cell: the vertices, then the point ids.
ImportCells ==
  /\ step = "importing" /\ imported.allocated
  /\ \/ /\ imported.halves = {}
        /\ \E t \in Tiles \ imported.tiles : imported' = [imported EXCEPT !.halves = {t}]
        /\ UNCHANGED step
     \/ /\ imported.halves # {}
        /\ imported' = [imported EXCEPT !.halves = {}, !.tiles = @ \union imported.halves]
        /\ UNCHANGED step
     \/ imported.tiles = Tiles /\ step' = "check" /\ UNCHANGED imported
  /\ UNCHANGED <<current, output, rows, plan, seeds, final, user, cfg, left, faults>>

\* A partial import is removed when it fails, not when it is killed.
ImportFails ==
  /\ step = "importing" /\ Fault /\ Stop /\ imported' = None /\ current' = FALSE
  /\ UNCHANGED <<output, rows, plan, seeds, final, user>>

\* Mutant: only the template of an existing store is compared.
SameRunTemplateOnly(print) == print.settings.template = cfg.template

SameRun(print) == print = Fingerprint

CheckStore ==
  /\ step = "check"
  /\ \/ ~Readable(imported) /\ Stop
     \/ Readable(imported) /\ output.kind = "absent" /\ Then("allocate")
     \/ Readable(imported) /\ output.kind = "ready" /\ SameRun(output.print) /\ Then("save")
     \/ Readable(imported) /\ output.kind = "ready" /\ ~SameRun(output.print) /\ Stop
     \/ Readable(imported) /\ output.kind = "raw" /\ Stop
  /\ UNCHANGED <<disk, user, faults>>

Allocate ==
  /\ step = "allocate" /\ Then("allocating") /\ output' = [kind |-> "raw", print |-> None]
  /\ UNCHANGED <<imported, current, rows, plan, seeds, final, user, faults>>

Allocated ==
  /\ step = "allocating" /\ Then("saveNew") /\ output' = [kind |-> "ready", print |-> Fingerprint]
  /\ UNCHANGED <<imported, current, rows, plan, seeds, final, user, faults>>

\* seeds.npz, if the plan there is was made from it for the same fingerprint.
PlannedSeeds ==
  IF cfg.strategy = "coarse" /\ seeds # None /\ plan # None
     /\ plan.print = Fingerprint /\ plan.seeds = seeds
  THEN seeds ELSE None

SavePlan ==
  /\ step \in {"save", "saveNew"} /\ Stop
  /\ plan' = [print |-> Fingerprint, tiles |-> imported.tiles, seeds |-> PlannedSeeds]
  /\ UNCHANGED <<imported, current, output, rows, seeds, final, user, faults>>

\* A store just allocated is removed when the plan cannot be saved; one whose
\* allocation fails is not.
PlanFails ==
  /\ step \in {"allocating", "save", "saveNew"} /\ Fault /\ Stop
  /\ output' = IF step = "saveNew" THEN Missing ELSE output
  /\ UNCHANGED <<imported, current, rows, plan, seeds, final, user>>

(***************************************************************************)
(* check_plan and _check_seeding, and the checks of the worker.            *)
(***************************************************************************)
CheckPlan(c) ==
  /\ plan # None /\ plan.print.settings = c
  /\ ~(imported # None /\ ~current)

\* Mutant: the seed field is not compared with the planned one.
CheckSeedingExists(c) ==
  \/ c.strategy = "rigid"
  \/ c.strategy = "coarse" /\ seeds # None /\ plan.seeds # None
  \/ c.strategy = "wavefront" /\ plan.tiles \subseteq Written

CheckSeeding(c) ==
  \/ c.strategy = "rigid"
  \/ c.strategy = "coarse" /\ seeds # None /\ plan.seeds = seeds
  \/ c.strategy = "wavefront" /\ plan.tiles \subseteq Written

CheckStoreOpens(c) ==
  /\ output.kind = "ready" /\ output.print.settings.template = c.template
  /\ imported # None /\ imported.allocated

(***************************************************************************)
(* seed: nothing (rigid), the seed field and a plan made from it (coarse), *)
(* or every tile written straight into the store (wavefront).              *)
(***************************************************************************)
SeedCoarse ==
  /\ config.strategy = "coarse" /\ CheckPlan(config) /\ Loads(imported) /\ Begin("seed")
  /\ UNCHANGED <<disk, user, left, faults>>

\* np.savez writes the file in place.
SaveSeeds ==
  /\ step = "seed" /\ Then("seeding") /\ seeds' = [whole |-> FALSE, of |-> Fingerprint]
  /\ UNCHANGED <<imported, current, output, rows, plan, final, user, faults>>

SeedsSaved ==
  /\ step = "seeding" /\ Then("replan") /\ seeds' = [whole |-> TRUE, of |-> seeds.of]
  /\ UNCHANGED <<imported, current, output, rows, plan, final, user, faults>>

\* The tiles are planned again; the fingerprint is the one already recorded.
Replan ==
  /\ step = "replan" /\ Stop
  /\ plan' = [print |-> plan.print, tiles |-> imported.tiles, seeds |-> seeds]
  /\ UNCHANGED <<imported, current, output, rows, seeds, final, user, faults>>

SeedWavefront ==
  /\ config.strategy = "wavefront" /\ CheckPlan(config) /\ output.kind = "ready" /\ Loads(imported)
  /\ Begin("tiles") /\ left' = plan.tiles
  /\ UNCHANGED <<disk, user, faults>>

(***************************************************************************)
(* run: the tiles that are not written.                                    *)
(***************************************************************************)
Run ==
  /\ CheckPlan(config) /\ CheckSeeding(config) /\ CheckStoreOpens(config)
  /\ Begin("tiles") /\ left' = plan.tiles \ Written
  /\ UNCHANGED <<disk, user, faults>>

WriteTile(t) ==
  /\ step = "tiles" /\ t \in left /\ t \in imported.tiles /\ left' = left \ {t}
  /\ rows' = [rows EXCEPT ![t] = [settings |-> cfg, points |-> imported,
                                  seeds |-> IF cfg.strategy = "coarse" THEN seeds ELSE None]]
  /\ UNCHANGED <<imported, current, output, plan, seeds, final, user, step, cfg, faults>>

\* Tried twice and given up: the run goes on without the tile.
TileFails(t) ==
  /\ step = "tiles" /\ cfg.strategy # "wavefront" /\ t \in left /\ left' = left \ {t} /\ Fault
  /\ UNCHANGED <<disk, user, step, cfg>>

\* A planned tile whose cells the import, replaced since, does not hold cannot
\* be read: a run gives it up, the wavefront seeding ends.
TileUnread(t) ==
  /\ step = "tiles" /\ t \in left \ imported.tiles
  /\ \/ cfg.strategy # "wavefront" /\ left' = left \ {t} /\ UNCHANGED <<step, cfg>>
     \/ cfg.strategy = "wavefront" /\ Stop
  /\ UNCHANGED <<disk, user, faults>>

TilesEnd ==
  /\ step = "tiles" /\ left = {} /\ Stop
  /\ UNCHANGED <<disk, user, faults>>

(***************************************************************************)
(* finalize, which looks at the points and the store and at no plan.  One  *)
(* that is allowed to be partial changes nothing here (see ResultStore).   *)
(***************************************************************************)
\* Mutant: every tile of the points is asked for, planned or not.
FinalizeAll ==
  /\ step = "idle" /\ output.kind = "ready" /\ imported # None /\ imported.allocated /\ Tiles \subseteq Written
  /\ final' = TRUE
  /\ UNCHANGED <<imported, current, output, rows, plan, seeds, user, step, cfg, left, faults>>

Finalize ==
  /\ step = "idle" /\ output.kind = "ready" /\ imported # None /\ imported.allocated
  /\ imported.tiles \union imported.halves \subseteq Written
  /\ final' = TRUE
  /\ UNCHANGED <<imported, current, output, rows, plan, seeds, user, step, cfg, left, faults>>

(***************************************************************************)
(* Kills, and the user between two stages.  An exception in a step that    *)
(* nothing catches leaves what a kill leaves.                              *)
(***************************************************************************)
Kill == step # "idle" /\ Fault /\ Stop /\ UNCHANGED <<disk, user>>

EditConfig(s) ==
  /\ step = "idle" /\ edits < MaxEdits /\ edits' = edits + 1 /\ s # config /\ config' = s
  /\ UNCHANGED <<disk, roi, removals, step, cfg, left, faults>>

EditRoi ==
  /\ step = "idle" /\ roi < MaxRoiEdits /\ roi' = roi + 1 /\ current' = FALSE
  /\ UNCHANGED <<imported, output, rows, plan, seeds, final, config, edits, removals, step, cfg, left, faults>>

RemoveOutput ==
  /\ step = "idle" /\ output.kind # "absent" /\ removals < MaxRemovals /\ removals' = removals + 1
  /\ output' = Missing /\ rows' = [t \in Tiles |-> None] /\ final' = FALSE
  /\ UNCHANGED <<imported, current, plan, seeds, config, roi, edits, step, cfg, left, faults>>

(***************************************************************************)
(* Specification.                                                          *)
(***************************************************************************)
Start == Plan \/ SeedCoarse \/ SeedWavefront \/ Run \/ Finalize
Work  == \/ ImportCurrent \/ Clear \/ Import \/ ImportAllocated \/ ImportCells \/ CheckStore \/ Allocate \/ Allocated
         \/ SavePlan \/ SaveSeeds \/ SeedsSaved \/ Replan \/ TilesEnd
         \/ \E t \in Tiles : WriteTile(t) \/ TileUnread(t)
Faults == ImportFails \/ PlanFails \/ Kill \/ \E t \in Tiles : TileFails(t)
User   == EditRoi \/ RemoveOutput \/ \E s \in Settings : EditConfig(s)

Next == Start \/ Work \/ Faults \/ User

\* A stage that is running goes on, and the user, who may also do other
\* things, keeps starting every stage that is possible.
Fairness == /\ WF_vars(Work)
            /\ SF_vars(Plan) /\ SF_vars(SeedCoarse) /\ SF_vars(SeedWavefront) /\ SF_vars(Run) /\ SF_vars(Finalize)

Spec     == Init /\ [][Next]_vars
FairSpec == Spec /\ Fairness

(***************************************************************************)
(* Properties.                                                             *)
(***************************************************************************)
\* Rows of the results store come from the settings and points it was
\* allocated for, whatever the user edits and whichever stages are run in
\* between, if the .roi is not replaced, and not both a store is removed and a
\* stage interrupted.
Matches(r) == r.settings = output.print.settings /\ r.points = output.print.points
Unmixed ==
  roi = 0 /\ (faults = 0 \/ removals = 0)
    => \A t \in Written : output.kind = "ready" /\ Matches(rows[t])

\* A tile of a coarse run was solved from a complete seed field made for the
\* same settings and points: not from a torn or a stale one, nor without.
CoarseSeeded ==
  roi = 0 => \A t \in Written : rows[t].settings.strategy = "coarse" =>
    rows[t].seeds = [whole |-> TRUE, of |-> [settings |-> rows[t].settings, points |-> rows[t].points]]

\* The stages can be repeated until the store is final, wherever they were
\* interrupted, unless it was while the store was allocated, or while the .roi
\* was imported and before a first cell was whole or in the midst of a cell:
\* the import passes for a current one and every later plan refuses it.
Undisturbed  == edits = 0 /\ roi = 0 /\ removals = 0
HalfMade     == step = "idle" /\ output.kind = "raw"
HalfImported == step = "idle" /\ imported # None /\ current /\ ~Readable(imported)
Recovers     == <>(final \/ HalfMade \/ HalfImported \/ ~Undisturbed)

\* docs/ARCHITECTURE.md section 9: plan, seed and run refuse a config or
\* inputs that differ from the plan and the store, so that no run mixes
\* settings or data.  After a plan that was refused because the .roi changed,
\* the import is the new one, the plan and the store are of the old one.
DocNeverMixes == \A t \in Written : output.kind = "ready" => Matches(rows[t])
=============================================================================
