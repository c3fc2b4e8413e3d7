-------------------------- MODULE CoordinatorProofs --------------------------
(***************************************************************************)
(* Theorems about Coordinator, for any settings, tiles and numbers of      *)
(* faults, edits and removals: rows of the results store come from what it *)
(* was allocated for, and coarse rows from a complete seed field.          *)
(*                                                                         *)
(* Unmixed says something of rows only.  What makes it inductive is what   *)
(* the stages leave of each other's files: that the store is empty until   *)
(* its plan is saved, that the import never changes as long as the .roi    *)
(* does not, and that plan and store are made for the same settings, but   *)
(* while a store is being allocated.                                       *)
(***************************************************************************)
EXTENDS Coordinator, TLAPS

Plans  == [print : Prints, tiles : SUBSET Tiles, seeds : Fields \union {None}]
Stores == [kind : {"absent", "raw"}, print : {None}] \union [kind : {"ready"}, print : Prints]
Rows   == [settings : Settings, points : Imports, seeds : Fields \union {None}]
Steps  == {"idle", "import", "cleared", "importing", "check", "allocate", "allocating", "save", "saveNew",
           "seed", "seeding", "replan", "tiles"}

\* The type of the state.
TypeOK ==
  /\ config \in Settings /\ roi \in 0 .. MaxRoiEdits /\ imported \in Imports \union {None} /\ current \in BOOLEAN
  /\ output \in Stores /\ rows \in [Tiles -> Rows \union {None}]
  /\ plan \in Plans \union {None} /\ seeds \in Fields \union {None} /\ final \in BOOLEAN
  /\ step \in Steps /\ (step # "idle" => cfg \in Settings) /\ left \in SUBSET Tiles
  /\ faults \in Nat /\ edits \in Nat /\ removals \in Nat

Importless == {"idle", "import"}
Planned    == {"seed", "seeding", "replan", "tiles"}
Allocation == {"allocate", "allocating", "saveNew"}

\* What a running stage has seen to, and that nothing is written to a store
\* before its plan is saved.
Staged ==
  /\ step \notin Importless => imported # None
  /\ step \in Planned => plan # None /\ plan.print.settings = cfg
  /\ step \in {"seeding", "replan"} => seeds # None
  /\ step = "tiles" => output.kind = "ready"
  /\ step = "allocate" => output.kind = "absent"
  /\ step = "allocating" => output.kind = "raw"
  /\ step \in {"save", "saveNew"} => output.kind = "ready" /\ output.print = Fingerprint
  /\ (output.kind # "ready" \/ step \in Allocation) => Written = {}

\* The points are imported once, and everything is made for that import.
OneImport ==
  roi = 0 =>
    /\ (imported # None => current) /\ step # "cleared"
    /\ (imported = None \/ step = "importing") => output.kind = "absent" /\ plan = None
    /\ output.kind = "ready" => output.print.points = imported
    /\ plan # None => plan.print.points = imported

\* Plan and store agree, and with them the rows.
Agreed ==
  (roi = 0 /\ (faults = 0 \/ removals = 0)) =>
    /\ (output.kind = "ready" /\ plan # None /\ step # "saveNew") => plan.print = output.print
    /\ (removals = 0 /\ plan # None) => output.kind = "ready" /\ step \notin Allocation
    /\ \A t \in Written : Matches(rows[t])

WholeFor(print) == [whole |-> TRUE, of |-> print]

\* A planned seed field is complete and was made for what is planned.
Seeded ==
  roi = 0 =>
    /\ (plan # None /\ plan.seeds # None) => plan.seeds = WholeFor(plan.print)
    /\ step = "seeding" => seeds = [whole |-> FALSE, of |-> Fingerprint]
    /\ step = "replan" => seeds = WholeFor(Fingerprint)
    /\ (step = "tiles" /\ cfg.strategy = "coarse") => seeds # None /\ plan.seeds = seeds

IInv == TypeOK /\ Staged /\ OneImport /\ Agreed /\ Seeded /\ CoarseSeeded

(***************************************************************************)
(* What the stages write has the type of the file it is written to.        *)
(***************************************************************************)
LEMMA Records ==
  /\ \A v \in 0 .. MaxRoiEdits, a \in BOOLEAN, H, T \in SUBSET Tiles :
       [version |-> v, allocated |-> a, halves |-> H, tiles |-> T] \in Imports
  /\ \A s \in Settings, p \in Imports : [settings |-> s, points |-> p] \in Prints
  /\ \A b \in BOOLEAN, p \in Prints : [whole |-> b, of |-> p] \in Fields
  /\ \A p \in Prints, T \in SUBSET Tiles, d \in Fields \union {None} :
       [print |-> p, tiles |-> T, seeds |-> d] \in Plans
  /\ \A p \in Prints : [kind |-> "ready", print |-> p] \in Stores
  /\ [kind |-> "raw", print |-> None] \in Stores /\ Missing \in Stores
  /\ \A s \in Settings, p \in Imports, d \in Fields \union {None} :
       [settings |-> s, points |-> p, seeds |-> d] \in Rows
BY DEF Imports, Prints, Fields, Plans, Stores, Missing, Rows

\* What is in a file that is there.
LEMMA Read ==
  ASSUME TypeOK
  PROVE  /\ imported # None => imported \in Imports /\ imported.tiles \in SUBSET Tiles
         /\ imported # None => imported.version \in 0 .. MaxRoiEdits /\ imported.halves \in SUBSET Tiles
         /\ plan # None => /\ plan \in Plans /\ plan.print \in Prints /\ plan.tiles \in SUBSET Tiles
                           /\ plan.seeds \in Fields \union {None} /\ plan.print.settings \in Settings
         /\ seeds # None => seeds \in Fields /\ seeds.of \in Prints
BY DEF TypeOK, Imports, Plans, Prints, Fields

\* A file that is there is not missing.
LEMMA There == None \notin Imports /\ None \notin Fields /\ None \notin Plans /\ None \notin Settings
BY NoneAssumption DEF Plans

\* An import that is changed is still there.
LEMMA Changed ==
  ASSUME TypeOK, imported # None
  PROVE  /\ \A b \in BOOLEAN : [imported EXCEPT !.allocated = b] # None
         /\ \A T \in SUBSET Tiles : [imported EXCEPT !.tiles = T] # None /\ [imported EXCEPT !.halves = T] # None
         /\ \A T \in SUBSET imported.tiles : [imported EXCEPT !.tiles = T] # None
         /\ [imported EXCEPT !.halves = {}, !.tiles = @ \union imported.halves] # None
<1>1. imported \in Imports
  BY DEF TypeOK
<1>2. /\ \A b \in BOOLEAN : [imported EXCEPT !.allocated = b] \in Imports
      /\ \A T \in SUBSET Tiles : [imported EXCEPT !.tiles = T] \in Imports /\ [imported EXCEPT !.halves = T] \in Imports
      /\ \A T \in SUBSET imported.tiles : [imported EXCEPT !.tiles = T] \in Imports
  BY <1>1 DEF Imports
<1>3. [imported EXCEPT !.halves = {}, !.tiles = @ \union imported.halves] \in Imports
  BY <1>1 DEF Imports
<1> QED
  BY <1>2, <1>3, There

(***************************************************************************)
(* Every step keeps the invariant.                                         *)
(***************************************************************************)
LEMMA PlanIInv ==
  ASSUME IInv, Plan
  PROVE  IInv'
<1>1. TypeOK'
  BY DEF IInv, TypeOK, Plan, Begin, disk, user, Steps
<1>2. Staged'
  BY DEF IInv, Staged, Plan, Begin, disk, Importless, Planned, Allocation, Written, Fingerprint
<1>3. OneImport'
  BY DEF IInv, OneImport, Plan, Begin, disk, user
<1>4. Agreed'
  BY DEF IInv, Agreed, Plan, Begin, disk, user, Matches, Written, Allocation
<1>5. Seeded'
  BY DEF IInv, Seeded, Plan, Begin, disk, user
<1>6. CoarseSeeded'
  BY DEF IInv, CoarseSeeded, Plan, disk, user, Written
<1> QED
  BY <1>1, <1>2, <1>3, <1>4, <1>5, <1>6 DEF IInv

LEMMA ImportCurrentIInv ==
  ASSUME IInv, ImportCurrent
  PROVE  IInv'
<1>1. TypeOK'
  BY DEF IInv, TypeOK, ImportCurrent, Then, disk, user, Steps
<1>2. Staged'
  BY DEF IInv, Staged, ImportCurrent, Then, disk, Planned, Allocation, Written, Fingerprint
<1>3. OneImport'
  BY DEF IInv, OneImport, ImportCurrent, Then, disk, user
<1>4. Agreed'
  BY DEF IInv, Agreed, ImportCurrent, Then, disk, user, Matches, Written, Allocation
<1>5. Seeded'
  BY DEF IInv, Seeded, ImportCurrent, Then, disk, user
<1>6. CoarseSeeded'
  BY DEF IInv, CoarseSeeded, ImportCurrent, disk, user, Written
<1> QED
  BY <1>1, <1>2, <1>3, <1>4, <1>5, <1>6 DEF IInv

LEMMA ClearIInv ==
  ASSUME IInv, Clear
  PROVE  IInv'
<1>1. TypeOK'
  <2>1. imported \in Imports
    BY Read DEF IInv, Clear
  <2>2. imported' \in Imports /\ current' \in BOOLEAN
    <3>1. CASE imported' = [imported EXCEPT !.allocated = FALSE] /\ current' \in BOOLEAN
      BY <2>1, <3>1 DEF Imports
    <3>2. ASSUME NEW T \in SUBSET imported.tiles, imported' = [imported EXCEPT !.tiles = T], current' = FALSE
          PROVE  imported' \in Imports /\ current' \in BOOLEAN
      BY <2>1, <3>2 DEF Imports
    <3> QED
      BY <3>1, <3>2 DEF Clear
  <2> QED
    BY <2>2 DEF IInv, TypeOK, Clear, Then, user, Steps
<1>2. Staged'
  <2>1. imported' # None
    BY Changed DEF IInv, Clear
  <2>2. step' = "cleared" /\ Written' = Written
    BY DEF Clear, Then, Written
  <2> QED
    BY <2>1, <2>2 DEF IInv, Staged, Clear, Then, Planned, Allocation
<1>3. OneImport'
  BY DEF IInv, OneImport, Clear, Then, disk, user
<1>4. Agreed'
  BY DEF IInv, Agreed, Clear, Then, user, Matches, Written, Allocation
<1>5. Seeded'
  BY DEF IInv, Seeded, OneImport, Clear, Then, user
<1>6. CoarseSeeded'
  BY DEF IInv, CoarseSeeded, Clear, user, Written
<1> QED
  BY <1>1, <1>2, <1>3, <1>4, <1>5, <1>6 DEF IInv

LEMMA ImportIInv ==
  ASSUME IInv, Import
  PROVE  IInv'
<1>1. TypeOK'
  BY Records DEF IInv, TypeOK, Import, Then, user, Steps
<1>2. Staged'
  <2>1. [version |-> roi, allocated |-> FALSE, halves |-> {}, tiles |-> {}] \in Imports
    BY Records DEF IInv, TypeOK
  <2>2. imported' # None
    BY <2>1, There DEF Import
  <2>3. step' = "importing" /\ Written' = Written
    BY DEF Import, Then, Written
  <2> QED
    BY <2>2, <2>3 DEF IInv, Staged, Import, Planned, Allocation
<1>3. OneImport'
  BY DEF IInv, OneImport, Import, Then, user
<1>4. Agreed'
  BY DEF IInv, Agreed, Import, Then, user, Matches, Written, Allocation
<1>5. Seeded'
  BY DEF IInv, Seeded, Import, Then, user
<1>6. CoarseSeeded'
  BY DEF IInv, CoarseSeeded, Import, disk, user, Written
<1> QED
  BY <1>1, <1>2, <1>3, <1>4, <1>5, <1>6 DEF IInv

LEMMA ImportAllocatedIInv ==
  ASSUME IInv, ImportAllocated
  PROVE  IInv'
<1>1. TypeOK'
  <2>1. imported \in Imports
    BY Read DEF IInv, Staged, ImportAllocated, Importless
  <2>2. imported' \in Imports
    BY <2>1 DEF ImportAllocated, Imports
  <2> QED
    BY <2>2 DEF IInv, TypeOK, ImportAllocated, user
<1>2. Staged'
  <2>1. imported # None /\ imported' # None
    BY Changed DEF IInv, Staged, ImportAllocated, Importless
  <2>2. step' = "importing" /\ Written' = Written
    BY DEF ImportAllocated, Written
  <2> QED
    BY <2>1, <2>2 DEF IInv, Staged, ImportAllocated, Planned, Allocation
<1>3. OneImport'
  BY DEF IInv, OneImport, Staged, Importless, ImportAllocated, user
<1>4. Agreed'
  BY DEF IInv, Agreed, ImportAllocated, user, Matches, Written, Allocation
<1>5. Seeded'
  BY DEF IInv, Seeded, OneImport, ImportAllocated, user
<1>6. CoarseSeeded'
  BY DEF IInv, CoarseSeeded, ImportAllocated, user, Written
<1> QED
  BY <1>1, <1>2, <1>3, <1>4, <1>5, <1>6 DEF IInv

LEMMA ImportCellsIInv ==
  ASSUME IInv, ImportCells
  PROVE  IInv'
<1>1. TypeOK'
  <2>1. imported \in Imports
    BY Read DEF IInv, Staged, ImportCells, Importless
  <2>2. imported' \in Imports
    <3>1. CASE UNCHANGED imported
      BY <2>1, <3>1
    <3>2. ASSUME NEW t \in Tiles, imported' = [imported EXCEPT !.halves = {t}]
          PROVE  imported' \in Imports
      BY <2>1, <3>2 DEF Imports
    <3>3. CASE imported' = [imported EXCEPT !.halves = {}, !.tiles = @ \union imported.halves]
      BY <2>1, <3>3 DEF Imports
    <3> QED
      BY <3>1, <3>2, <3>3 DEF ImportCells
  <2>3. step' \in Steps /\ step # "idle"
    BY DEF IInv, TypeOK, ImportCells, Steps
  <2> QED
    BY <2>2, <2>3 DEF IInv, TypeOK, ImportCells, user
<1>2. Staged'
  <2>1. imported \in Imports
    BY Read DEF IInv, Staged, ImportCells, Importless
  <2>2. imported' # None
    <3>1. CASE UNCHANGED imported
      BY <2>1, <3>1, There
    <3>2. ASSUME NEW t \in Tiles, imported' = [imported EXCEPT !.halves = {t}]
          PROVE  imported' # None
      BY <2>1, <3>2, Changed, There DEF IInv
    <3>3. CASE imported' = [imported EXCEPT !.halves = {}, !.tiles = @ \union imported.halves]
      BY <2>1, <3>3, Changed, There DEF IInv
    <3> QED
      BY <3>1, <3>2, <3>3 DEF ImportCells
  <2>3. Written' = Written
    BY DEF ImportCells, Written
  <2>4. step' \in {"importing", "check"} /\ step = "importing"
    BY DEF ImportCells
  <2> QED
    BY <2>2, <2>3, <2>4 DEF IInv, Staged, ImportCells, Planned, Importless, Allocation
<1>3. OneImport'
  BY DEF IInv, OneImport, ImportCells, disk, user, Staged, Importless
<1>4. Agreed'
  BY DEF IInv, Agreed, ImportCells, user, Matches, Written, Allocation
<1>5. Seeded'
  BY DEF IInv, Seeded, ImportCells, user
<1>6. CoarseSeeded'
  BY DEF IInv, CoarseSeeded, ImportCells, user, Written
<1> QED
  BY <1>1, <1>2, <1>3, <1>4, <1>5, <1>6 DEF IInv

LEMMA ImportFailsIInv ==
  ASSUME IInv, ImportFails
  PROVE  IInv'
<1>1. TypeOK'
  <2>1. step' = "idle" /\ left' = {} /\ imported' = None /\ current' = FALSE /\ faults' = faults + 1
    BY DEF ImportFails, Stop, Fault
  <2>2. imported' \in Imports \union {None} /\ current' \in BOOLEAN /\ step' \in Steps /\ left' \in SUBSET Tiles
    BY <2>1 DEF Steps
  <2>3. faults' \in Nat
    BY <2>1 DEF IInv, TypeOK
  <2>4. UNCHANGED <<config, roi, edits, removals, output, rows, plan, seeds, final>>
    BY DEF ImportFails, user
  <2> QED
    BY <2>1, <2>2, <2>3, <2>4 DEF IInv, TypeOK
<1>2. Staged'
  BY DEF IInv, Staged, ImportFails, Stop, Importless, Planned, Allocation, Written, Fingerprint
<1>3. OneImport'
  BY DEF IInv, OneImport, ImportFails, Stop, user
<1>4. Agreed'
  BY DEF IInv, Agreed, ImportFails, Stop, Fault, disk, user, Matches, Written, Allocation, TypeOK
<1>5. Seeded'
  BY DEF IInv, Seeded, ImportFails, Stop, user
<1>6. CoarseSeeded'
  BY DEF IInv, CoarseSeeded, ImportFails, user, Written
<1> QED
  BY <1>1, <1>2, <1>3, <1>4, <1>5, <1>6 DEF IInv

LEMMA CheckStoreIInv ==
  ASSUME IInv, CheckStore
  PROVE  IInv'
<1>1. TypeOK'
  BY DEF IInv, TypeOK, CheckStore, Then, Stop, disk, user, Steps
<1>2. Staged'
  BY DEF IInv, Staged, CheckStore, Then, Stop, disk, user, OneImport, Agreed, Seeded, CoarseSeeded,
     Fingerprint, Written, Missing, Matches, CheckPlan, CheckSeeding, CheckStoreOpens, SameRun,
     PlannedSeeds, WholeFor, Importless, Planned, Allocation
<1>3. OneImport'
  BY DEF IInv, OneImport, CheckStore, Then, Stop, disk, user
<1>4. Agreed'
  BY DEF IInv, Agreed, CheckStore, Then, Stop, disk, user, Matches, Written, Allocation
<1>5. Seeded'
  BY DEF IInv, Seeded, CheckStore, Then, Stop, disk, user
<1>6. CoarseSeeded'
  BY DEF IInv, CoarseSeeded, CheckStore, disk, user, Written
<1> QED
  BY <1>1, <1>2, <1>3, <1>4, <1>5, <1>6 DEF IInv

LEMMA AllocateIInv ==
  ASSUME IInv, Allocate
  PROVE  IInv'
<1>1. TypeOK'
  BY Records DEF IInv, TypeOK, Allocate, Then, user, Steps
<1>2. Staged'
  BY DEF IInv, Staged, Allocate, Then, disk, Importless, Planned, Allocation, Written, Fingerprint
<1>3. OneImport'
  BY DEF IInv, OneImport, Allocate, Then, disk, user, Staged, Importless, TypeOK
<1>4. Agreed'
  BY DEF IInv, Agreed, Allocate, user, Written, Allocation, Staged, OneImport, Importless, TypeOK
<1>5. Seeded'
  BY DEF IInv, Seeded, Allocate, Then, disk, user
<1>6. CoarseSeeded'
  BY DEF IInv, CoarseSeeded, Allocate, disk, user, Written
<1> QED
  BY <1>1, <1>2, <1>3, <1>4, <1>5, <1>6 DEF IInv

LEMMA AllocatedIInv ==
  ASSUME IInv, Allocated
  PROVE  IInv'
<1>1. TypeOK'
  <2>1. output' \in Stores
    <3>1. cfg \in Settings /\ imported \in Imports
      BY Read DEF IInv, TypeOK, Staged, Allocated, Importless
    <3> QED
      BY <3>1, Records DEF Allocated, Fingerprint
  <2> QED
    BY <2>1 DEF IInv, TypeOK, Allocated, Then, user, Steps
<1>2. Staged'
  BY DEF IInv, Staged, Allocated, Then, disk, Importless, Planned, Allocation, Written, Fingerprint
<1>3. OneImport'
  BY DEF IInv, OneImport, Allocated, Then, user, Staged, Agreed, Seeded, CoarseSeeded, Fingerprint,
     Written, Missing, Matches, CheckPlan, CheckSeeding, CheckStoreOpens, SameRun, PlannedSeeds,
     WholeFor, Importless, Planned, Allocation
<1>4. Agreed'
  BY DEF IInv, Agreed, Allocated, Then, disk, user, Written, Allocation, Staged, OneImport,
     Importless, TypeOK
<1>5. Seeded'
  BY DEF IInv, Seeded, Allocated, Then, disk, user
<1>6. CoarseSeeded'
  BY DEF IInv, CoarseSeeded, Allocated, disk, user, Written
<1> QED
  BY <1>1, <1>2, <1>3, <1>4, <1>5, <1>6 DEF IInv

LEMMA SavePlanIInv ==
  ASSUME IInv, SavePlan
  PROVE  IInv'
<1>1. TypeOK'
  <2>1. Fingerprint \in Prints /\ imported.tiles \in SUBSET Tiles
    <3>1. cfg \in Settings /\ imported \in Imports /\ imported.tiles \in SUBSET Tiles
      BY Read DEF IInv, TypeOK, Staged, SavePlan, Importless
    <3> QED
      BY <3>1, Records DEF Fingerprint
  <2>2. PlannedSeeds \in Fields \union {None}
    BY DEF IInv, TypeOK, PlannedSeeds
  <2>3. plan' \in Plans
    BY <2>1, <2>2, Records DEF SavePlan
  <2> QED
    BY <2>3 DEF IInv, TypeOK, SavePlan, Stop, user, Steps
<1>2. Staged'
  BY DEF IInv, Staged, SavePlan, Stop, disk, Importless, Planned, Allocation, Written, Fingerprint
<1>3. OneImport'
  BY DEF IInv, OneImport, SavePlan, Stop, disk, user, Staged, TypeOK
<1>4. Agreed'
  BY DEF IInv, Agreed, SavePlan, Stop, disk, user, Matches, Written, Allocation, Staged, OneImport,
     Importless, TypeOK
<1>5. Seeded'
  BY DEF IInv, Seeded, SavePlan, Stop, user, Staged, OneImport, Agreed, CoarseSeeded, Fingerprint,
     Written, Missing, Matches, CheckPlan, CheckSeeding, CheckStoreOpens, SameRun, PlannedSeeds,
     WholeFor, Importless, Planned, Allocation
<1>6. CoarseSeeded'
  BY DEF IInv, CoarseSeeded, SavePlan, disk, user, Written
<1> QED
  BY <1>1, <1>2, <1>3, <1>4, <1>5, <1>6 DEF IInv

LEMMA PlanFailsIInv ==
  ASSUME IInv, PlanFails
  PROVE  IInv'
<1>1. TypeOK'
  BY Records DEF IInv, TypeOK, PlanFails, Stop, Fault, user, Steps
<1>2. Staged'
  BY DEF IInv, Staged, PlanFails, Stop, Importless, Planned, Allocation, Written, Fingerprint
<1>3. OneImport'
  BY DEF IInv, OneImport, PlanFails, Stop, disk, user, Staged, Agreed, Seeded, CoarseSeeded,
     Fingerprint, Written, Missing, Matches, CheckPlan, CheckSeeding, CheckStoreOpens, SameRun,
     PlannedSeeds, WholeFor, Importless, Planned, Allocation
<1>4. Agreed'
  BY DEF IInv, Agreed, PlanFails, Stop, Fault, disk, user, Matches, Written, Allocation, Staged,
     OneImport, Importless, TypeOK
<1>5. Seeded'
  BY DEF IInv, Seeded, PlanFails, Stop, user
<1>6. CoarseSeeded'
  BY DEF IInv, CoarseSeeded, PlanFails, user, Written
<1> QED
  BY <1>1, <1>2, <1>3, <1>4, <1>5, <1>6 DEF IInv

LEMMA SeedCoarseIInv ==
  ASSUME IInv, SeedCoarse
  PROVE  IInv'
<1>1. TypeOK'
  BY DEF IInv, TypeOK, SeedCoarse, Begin, disk, user, Steps
<1>2. Staged'
  BY DEF IInv, Staged, SeedCoarse, Begin, Loads, disk, user, OneImport, Agreed, Seeded, CoarseSeeded,
     Fingerprint, Written, Missing, Matches, CheckPlan, CheckSeeding, CheckStoreOpens, SameRun,
     PlannedSeeds, WholeFor, Importless, Planned, Allocation
<1>3. OneImport'
  BY DEF IInv, OneImport, SeedCoarse, Begin, disk, user
<1>4. Agreed'
  BY DEF IInv, Agreed, SeedCoarse, Begin, disk, user, Matches, Written, Allocation
<1>5. Seeded'
  BY DEF IInv, Seeded, SeedCoarse, Begin, disk, user
<1>6. CoarseSeeded'
  BY DEF IInv, CoarseSeeded, SeedCoarse, disk, user, Written
<1> QED
  BY <1>1, <1>2, <1>3, <1>4, <1>5, <1>6 DEF IInv

LEMMA SaveSeedsIInv ==
  ASSUME IInv, SaveSeeds
  PROVE  IInv'
<1>1. TypeOK'
  <2>1. seeds' \in Fields
    <3>1. cfg \in Settings /\ imported \in Imports
      BY Read DEF IInv, TypeOK, Staged, SaveSeeds, Importless
    <3> QED
      BY <3>1, Records DEF SaveSeeds, Fingerprint
  <2> QED
    BY <2>1 DEF IInv, TypeOK, SaveSeeds, Then, user, Steps
<1>2. Staged'
  BY There, Records DEF IInv, Staged, TypeOK, SaveSeeds, Then, disk, user, OneImport, Agreed,
     Seeded, CoarseSeeded, Fingerprint, Written, Missing, Matches, CheckPlan, CheckSeeding,
     CheckStoreOpens, SameRun, PlannedSeeds, WholeFor, Importless, Planned, Allocation
<1>3. OneImport'
  BY DEF IInv, OneImport, SaveSeeds, Then, disk, user
<1>4. Agreed'
  BY DEF IInv, Agreed, SaveSeeds, Then, disk, user, Matches, Written, Allocation
<1>5. Seeded'
  BY DEF IInv, Seeded, SaveSeeds, Then, disk, user, Fingerprint
<1>6. CoarseSeeded'
  BY DEF IInv, CoarseSeeded, SaveSeeds, disk, user, Written
<1> QED
  BY <1>1, <1>2, <1>3, <1>4, <1>5, <1>6 DEF IInv

LEMMA SeedsSavedIInv ==
  ASSUME IInv, SeedsSaved
  PROVE  IInv'
<1>1. TypeOK'
  <2>1. seeds' \in Fields
    <3>1. seeds.of \in Prints
      BY Read DEF IInv, Staged, SeedsSaved
    <3> QED
      BY <3>1, Records DEF SeedsSaved
  <2> QED
    BY <2>1 DEF IInv, TypeOK, SeedsSaved, Then, user, Steps
<1>2. Staged'
  BY There, Records, Read DEF IInv, Staged, SeedsSaved, Then, disk, user, OneImport, Agreed, Seeded,
     CoarseSeeded, Fingerprint, Written, Missing, Matches, CheckPlan, CheckSeeding, CheckStoreOpens,
     SameRun, PlannedSeeds, WholeFor, Importless, Planned, Allocation
<1>3. OneImport'
  BY DEF IInv, OneImport, SeedsSaved, Then, disk, user
<1>4. Agreed'
  BY DEF IInv, Agreed, SeedsSaved, Then, disk, user, Matches, Written, Allocation
<1>5. Seeded'
  <2> SUFFICES ASSUME roi = 0
                PROVE  Seeded'
    BY DEF Seeded, SeedsSaved, user
  <2>1. seeds' = WholeFor(Fingerprint)
    <3>1. seeds.of = Fingerprint
      BY DEF IInv, Seeded, SeedsSaved
    <3> QED
      BY <3>1 DEF SeedsSaved, WholeFor
  <2>2. UNCHANGED <<plan, cfg, imported>> /\ step' = "replan"
    BY DEF SeedsSaved, Then
  <2> QED
    BY <2>1, <2>2 DEF IInv, Seeded, Fingerprint, WholeFor
<1>6. CoarseSeeded'
  BY DEF IInv, CoarseSeeded, SeedsSaved, disk, user, Written
<1> QED
  BY <1>1, <1>2, <1>3, <1>4, <1>5, <1>6 DEF IInv

LEMMA ReplanIInv ==
  ASSUME IInv, Replan
  PROVE  IInv'
<1>1. TypeOK'
  <2>1. plan' \in Plans
    <3>1. plan.print \in Prints /\ imported.tiles \in SUBSET Tiles
      BY Read DEF IInv, Staged, Replan, Importless, Planned
    <3>2. seeds \in Fields \union {None}
      BY DEF IInv, TypeOK
    <3> QED
      BY <3>1, <3>2, Records DEF Replan
  <2> QED
    BY <2>1 DEF IInv, TypeOK, Replan, Stop, user, Steps
<1>2. Staged'
  BY DEF IInv, Staged, Replan, Stop, disk, Importless, Planned, Allocation, Written, Fingerprint
<1>3. OneImport'
  BY DEF IInv, OneImport, Replan, Stop, user, Staged, Agreed, Seeded, CoarseSeeded, Fingerprint,
     Written, Missing, Matches, CheckPlan, CheckSeeding, CheckStoreOpens, SameRun, PlannedSeeds,
     WholeFor, Importless, Planned, Allocation
<1>4. Agreed'
  BY DEF IInv, Agreed, Replan, Stop, user, Staged, OneImport, Seeded, CoarseSeeded, Fingerprint,
     Written, Missing, Matches, CheckPlan, CheckSeeding, CheckStoreOpens, SameRun, PlannedSeeds,
     WholeFor, Importless, Planned, Allocation
<1>5. Seeded'
  <2> SUFFICES ASSUME roi = 0
                PROVE  Seeded'
    BY DEF Seeded, Replan, user
  <2>1. plan.print = Fingerprint
    <3>1. plan # None /\ plan.print.settings = cfg /\ plan.print.points = imported
      BY DEF IInv, Staged, OneImport, Replan, Planned
    <3>2. plan.print \in Prints
      BY <3>1, Read DEF IInv
    <3> QED
      BY <3>1, <3>2 DEF Fingerprint, Prints
  <2>2. plan'.seeds = WholeFor(plan'.print)
    BY <2>1 DEF IInv, Seeded, Replan, WholeFor
  <2>3. step' = "idle"
    BY DEF Replan, Stop
  <2> QED
    BY <2>2, <2>3 DEF Seeded
<1>6. CoarseSeeded'
  BY DEF IInv, CoarseSeeded, Replan, disk, user, Written
<1> QED
  BY <1>1, <1>2, <1>3, <1>4, <1>5, <1>6 DEF IInv

LEMMA SeedWavefrontIInv ==
  ASSUME IInv, SeedWavefront
  PROVE  IInv'
<1>1. TypeOK'
  BY Read DEF IInv, TypeOK, SeedWavefront, Begin, disk, user, Steps, CheckPlan
<1>2. Staged'
  BY DEF IInv, Staged, SeedWavefront, Begin, Loads, disk, user, OneImport, Agreed, Seeded, CoarseSeeded,
     Fingerprint, Written, Missing, Matches, CheckPlan, CheckSeeding, CheckStoreOpens, SameRun,
     PlannedSeeds, WholeFor, Importless, Planned, Allocation
<1>3. OneImport'
  BY DEF IInv, OneImport, SeedWavefront, Begin, disk, user
<1>4. Agreed'
  BY DEF IInv, Agreed, SeedWavefront, Begin, disk, user, Matches, Written, Allocation
<1>5. Seeded'
  BY DEF IInv, Seeded, SeedWavefront, Begin, disk, user
<1>6. CoarseSeeded'
  BY DEF IInv, CoarseSeeded, SeedWavefront, disk, user, Written
<1> QED
  BY <1>1, <1>2, <1>3, <1>4, <1>5, <1>6 DEF IInv

LEMMA RunIInv ==
  ASSUME IInv, Run
  PROVE  IInv'
<1>1. TypeOK'
  BY Read DEF IInv, TypeOK, Run, Begin, disk, user, Steps, CheckPlan
<1>2. Staged'
  BY DEF IInv, Staged, Run, Begin, Loads, disk, user, OneImport, Agreed, Seeded, CoarseSeeded, Fingerprint,
     Written, Missing, Matches, CheckPlan, CheckSeeding, CheckStoreOpens, SameRun, PlannedSeeds,
     WholeFor, Importless, Planned, Allocation
<1>3. OneImport'
  BY DEF IInv, OneImport, Run, Begin, disk, user
<1>4. Agreed'
  BY DEF IInv, Agreed, Run, Begin, disk, user, Matches, Written, Allocation
<1>5. Seeded'
  BY DEF IInv, Seeded, Run, Begin, disk, user, Staged, OneImport, Agreed, CoarseSeeded, Fingerprint,
     Written, Missing, Matches, CheckPlan, CheckSeeding, CheckStoreOpens, SameRun, PlannedSeeds,
     WholeFor, Importless, Planned, Allocation
<1>6. CoarseSeeded'
  BY DEF IInv, CoarseSeeded, Run, disk, user, Written
<1> QED
  BY <1>1, <1>2, <1>3, <1>4, <1>5, <1>6 DEF IInv

LEMMA WriteTileIInv ==
  ASSUME IInv, NEW t \in Tiles, WriteTile(t)
  PROVE  IInv'
<1>1. TypeOK'
  <2>1. rows' \in [Tiles -> Rows \union {None}]
    <3>1. cfg \in Settings /\ imported \in Imports
      BY Read DEF IInv, TypeOK, Staged, WriteTile, Importless
    <3>2. (IF cfg.strategy = "coarse" THEN seeds ELSE None) \in Fields \union {None}
      BY DEF IInv, TypeOK
    <3>3. PICK r \in Rows : rows' = [rows EXCEPT ![t] = r]
      BY <3>1, <3>2, Records DEF WriteTile
    <3> QED
      BY <3>3 DEF IInv, TypeOK
  <2> QED
    BY <2>1 DEF IInv, TypeOK, WriteTile, user, Steps
<1>2. Staged'
  BY DEF IInv, Staged, WriteTile, Allocation, Fingerprint
<1>3. OneImport'
  BY DEF IInv, OneImport, WriteTile, user
<1>4. Agreed'
  BY DEF IInv, Agreed, WriteTile, user, Staged, OneImport, Seeded, CoarseSeeded, Fingerprint,
     Written, Missing, Matches, CheckPlan, CheckSeeding, CheckStoreOpens, SameRun, PlannedSeeds,
     WholeFor, Importless, Planned, Allocation
<1>5. Seeded'
  BY DEF IInv, Seeded, WriteTile, user
<1>6. CoarseSeeded'
  <2> SUFFICES ASSUME roi = 0, NEW u \in Written', rows'[u].settings.strategy = "coarse"
                PROVE  rows'[u].seeds = WholeFor([settings |-> rows'[u].settings, points |-> rows'[u].points])
    BY DEF CoarseSeeded, WriteTile, user, WholeFor
  <2>1. CASE u # t
    BY <2>1 DEF IInv, TypeOK, CoarseSeeded, WriteTile, Written, WholeFor
  <2>2. CASE u = t
    <3>1. rows'[t] = [settings |-> cfg, points |-> imported,
                      seeds |-> IF cfg.strategy = "coarse" THEN seeds ELSE None]
      BY DEF IInv, TypeOK, WriteTile
    <3>2. seeds = WholeFor(plan.print)
      BY <2>2, <3>1 DEF IInv, Seeded, Staged, Planned, WriteTile
    <3>3. plan.print = Fingerprint
      <4>1. plan # None /\ plan.print.settings = cfg /\ plan.print.points = imported
        BY DEF IInv, Staged, OneImport, WriteTile, Planned
      <4>2. plan.print \in Prints
        BY <4>1, Read DEF IInv
      <4> QED
        BY <4>1, <4>2 DEF Fingerprint, Prints
    <3> QED
      BY <2>2, <3>1, <3>2, <3>3 DEF Fingerprint
  <2> QED
    BY <2>1, <2>2
<1> QED
  BY <1>1, <1>2, <1>3, <1>4, <1>5, <1>6 DEF IInv

LEMMA TileFailsIInv ==
  ASSUME IInv, NEW t \in Tiles, TileFails(t)
  PROVE  IInv'
<1>1. TypeOK'
  BY DEF IInv, TypeOK, TileFails, Fault, disk, user
<1>2. Staged'
  BY DEF IInv, Staged, TileFails, disk, Written, Fingerprint
<1>3. OneImport'
  BY DEF IInv, OneImport, TileFails, disk, user
<1>4. Agreed'
  BY DEF IInv, Agreed, TileFails, Fault, disk, user, Matches, Written, Allocation, TypeOK
<1>5. Seeded'
  BY DEF IInv, Seeded, TileFails, disk, user
<1>6. CoarseSeeded'
  BY DEF IInv, CoarseSeeded, TileFails, disk, user, Written
<1> QED
  BY <1>1, <1>2, <1>3, <1>4, <1>5, <1>6 DEF IInv

LEMMA TileUnreadIInv ==
  ASSUME IInv, NEW t \in Tiles, TileUnread(t)
  PROVE  IInv'
<1>1. TypeOK'
  BY DEF IInv, TypeOK, TileUnread, Stop, disk, user, Steps
<1>2. Staged'
  BY DEF IInv, Staged, TileUnread, Stop, disk, Importless, Planned, Allocation, Written, Fingerprint
<1>3. OneImport'
  BY DEF IInv, OneImport, TileUnread, Stop, disk, user
<1>4. Agreed'
  BY DEF IInv, Agreed, TileUnread, Stop, disk, user, Matches, Written, Allocation
<1>5. Seeded'
  BY DEF IInv, Seeded, TileUnread, Stop, disk, user
<1>6. CoarseSeeded'
  BY DEF IInv, CoarseSeeded, TileUnread, disk, user, Written
<1> QED
  BY <1>1, <1>2, <1>3, <1>4, <1>5, <1>6 DEF IInv

LEMMA TilesEndIInv ==
  ASSUME IInv, TilesEnd
  PROVE  IInv'
<1>1. TypeOK'
  BY DEF IInv, TypeOK, TilesEnd, Stop, disk, user, Steps
<1>2. Staged'
  BY DEF IInv, Staged, TilesEnd, Stop, disk, Importless, Planned, Allocation, Written, Fingerprint
<1>3. OneImport'
  BY DEF IInv, OneImport, TilesEnd, Stop, disk, user
<1>4. Agreed'
  BY DEF IInv, Agreed, TilesEnd, Stop, disk, user, Matches, Written, Allocation
<1>5. Seeded'
  BY DEF IInv, Seeded, TilesEnd, Stop, disk, user
<1>6. CoarseSeeded'
  BY DEF IInv, CoarseSeeded, TilesEnd, disk, user, Written
<1> QED
  BY <1>1, <1>2, <1>3, <1>4, <1>5, <1>6 DEF IInv

LEMMA FinalizeIInv ==
  ASSUME IInv, Finalize
  PROVE  IInv'
<1>1. TypeOK'
  BY DEF IInv, TypeOK, Finalize, user
<1>2. Staged'
  BY DEF IInv, Staged, Finalize, Written, Fingerprint
<1>3. OneImport'
  BY DEF IInv, OneImport, Finalize, user
<1>4. Agreed'
  BY DEF IInv, Agreed, Finalize, user, Matches, Written
<1>5. Seeded'
  BY DEF IInv, Seeded, Finalize, user
<1>6. CoarseSeeded'
  BY DEF IInv, CoarseSeeded, Finalize, user, Written
<1> QED
  BY <1>1, <1>2, <1>3, <1>4, <1>5, <1>6 DEF IInv

LEMMA KillIInv ==
  ASSUME IInv, Kill
  PROVE  IInv'
<1>1. TypeOK'
  BY DEF IInv, TypeOK, Kill, Stop, Fault, disk, user, Steps
<1>2. Staged'
  BY DEF IInv, Staged, Kill, Stop, disk, Importless, Planned, Allocation, Written, Fingerprint
<1>3. OneImport'
  BY DEF IInv, OneImport, Kill, Stop, disk, user
<1>4. Agreed'
  BY DEF IInv, Agreed, Kill, Stop, Fault, disk, user, Matches, Written, Allocation, TypeOK
<1>5. Seeded'
  BY DEF IInv, Seeded, Kill, Stop, disk, user
<1>6. CoarseSeeded'
  BY DEF IInv, CoarseSeeded, Kill, disk, user, Written
<1> QED
  BY <1>1, <1>2, <1>3, <1>4, <1>5, <1>6 DEF IInv

LEMMA EditConfigIInv ==
  ASSUME IInv, NEW s \in Settings, EditConfig(s)
  PROVE  IInv'
<1>1. TypeOK'
  BY DEF IInv, TypeOK, EditConfig, disk, user
<1>2. Staged'
  BY DEF IInv, Staged, EditConfig, disk, user, Written, Fingerprint
<1>3. OneImport'
  BY DEF IInv, OneImport, EditConfig, disk, user
<1>4. Agreed'
  BY DEF IInv, Agreed, EditConfig, disk, user, Matches, Written
<1>5. Seeded'
  BY DEF IInv, Seeded, EditConfig, disk, user
<1>6. CoarseSeeded'
  BY DEF IInv, CoarseSeeded, EditConfig, disk, user, Written
<1> QED
  BY <1>1, <1>2, <1>3, <1>4, <1>5, <1>6 DEF IInv

LEMMA EditRoiIInv ==
  ASSUME IInv, EditRoi
  PROVE  IInv'
<1>1. TypeOK'
  <2>1. roi' \in 0 .. MaxRoiEdits
    BY CountsAssumption DEF IInv, TypeOK, EditRoi
  <2> QED
    BY <2>1 DEF IInv, TypeOK, EditRoi
<1>2. Staged'
  BY DEF IInv, Staged, EditRoi, user, Written, Fingerprint
<1>3. OneImport'
  BY DEF IInv, OneImport, EditRoi, user, TypeOK
<1>4. Agreed'
  BY DEF IInv, Agreed, EditRoi, user, TypeOK
<1>5. Seeded'
  BY DEF IInv, Seeded, EditRoi, user, TypeOK
<1>6. CoarseSeeded'
  BY DEF IInv, CoarseSeeded, EditRoi, user, TypeOK
<1> QED
  BY <1>1, <1>2, <1>3, <1>4, <1>5, <1>6 DEF IInv

LEMMA RemoveOutputIInv ==
  ASSUME IInv, RemoveOutput
  PROVE  IInv'
<1>1. TypeOK'
  <2>1. output' \in Stores
    BY Records DEF RemoveOutput
  <2>2. rows' \in [Tiles -> Rows \union {None}]
    BY DEF RemoveOutput
  <2>3. removals' \in Nat
    BY DEF IInv, TypeOK, RemoveOutput
  <2> QED
    BY <2>1, <2>2, <2>3 DEF IInv, TypeOK, RemoveOutput
<1>2. Staged'
  BY DEF IInv, Staged, RemoveOutput, user, Written, Fingerprint
<1>3. OneImport'
  BY DEF IInv, OneImport, RemoveOutput, Staged, Agreed, Seeded, CoarseSeeded, Fingerprint, Written,
     Missing, Matches, CheckPlan, CheckSeeding, CheckStoreOpens, SameRun, PlannedSeeds, WholeFor,
     Importless, Planned, Allocation
<1>4. Agreed'
  BY DEF IInv, Agreed, TypeOK, RemoveOutput, Staged, OneImport, Seeded, CoarseSeeded, Fingerprint,
     Written, Missing, Matches, CheckPlan, CheckSeeding, CheckStoreOpens, SameRun, PlannedSeeds,
     WholeFor, Importless, Planned, Allocation
<1>5. Seeded'
  BY DEF IInv, Seeded, RemoveOutput, user
<1>6. CoarseSeeded'
  BY DEF IInv, CoarseSeeded, RemoveOutput, user, Written
<1> QED
  BY <1>1, <1>2, <1>3, <1>4, <1>5, <1>6 DEF IInv

(***************************************************************************)
(* The invariant holds in every state that can be reached.                 *)
(***************************************************************************)
LEMMA InitIInv == Init => IInv
<1> SUFFICES ASSUME Init
             PROVE  IInv
  OBVIOUS
<1>1. Written = {}
  BY DEF Init, Written
<1>2. TypeOK
  <2>1. 0 \in 0 .. MaxRoiEdits
    BY CountsAssumption
  <2>2. output \in Stores
    BY Records DEF Init
  <2>3. rows \in [Tiles -> Rows \union {None}]
    BY DEF Init
  <2> QED
    BY <2>1, <2>2, <2>3 DEF Init, TypeOK, Steps
<1>3. Staged
  BY <1>1 DEF Init, Staged, Missing, Importless, Planned, Allocation
<1>4. OneImport /\ Agreed /\ Seeded /\ CoarseSeeded
  BY <1>1 DEF Init, OneImport, Agreed, Seeded, CoarseSeeded, Missing
<1> QED
  BY <1>2, <1>3, <1>4 DEF IInv

LEMMA StutterIInv == IInv /\ UNCHANGED vars => IInv'
<1> SUFFICES ASSUME IInv, UNCHANGED vars
             PROVE  IInv'
  OBVIOUS
<1>1. UNCHANGED <<imported, current, output, rows, plan, seeds, final, config, roi, edits, removals,
                  step, cfg, left, faults>>
  BY DEF vars, disk, user
<1>2. TypeOK' /\ Staged'
  BY <1>1 DEF IInv, TypeOK, Staged, Written, Fingerprint
<1>3. OneImport' /\ Agreed'
  BY <1>1 DEF IInv, OneImport, Agreed, Written, Matches
<1>4. Seeded' /\ CoarseSeeded'
  BY <1>1 DEF IInv, Seeded, CoarseSeeded, Written, Fingerprint, WholeFor
<1> QED
  BY <1>2, <1>3, <1>4 DEF IInv

LEMMA NextIInv == IInv /\ [Next]_vars => IInv'
<1> SUFFICES ASSUME IInv, [Next]_vars
             PROVE  IInv'
  OBVIOUS
<1>1. CASE Start
  BY <1>1, PlanIInv, SeedCoarseIInv, SeedWavefrontIInv, RunIInv, FinalizeIInv DEF Start
<1>2. CASE Work
  BY <1>2, ImportCurrentIInv, ClearIInv, ImportIInv, ImportAllocatedIInv, ImportCellsIInv, CheckStoreIInv, AllocateIInv, AllocatedIInv,
     SavePlanIInv, SaveSeedsIInv, SeedsSavedIInv, ReplanIInv, TilesEndIInv, WriteTileIInv, TileUnreadIInv DEF Work
<1>3. CASE Faults
  BY <1>3, ImportFailsIInv, PlanFailsIInv, KillIInv, TileFailsIInv DEF Faults
<1>4. CASE User
  BY <1>4, EditRoiIInv, RemoveOutputIInv, EditConfigIInv DEF User
<1>5. CASE UNCHANGED vars
  BY <1>5, StutterIInv
<1> QED
  BY <1>1, <1>2, <1>3, <1>4, <1>5 DEF Next

\* Every state a stage, the user or a fault can lead to has its type, and the
\* files agree as far as IInv says.
THEOREM Invariance == Spec => []IInv
BY InitIInv, NextIInv, PTL DEF Spec

\* Unmixed: rows come from the settings and points their store was allocated
\* for, whatever the user edits and whichever stages run in between.
THEOREM UnmixedCorrect == Spec => []Unmixed
<1>1. IInv => Unmixed
  BY DEF IInv, Staged, Agreed, Unmixed
<1> QED
  BY <1>1, Invariance, PTL

\* CoarseSeeded: a tile of a coarse run was solved from a complete seed field
\* made for its own settings and points, never from a torn one.
THEOREM CoarseSeededCorrect == Spec => []CoarseSeeded
<1>1. IInv => CoarseSeeded
  BY DEF IInv
<1> QED
  BY <1>1, Invariance, PTL
=============================================================================
