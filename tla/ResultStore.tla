----------------------------- MODULE ResultStore -----------------------------
(***************************************************************************)
(* The results store (io/results.py, io/pointcloud.py): one chunk per cell *)
(* in every array, written by the workers of successive runs, each array   *)
(* of a cell in a write of its own, `status' last.  Presence, the record   *)
(* of zarr-vectors of which chunks exist, is deferred while workers write  *)
(* and rebuilt by finalize: a deferred level lists the chunks on disk, any *)
(* other level the recorded ones.  A worker may be killed between any two  *)
(* writes and a write may fail; the next run may use another backend.      *)
(*                                                                         *)
(* A chunk's content is the `value' of the run that wrote it: what that    *)
(* run's backend computes, the same for all workers and retries of a run.  *)
(* `params' stands for the five attributes a solve produces, `vertices'    *)
(* for the two that are copied from the points.                            *)
(***************************************************************************)
EXTENDS Integers, Sequences, FiniteSets, Functions

CONSTANTS
  Tiles,     \* the plan's tiles, each the sequence of its cells
  Workers,   \* worker processes of a run
  Values,    \* what different backends compute
  MaxRuns,   \* bound: runs submitted
  MaxKills,  \* bound: workers killed, over all runs
  None,
  Deferred   \* the mark of a level whose presence is deferred

ASSUME TilesDisjoint ==
  /\ \A t \in Tiles : t \in Seq(Range(t)) /\ IsInjective(t) /\ t # <<>>
  /\ \A t, u \in Tiles : t # u => Range(t) \cap Range(u) = {}
ASSUME ValuesAssumption == None \notin Values
ASSUME RunBounds == MaxRuns \in Nat /\ MaxKills \in Nat

Cells == UNION {Range(t) : t \in Tiles}

\* The order of the writes of one cell, and the arrays written_cells lists.
Order    == <<"vertices", "params", "displacement_sd", "status">>
Required == <<"vertices", "params", "status">>
Arrays   == Range(Order)
Solved   == Arrays \ {"vertices"}

VARIABLES
  disk,      \* per cell and array: the value in the chunk, or None
  presence,  \* Deferred, or per array the cells recorded as present
  value,     \* what the current run's backend computes, None between runs
  todo,      \* the run's tiles not handed out
  step,      \* per worker: off, list, take or write
  at,        \* per worker: position in Required or, writing, in the tile's chunks
  seen,      \* per worker: written_cells() as listed so far
  tile,      \* per worker: the tile it is writing
  runs, kills,
  export     \* what finalize read since the last run: per cell its chunks

vars == <<disk, presence, value, todo, step, at, seen, tile, runs, kills, export>>
store == <<disk, presence>>
worker == <<step, at, seen, tile>>

Blank    == [a \in Arrays |-> None]
NotFinal == [full |-> FALSE, rows |-> <<>>]

Init ==
  /\ disk = [c \in Cells |-> Blank] /\ presence = Deferred
  /\ value = None /\ todo = {} /\ runs = 0 /\ kills = 0 /\ export = NotFinal
  /\ step = [w \in Workers |-> "off"] /\ at = [w \in Workers |-> 1]
  /\ seen = [w \in Workers |-> {}] /\ tile = [w \in Workers |-> <<>>]

OnDisk(a) == {c \in Cells : disk[c][a] # None}

\* list_chunk_keys of one array, and written_cells when nothing interferes.
Listed(a) == IF presence = Deferred THEN OnDisk(a) ELSE presence[a]
Counted   == {c \in Cells : \A a \in Range(Required) : c \in Listed(a)}

(***************************************************************************)
(* A run: reopen_for_writes, then the workers.                             *)
(***************************************************************************)
\* Mutant: a run does not reopen a store that was finalized.
StartRunOnly(v) ==
  /\ value = None /\ runs < MaxRuns /\ runs' = runs + 1 /\ value' = v /\ todo' = Tiles
  /\ step' = [w \in Workers |-> "list"] /\ at' = [w \in Workers |-> 1]
  /\ seen' = [w \in Workers |-> Cells] /\ tile' = [w \in Workers |-> <<>>]
  /\ export' = NotFinal
  /\ UNCHANGED <<store, kills>>

StartRun(v) ==
  /\ value = None /\ runs < MaxRuns /\ runs' = runs + 1 /\ value' = v /\ todo' = Tiles
  /\ presence' = Deferred /\ export' = NotFinal
  /\ step' = [w \in Workers |-> "list"] /\ at' = [w \in Workers |-> 1]
  /\ seen' = [w \in Workers |-> Cells] /\ tile' = [w \in Workers |-> <<>>]
  /\ UNCHANGED <<disk, kills>>

\* written_cells lists one array after the other while others write.
List(w) ==
  /\ step[w] = "list" /\ seen' = [seen EXCEPT ![w] = @ \cap Listed(Required[at[w]])]
  /\ IF at[w] < Len(Required)
     THEN at' = [at EXCEPT ![w] = @ + 1] /\ UNCHANGED step
     ELSE at' = [at EXCEPT ![w] = 1] /\ step' = [step EXCEPT ![w] = "take"]
  /\ UNCHANGED <<store, value, todo, tile, runs, kills, export>>

\* Mutant: no tile is skipped.
WrittenNever(w, t) == FALSE

Written(w, t) == Range(t) \subseteq seen[w]

Skip(w) ==
  /\ step[w] = "take" /\ \E t \in todo : Written(w, t) /\ todo' = todo \ {t}
  /\ UNCHANGED <<store, value, worker, runs, kills, export>>

\* Mutant: the cells that are already there are left out of the write.
ToWriteMissing(w, t) == SelectSeq(t, LAMBDA c : c \notin seen[w])

\* All cells of the tile are solved and written again, whichever were there.
ToWrite(w, t) == t

Take(w) ==
  /\ step[w] = "take"
  /\ \E t \in todo : /\ ~Written(w, t) /\ todo' = todo \ {t}
                     /\ tile' = [tile EXCEPT ![w] = ToWrite(w, t)]
  /\ step' = [step EXCEPT ![w] = "write"] /\ at' = [at EXCEPT ![w] = 0]
  /\ UNCHANGED <<store, value, seen, runs, kills, export>>

\* The next chunk: the arrays of a cell in order, cell after cell.
Chunks(w)    == Len(tile[w]) * Len(Order)
NextCell(w)  == tile[w][(at[w] \div Len(Order)) + 1]
NextArray(w) == Order[(at[w] % Len(Order)) + 1]

WriteChunk(w) ==
  /\ step[w] = "write" /\ at[w] < Chunks(w) /\ at' = [at EXCEPT ![w] = @ + 1]
  /\ disk' = [disk EXCEPT ![NextCell(w)][NextArray(w)] = value]
  /\ UNCHANGED <<presence, value, todo, step, seen, tile, runs, kills, export>>

Idle(w, next) == /\ step' = [step EXCEPT ![w] = next] /\ at' = [at EXCEPT ![w] = 1]
                 /\ tile' = [tile EXCEPT ![w] = <<>>]

TileDone(w) ==
  /\ step[w] = "write" /\ at[w] = Chunks(w) /\ Idle(w, "take")
  /\ UNCHANGED <<store, value, todo, seen, runs, kills, export>>

\* An exception: the tile is requeued, or given up (see TilePipeline).
WriteFails(w) ==
  /\ step[w] = "write" /\ Idle(w, "take")
  /\ todo' \in {todo, todo \union {t \in Tiles : Range(tile[w]) \subseteq Range(t)}}
  /\ UNCHANGED <<store, value, seen, runs, kills, export>>

Exit(w) ==
  /\ step[w] = "take" /\ todo = {} /\ Idle(w, "off")
  /\ UNCHANGED <<store, value, todo, seen, runs, kills, export>>

Kill(w) ==
  /\ step[w] # "off" /\ kills < MaxKills /\ kills' = kills + 1 /\ Idle(w, "off")
  /\ UNCHANGED <<store, value, todo, seen, runs, export>>

RunEnds ==
  /\ value # None /\ \A w \in Workers : step[w] = "off"
  /\ value' = None /\ todo' = {}
  /\ UNCHANGED <<store, worker, runs, kills, export>>

(***************************************************************************)
(* finalize: refuse unless all cells are written or partial is allowed,    *)
(* read the written cells, rebuild presence.  Never while workers write.   *)
(***************************************************************************)
\* Mutant: unwritten cells are not looked for.
FinalizeUnchecked(partial) ==
  /\ value = None /\ runs > 0
  /\ export' = [full |-> ~partial, rows |-> [c \in Counted |-> disk[c]]]
  /\ presence' = [a \in Arrays |-> OnDisk(a)]
  /\ UNCHANGED <<disk, value, todo, worker, runs, kills>>

Finalize(partial) ==
  /\ value = None /\ runs > 0 /\ (Counted = Cells \/ partial)
  /\ export' = [full |-> ~partial, rows |-> [c \in Counted |-> disk[c]]]
  /\ presence' = [a \in Arrays |-> OnDisk(a)]
  /\ UNCHANGED <<disk, value, todo, worker, runs, kills>>

Next ==
  \/ \E v \in Values : StartRun(v)
  \/ \E w \in Workers : \/ List(w) \/ Skip(w) \/ Take(w) \/ WriteChunk(w) \/ TileDone(w)
                        \/ WriteFails(w) \/ Exit(w) \/ Kill(w)
  \/ RunEnds
  \/ \E partial \in BOOLEAN : Finalize(partial)

Spec == Init /\ [][Next]_vars

(***************************************************************************)
(* Properties.                                                             *)
(***************************************************************************)
Uniform(rows, cells) == \E v \in Values : \A c \in cells, a \in Solved : rows[c][a] = v

\* A tile all of whose cells count comes from one run, all arrays of all its
\* cells: what a killed run left of it was written over before it could count;
\* and what a worker lists as written, one array at a time and while others
\* write, counts: no tile is skipped for a cell that is not complete.
OneRunPerTile ==
  /\ \A t \in Tiles : Range(t) \subseteq Counted => Uniform(disk, Range(t))
  /\ \A w \in Workers : step[w] \in {"take", "write"} => seen[w] \subseteq Counted

\* While a worker is writing, every complete cell counts: none is hidden by
\* the presence an earlier, partial finalize recorded.
NothingHidden ==
  (\E w \in Workers : step[w] = "write")
    => {c \in Cells : \A a \in Range(Required) : c \in OnDisk(a)} = Counted

\* A tile that counts is never changed again, by no run and no finalize.
DoneTilesKept ==
  [][\A t \in Tiles : Range(t) \subseteq Counted => \A c \in Range(t) : c \in Counted' /\ disk'[c] = disk[c]]_vars

\* A finalize that was not allowed to be partial exported every cell, each
\* tile as one run solved it.
FullExport ==
  export.full => /\ DOMAIN export.rows = Cells
                 /\ \A t \in Tiles : Uniform(export.rows, Range(t))

=============================================================================
