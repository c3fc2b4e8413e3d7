---------------------------- MODULE TilePipeline ----------------------------
(***************************************************************************)
(* The run stage of one node: worker processes (pipeline/worker.py) drain  *)
(* the node's tile queue (pipeline/launch.py).  A worker is three threads: *)
(* the prefetcher reads bricks ahead, the compute loop solves, the writer  *)
(* stores.  They are joined by two bounded queues, `loads' and `writes',   *)
(* and share with the other workers the queue of tiles, the table of       *)
(* attempts, the list of failed tiles and one lock, all of which live in   *)
(* the manager process and survive a worker.                               *)
(*                                                                         *)
(* A tile stands for its cells: `written' holds the tiles all of whose     *)
(* cells the results store counts (module ResultStore models the cells).   *)
(* Whether a read failed is looked at by the compute loop only, with the   *)
(* effect of a failed solve, so SolveFails stands for both.                *)
(***************************************************************************)
EXTENDS Integers, Sequences, FiniteSets, Functions

CONSTANTS
  Workers,     \* one process per device or CPU slot
  Share,       \* the node's tiles in the order they are queued
  Depth,       \* cluster.prefetch_depth
  Retries,     \* how often a failed tile is requeued
  Resumed,     \* the sets of tiles that earlier runs may have left written
  MaxKills,    \* bound: worker processes killed (kill -9, OOM) in one run
  LogMayFail,  \* whether EventLog.record may raise (full or read-only workdir)
  None,        \* no tile, nobody
  End          \* the _END mark of both queues

WriteDepth == 2                             \* maxsize of the writes queue
Tiles      == Range(Share)
Role       == {"prefetch", "compute", "writer"}
Threads    == Workers \X Role
Slot       == Role \union {"loads", "writes", "queue", "done", "failed", "lost"}
Place      == (Workers \union {None}) \X Slot

ASSUME ShareAssumption   == Share \in Seq(Tiles) /\ IsInjective(Share)
ASSUME BoundsAssumption  == /\ Depth \in Nat \ {0} /\ Retries \in Nat /\ MaxKills \in Nat
                            /\ LogMayFail \in BOOLEAN
ASSUME ResumedAssumption == Resumed \subseteq SUBSET Tiles
ASSUME WorkersAssumption == IsFiniteSet(Workers) /\ Workers # {}
ASSUME MarksAssumption   == /\ None \notin Tiles \union Workers \union {End}
                            /\ None \notin Threads /\ End \notin Tiles

VARIABLES
  pending,   \* the shared queue of tiles not handed out
  attempts,  \* failures reported per tile
  failed,    \* tiles reported more often than they may be retried
  lock,      \* the thread holding the manager lock, or None
  written,   \* tiles whose cells are all in the results store
  snap,      \* per worker: written_cells() as read when its run() began
  pc,        \* per thread: the step it takes next
  hand,      \* per thread: the tile in its local variable, or None
  loads,     \* per worker: tiles read and not yet solved
  writes,    \* per worker: tiles solved and not yet stored
  raised,    \* workers whose compute loop is leaving by an exception
  kills,     \* worker processes killed so far
  place      \* history: where each tile is, or what became of it

manager == <<pending, attempts, failed, lock>>
vars == <<manager, written, snap, pc, hand, loads, writes, raised, kills, place>>

At(w, r)         == pc[<<w, r>>]
Tile(w, r)       == hand[<<w, r>>]
Goto(w, r, step) == pc' = [pc EXCEPT ![<<w, r>>] = step]
Hold(w, r, t)    == hand' = [hand EXCEPT ![<<w, r>>] = t]
Move(t, who, slot) == place' = [place EXCEPT ![t] = <<who, slot>>]

Init ==
  /\ pending = Share /\ attempts = [t \in Tiles |-> 0] /\ failed = <<>> /\ lock = None
  /\ written \in Resumed
  /\ snap = [w \in Workers |-> {}]
  /\ pc = [th \in Threads |-> "new"]
  /\ hand = [th \in Threads |-> None]
  /\ loads = [w \in Workers |-> <<>>] /\ writes = [w \in Workers |-> <<>>]
  /\ raised = {} /\ kills = 0
  /\ place = [t \in Tiles |-> <<None, "queue">>]

\* The worker lists the written cells once, then starts its threads.
Start(w) ==
  /\ \A r \in Role : At(w, r) = "new"
  /\ snap' = [snap EXCEPT ![w] = written]
  /\ pc' = [pc EXCEPT ![<<w, "prefetch">>] = "next", ![<<w, "compute">>] = "get", ![<<w, "writer">>] = "get"]
  /\ UNCHANGED <<manager, written, hand, loads, writes, raised, kills, place>>

(***************************************************************************)
(* source.next(): take the head of the shared queue.                       *)
(***************************************************************************)
\* Mutant: the head is read and stays in the queue.
TakeNextPeeks(w, r, step) ==
  /\ pending # <<>> /\ UNCHANGED pending
  /\ Hold(w, r, Head(pending)) /\ Move(Head(pending), w, r) /\ Goto(w, r, step)
  /\ UNCHANGED <<attempts, failed, lock, written, snap, loads, writes, raised, kills>>

TakeNext(w, r, step) ==
  /\ pending # <<>> /\ pending' = Tail(pending)
  /\ Hold(w, r, Head(pending)) /\ Move(Head(pending), w, r) /\ Goto(w, r, step)
  /\ UNCHANGED <<attempts, failed, lock, written, snap, loads, writes, raised, kills>>

(***************************************************************************)
(* The prefetch thread.                                                    *)
(***************************************************************************)
PrefetchTake(w) ==
  /\ At(w, "prefetch") = "next" /\ pending # <<>> /\ Head(pending) \notin snap[w]
  /\ TakeNext(w, "prefetch", "load")

\* A tile whose cells were all there at the start is dropped, not loaded.
PrefetchSkip(w) ==
  /\ At(w, "prefetch") = "next" /\ pending # <<>> /\ Head(pending) \in snap[w]
  /\ pending' = Tail(pending) /\ Move(Head(pending), None, "done")
  /\ UNCHANGED <<attempts, failed, lock, written, snap, pc, hand, loads, writes, raised, kills>>

\* Mutant: the prefetcher returns without putting _END.
PrefetchDrainedSilently(w) ==
  /\ At(w, "prefetch") = "next" /\ pending = <<>> /\ Goto(w, "prefetch", "done")
  /\ UNCHANGED <<manager, written, snap, hand, loads, writes, raised, kills, place>>

PrefetchDrained(w) ==
  /\ At(w, "prefetch") = "next" /\ pending = <<>> /\ Goto(w, "prefetch", "end")
  /\ UNCHANGED <<manager, written, snap, hand, loads, writes, raised, kills, place>>

PrefetchLoad(w) ==
  /\ At(w, "prefetch") = "load" /\ Goto(w, "prefetch", "put")
  /\ UNCHANGED <<manager, written, snap, hand, loads, writes, raised, kills, place>>

\* _load's except clause logs, and nothing catches what that raises.
PrefetchDies(w) ==
  /\ LogMayFail /\ At(w, "prefetch") = "load" /\ Goto(w, "prefetch", "dead")
  /\ Hold(w, "prefetch", None) /\ Move(Tile(w, "prefetch"), None, "lost")
  /\ UNCHANGED <<manager, written, snap, loads, writes, raised, kills>>

\* Mutant: the loads queue has no maxsize.
PrefetchPutUnbounded(w) ==
  /\ At(w, "prefetch") = "put" /\ Goto(w, "prefetch", "next")
  /\ loads' = [loads EXCEPT ![w] = Append(@, Tile(w, "prefetch"))]
  /\ Hold(w, "prefetch", None) /\ Move(Tile(w, "prefetch"), w, "loads")
  /\ UNCHANGED <<manager, written, snap, writes, raised, kills>>

PrefetchPut(w) ==
  /\ At(w, "prefetch") = "put" /\ Len(loads[w]) < Depth /\ Goto(w, "prefetch", "next")
  /\ loads' = [loads EXCEPT ![w] = Append(@, Tile(w, "prefetch"))]
  /\ Hold(w, "prefetch", None) /\ Move(Tile(w, "prefetch"), w, "loads")
  /\ UNCHANGED <<manager, written, snap, writes, raised, kills>>

PrefetchEnd(w) ==
  /\ At(w, "prefetch") = "end" /\ Len(loads[w]) < Depth /\ Goto(w, "prefetch", "done")
  /\ loads' = [loads EXCEPT ![w] = Append(@, End)]
  /\ UNCHANGED <<manager, written, snap, hand, writes, raised, kills, place>>

(***************************************************************************)
(* source.done(tile, False), called by the compute loop and the writer:    *)
(* lock, count the failure, requeue the tile or give it up, unlock: each   *)
(* a call to the manager.                                                  *)
(* What follows depends on the caller and on which loop it is in.          *)
(***************************************************************************)
Acquire(w, r) ==
  /\ At(w, r) = "report" /\ lock = None /\ lock' = <<w, r>> /\ Goto(w, r, "record")
  /\ UNCHANGED <<pending, attempts, failed, written, snap, hand, loads, writes, raised, kills, place>>

Count(w, r) ==
  /\ At(w, r) = "record" /\ Goto(w, r, "requeue")
  /\ attempts' = [attempts EXCEPT ![Tile(w, r)] = @ + 1]
  /\ UNCHANGED <<pending, failed, lock, written, snap, hand, loads, writes, raised, kills, place>>

\* Mutant: the retry limit is off by one.
RequeueOneTooMany(w, r) ==
  LET t == Tile(w, r) IN
  /\ At(w, r) = "requeue" /\ Hold(w, r, None) /\ Goto(w, r, "release")
  /\ \/ /\ attempts[t] <= Retries + 1 /\ pending' = Append(pending, t)
        /\ Move(t, None, "queue") /\ UNCHANGED failed
     \/ /\ attempts[t] > Retries + 1 /\ failed' = Append(failed, t)
        /\ Move(t, None, "failed") /\ UNCHANGED pending
  /\ UNCHANGED <<attempts, lock, written, snap, loads, writes, raised, kills>>

Requeue(w, r) ==
  LET t == Tile(w, r) IN
  /\ At(w, r) = "requeue" /\ Hold(w, r, None) /\ Goto(w, r, "release")
  /\ \/ /\ attempts[t] <= Retries /\ pending' = Append(pending, t)
        /\ Move(t, None, "queue") /\ UNCHANGED failed
     \/ /\ attempts[t] > Retries /\ failed' = Append(failed, t)
        /\ Move(t, None, "failed") /\ UNCHANGED pending
  /\ UNCHANGED <<attempts, lock, written, snap, loads, writes, raised, kills>>

InSyncPass(w) == At(w, "writer") = "done"
Resume(w, r)  == IF r = "compute" /\ InSyncPass(w) THEN "sync" ELSE "get"

Release(w, r) ==
  /\ At(w, r) = "release" /\ lock' = None /\ Goto(w, r, Resume(w, r))
  /\ UNCHANGED <<pending, attempts, failed, written, snap, hand, loads, writes, raised, kills, place>>

(***************************************************************************)
(* The compute loop.                                                       *)
(***************************************************************************)
ComputeGet(w) ==
  /\ At(w, "compute") = "get" /\ loads[w] # <<>> /\ Head(loads[w]) # End
  /\ loads' = [loads EXCEPT ![w] = Tail(@)]
  /\ Hold(w, "compute", Head(loads[w])) /\ Move(Head(loads[w]), w, "compute")
  /\ Goto(w, "compute", "solve")
  /\ UNCHANGED <<manager, written, snap, writes, raised, kills>>

\* Logging after loads.get() and after writes.put() is not caught: when it
\* raises, the loop is left through the finally block.
Logged(w, step) ==
  \/ Goto(w, "compute", step) /\ UNCHANGED raised
  \/ LogMayFail /\ Goto(w, "compute", "close") /\ raised' = raised \union {w}

ComputeEnd(w) ==
  /\ At(w, "compute") = "get" /\ loads[w] # <<>> /\ Head(loads[w]) = End
  /\ loads' = [loads EXCEPT ![w] = Tail(@)] /\ Logged(w, "close")
  /\ UNCHANGED <<manager, written, snap, hand, writes, kills, place>>

Solve(w) ==
  /\ At(w, "compute") = "solve" /\ Goto(w, "compute", IF InSyncPass(w) THEN "write" ELSE "put")
  /\ UNCHANGED <<manager, written, snap, hand, loads, writes, raised, kills, place>>

\* Mutant: a failed solve is noted and source.done is not called.
SolveFailsUnreported(w) ==
  /\ At(w, "compute") = "solve" /\ Goto(w, "compute", Resume(w, "compute"))
  /\ Hold(w, "compute", None)
  /\ UNCHANGED <<manager, written, snap, loads, writes, raised, kills, place>>

SolveFails(w) ==
  /\ At(w, "compute") = "solve" /\ Goto(w, "compute", "report")
  /\ UNCHANGED <<manager, written, snap, hand, loads, writes, raised, kills, place>>

PutResult(w) ==
  /\ At(w, "compute") = "put" /\ Len(writes[w]) < WriteDepth /\ Logged(w, "get")
  /\ writes' = [writes EXCEPT ![w] = Append(@, Tile(w, "compute"))]
  /\ Hold(w, "compute", None) /\ Move(Tile(w, "compute"), w, "writes")
  /\ UNCHANGED <<manager, written, snap, loads, kills>>

\* Logging a read or a solve raises: the tile in hand is dropped, and in the
\* synchronous pass there is no finally block left to run.
ComputeRaises(w) ==
  /\ LogMayFail /\ At(w, "compute") = "solve" /\ raised' = raised \union {w}
  /\ Goto(w, "compute", IF InSyncPass(w) THEN "leave" ELSE "close")
  /\ Hold(w, "compute", None) /\ Move(Tile(w, "compute"), None, "lost")
  /\ UNCHANGED <<manager, written, snap, loads, writes, kills>>

Close(w) ==
  /\ At(w, "compute") = "close" /\ Len(writes[w]) < WriteDepth /\ Goto(w, "compute", "join")
  /\ writes' = [writes EXCEPT ![w] = Append(@, End)]
  /\ UNCHANGED <<manager, written, snap, hand, loads, raised, kills, place>>

\* Mutant: the prefetcher is joined without a timeout.
JoinForever(w) ==
  /\ At(w, "compute") = "join" /\ At(w, "writer") = "done" /\ At(w, "prefetch") = "done"
  /\ Goto(w, "compute", IF w \in raised THEN "leave" ELSE "sync")
  /\ UNCHANGED <<manager, written, snap, hand, loads, writes, raised, kills, place>>

\* Mutant: there is no synchronous pass.
JoinAndLeave(w) ==
  /\ At(w, "compute") = "join" /\ At(w, "writer") = "done" /\ Goto(w, "compute", "leave")
  /\ UNCHANGED <<manager, written, snap, hand, loads, writes, raised, kills, place>>

\* The wait for the prefetcher times out, so it is no condition.
Join(w) ==
  /\ At(w, "compute") = "join" /\ At(w, "writer") = "done"
  /\ Goto(w, "compute", IF w \in raised THEN "leave" ELSE "sync")
  /\ UNCHANGED <<manager, written, snap, hand, loads, writes, raised, kills, place>>

\* Tiles requeued after the prefetcher saw the queue empty.
SyncTake(w) == At(w, "compute") = "sync" /\ TakeNext(w, "compute", "solve")

SyncDrained(w) ==
  /\ At(w, "compute") = "sync" /\ pending = <<>> /\ Goto(w, "compute", "leave")
  /\ UNCHANGED <<manager, written, snap, hand, loads, writes, raised, kills, place>>

(***************************************************************************)
(* The writer thread, and write_tile in the synchronous pass.              *)
(***************************************************************************)
WriterGet(w) ==
  /\ At(w, "writer") = "get" /\ writes[w] # <<>> /\ Head(writes[w]) # End
  /\ writes' = [writes EXCEPT ![w] = Tail(@)]
  /\ Hold(w, "writer", Head(writes[w])) /\ Move(Head(writes[w]), w, "writer")
  /\ Goto(w, "writer", "write")
  /\ UNCHANGED <<manager, written, snap, loads, raised, kills>>

WriterEnd(w) ==
  /\ At(w, "writer") = "get" /\ writes[w] # <<>> /\ Head(writes[w]) = End
  /\ writes' = [writes EXCEPT ![w] = Tail(@)] /\ Goto(w, "writer", "done")
  /\ UNCHANGED <<manager, written, snap, hand, loads, raised, kills, place>>

Write(w, r) ==
  /\ At(w, r) = "write" /\ written' = written \union {Tile(w, r)}
  /\ Hold(w, r, None) /\ Move(Tile(w, r), None, "done") /\ Goto(w, r, Resume(w, r))
  /\ UNCHANGED <<manager, snap, loads, writes, raised, kills>>

\* write_tile, or the event logged after it, raised: the tile may be stored.
WriteFails(w, r) ==
  /\ At(w, r) = "write" /\ written' \in {written, written \union {Tile(w, r)}}
  /\ Goto(w, r, "report")
  /\ UNCHANGED <<manager, snap, hand, loads, writes, raised, kills, place>>

(***************************************************************************)
(* The end of a process, and its death.  Either takes the threads, their   *)
(* tiles and the worker's two queues; the manager keeps its state, a lock  *)
(* held by the dead worker included.  A request for the lock that the      *)
(* manager already has is served after the death of who sent it.           *)
(***************************************************************************)
Gone(w) == At(w, "compute") \in {"exit", "killed", "zombie"}

Vanish(w, step, zombies) ==
  /\ pc' = [th \in Threads |-> IF th[1] # w THEN pc[th] ELSE IF th \in zombies THEN "zombie" ELSE step]
  /\ hand' = [th \in Threads |-> IF th[1] = w THEN None ELSE hand[th]]
  /\ loads' = [loads EXCEPT ![w] = <<>>] /\ writes' = [writes EXCEPT ![w] = <<>>]
  /\ place' = [t \in Tiles |-> IF place[t][1] = w THEN <<None, "lost">> ELSE place[t]]
  /\ UNCHANGED <<manager, written, snap, raised>>

Leave(w) == At(w, "compute") = "leave" /\ Vanish(w, "exit", {}) /\ UNCHANGED kills

Kill(w) ==
  /\ kills < MaxKills /\ ~Gone(w) /\ kills' = kills + 1
  /\ \E zombies \in SUBSET {th \in Threads : th[1] = w /\ pc[th] = "report"} :
       Vanish(w, "killed", zombies)

ZombieAcquire(w, r) ==
  /\ At(w, r) = "zombie" /\ lock = None /\ lock' = <<w, r>> /\ Goto(w, r, "killed")
  /\ UNCHANGED <<pending, attempts, failed, written, snap, hand, loads, writes, raised, kills, place>>

(***************************************************************************)
(* Specification.                                                          *)
(***************************************************************************)
Prefetch(w) == \/ PrefetchTake(w) \/ PrefetchSkip(w) \/ PrefetchDrained(w)
               \/ PrefetchLoad(w) \/ PrefetchPut(w) \/ PrefetchEnd(w)
Report(w, r) == Acquire(w, r) \/ Count(w, r) \/ Requeue(w, r) \/ Release(w, r)
Compute(w) == \/ Start(w) \/ ComputeGet(w) \/ ComputeEnd(w) \/ Solve(w) \/ SolveFails(w)
              \/ PutResult(w) \/ Close(w) \/ Join(w) \/ SyncTake(w) \/ SyncDrained(w)
              \/ Write(w, "compute") \/ WriteFails(w, "compute") \/ Report(w, "compute")
              \/ Leave(w)
Writer(w) == \/ WriterGet(w) \/ WriterEnd(w) \/ Write(w, "writer") \/ WriteFails(w, "writer")
             \/ Report(w, "writer")
Fault(w) == \/ PrefetchDies(w) \/ ComputeRaises(w) \/ Kill(w)
            \/ \E r \in {"compute", "writer"} : ZombieAcquire(w, r)

AllGone == \A w \in Workers : Gone(w)
Joined  == AllGone /\ (\A th \in Threads : pc[th] # "zombie") /\ UNCHANGED vars

Next == \/ \E w \in Workers : Prefetch(w) \/ Compute(w) \/ Writer(w) \/ Fault(w)
        \/ Joined

\* A runnable thread is scheduled; no fault has to happen.
Fairness == \A w \in Workers : WF_vars(Prefetch(w)) /\ WF_vars(Compute(w)) /\ WF_vars(Writer(w))

Spec == Init /\ [][Next]_vars
FairSpec == Spec /\ Fairness

(***************************************************************************)
(* Properties.                                                             *)
(***************************************************************************)
Step == {"new", "next", "load", "put", "end", "done", "dead", "get", "solve", "report", "record",
         "requeue", "release", "close", "join", "sync", "write", "leave", "exit", "killed", "zombie"}

\* The type of the state, with the capacity of the two bounded queues.
TypeOK ==
  /\ pending \in Seq(Tiles) /\ failed \in Seq(Tiles)
  /\ attempts \in [Tiles -> 0 .. Retries + 1]
  /\ lock \in Threads \union {None}
  /\ written \in SUBSET Tiles /\ snap \in [Workers -> SUBSET Tiles]
  /\ pc \in [Threads -> Step] /\ hand \in [Threads -> Tiles \union {None}]
  /\ loads \in [Workers -> Seq(Tiles \union {End})]
  /\ writes \in [Workers -> Seq(Tiles \union {End})]
  /\ \A w \in Workers : Len(loads[w]) <= Depth /\ Len(writes[w]) <= WriteDepth
  /\ raised \in SUBSET Workers /\ kills \in 0 .. MaxKills
  /\ place \in [Tiles -> Place]

\* Everywhere the tile is: the position in the shared queue, a thread's
\* variable, a position in a worker's queue.
InQueue(t)  == {<<None, "queue", i>> : i \in {j \in DOMAIN pending : pending[j] = t}}
InHands(t)  == {<<th[1], th[2], 0>> : th \in {h \in Threads : hand[h] = t}}
InLoads(t)  == UNION {{<<w, "loads", i>> : i \in {j \in DOMAIN loads[w] : loads[w][j] = t}} : w \in Workers}
InWrites(t) == UNION {{<<w, "writes", i>> : i \in {j \in DOMAIN writes[w] : writes[w][j] = t}} : w \in Workers}
Holders(t)  == InQueue(t) \union InHands(t) \union InLoads(t) \union InWrites(t)

\* No tile is in two places: no two threads, of one worker or of two, ever
\* solve or write the same cells at once, whatever is retried or killed.
OneHolder == \A t \in Tiles : \A h1, h2 \in Holders(t) : h1 = h2

\* The failure of t is counted, and not yet acted on.
Recording(t) == \E th \in Threads : hand[th] = t /\ pc[th] = "requeue"

Lost == {t \in Tiles : place[t][2] = "lost"}

\* A tile that is nowhere is stored, was reported as failed, or went with the
\* worker that had it: none is dropped between the threads.
Accounted == \A t \in Tiles : Holders(t) = {} => t \in written \union Range(failed) \union Lost

\* A tile is given up exactly when one more attempt failed than it may be
\* retried, unless a kill comes between the count and the list; it is listed
\* once, and nobody works on it afterwards.
GivenUpOnce ==
  /\ IsInjective(failed)
  /\ \A t \in Range(failed) : attempts[t] = Retries + 1 /\ Holders(t) = {}
  /\ \A t \in Tiles : attempts[t] = Retries + 1 =>
       t \in Range(failed) \union Lost \/ Recording(t)

\* When every worker of a run without faults has left, each tile is stored or
\* listed as failed, the ones requeued late by another worker included.
Complete == AllGone /\ kills = 0 /\ ~LogMayFail => Tiles \subseteq written \union Range(failed)

\* Of the tiles in a worker, `bricks' are held in memory: those in loads, the
\* one the prefetcher is reading or waits to hand over, the one being solved.
Bricks(w) == Cardinality(Range(loads[w]) \ {End}) + Cardinality({r \in {"prefetch", "compute"} : Tile(w, r) # None})
BricksBounded == \A w \in Workers : Bricks(w) <= Depth + 2

\* A step that loses tiles without a log fault is a kill, and loses at most
\* what one worker can hold: both queues, and one tile per thread.
CrashLoss ==
  [][~LogMayFail /\ Lost' # Lost =>
       kills' = kills + 1 /\ Cardinality(Lost' \ Lost) <= Depth + WriteDepth + Cardinality(Role)]_vars

\* Every behaviour of the threads is one of the ledger, where a failure counts
\* when the tile is put back or given up.
Ledger == INSTANCE TileLedger WITH
  fate   <- [t \in Tiles |-> IF place[t][1] # None THEN "taken"
                             ELSE IF place[t][2] = "queue" THEN "queued" ELSE place[t][2]],
  owner  <- [t \in Tiles |-> place[t][1]],
  tries  <- [t \in Tiles |-> IF Recording(t) THEN attempts[t] - 1 ELSE attempts[t]],
  stored <- written
ImplementsLedger == Ledger!Spec

\* Without faults every worker leaves: no thread waits for ever on a queue, on
\* another thread or for the lock, however the failures and retries fall.
RunEnds == <>AllGone

\* The only ways a run can hang: a failed tile to report when the lock's
\* holder was killed, and an empty queue when the prefetcher died without
\* putting _END.
LockOrphaned == lock # None /\ pc[lock] = "killed" /\ \E th \in Threads : pc[th] = "report"
Starved(w)   == At(w, "prefetch") = "dead" /\ At(w, "compute") = "get" /\ loads[w] = <<>>
SurvivorsFinish == <>(AllGone \/ LockOrphaned \/ \E w \in Workers : Starved(w))

=============================================================================
