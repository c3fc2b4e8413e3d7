------------------------- MODULE TilePipelineProofs -------------------------
(***************************************************************************)
(* Theorems about TilePipeline, for any workers, tiles, queue depth, retry *)
(* limit and number of kills, with and without log faults.                 *)
(*                                                                         *)
(* None of the invariants is inductive by itself: that a failed tile is    *)
(* counted at most Retries + 1 times rests on its being in one place only, *)
(* and that on every thread's variable being empty when it takes the next  *)
(* tile.  IInv conjoins them, with the history variable place as the hinge *)
(* between the places: a tile found in two of them would have two values   *)
(* of place.  The second part adds the converse, that a tile is where its  *)
(* place says; the third maps every step to one of TileLedger.             *)
(***************************************************************************)
EXTENDS TilePipeline, FiniteSetTheorems, TLAPS

\* The steps at which a thread has a tile in its variable.
Busy == {"load", "put", "solve", "report", "record", "requeue", "write"}
HandsFull == \A th \in Threads : hand[th] # None <=> pc[th] \in Busy

\* A sequence holds its tiles at place p, each of them once.
Placed(s, p, f) == \A i \in 1 .. Len(s) : s[i] # End => f[s[i]] = p
Distinct(s)     == \A i, j \in 1 .. Len(s) : s[i] # End /\ s[i] = s[j] => i = j

Queued == <<None, "queue">>
Failed == <<None, "failed">>
GoneAway == <<None, "lost">>
Loads(w)  == <<w, "loads">>
Writes(w) == <<w, "writes">>

\* place is where each tile is, no queue has a tile twice, and a tile whose
\* place is the list of failed tiles is listed.
QueuePlaced  == Placed(pending, Queued, place) /\ Distinct(pending)
FailedPlaced == /\ Placed(failed, Failed, place) /\ Distinct(failed)
                /\ \A t \in Tiles : place[t] = Failed => \E i \in 1 .. Len(failed) : failed[i] = t
LoadsPlaced  == \A w \in Workers : Placed(loads[w], Loads(w), place) /\ Distinct(loads[w])
WritesPlaced == \A w \in Workers : Placed(writes[w], Writes(w), place) /\ Distinct(writes[w])
HandPlaced   == \A th \in Threads, t \in Tiles : hand[th] = t <=> place[t] = th

\* A tile given up had one failure counted more than it may be retried; one
\* with as many is given up, lost, or about to be given up.
Counted == \A t \in Tiles :
  /\ place[t] = Failed => attempts[t] = Retries + 1
  /\ attempts[t] > Retries => \/ place[t] \in {Failed, GoneAway}
                              \/ place[t] \in Threads /\ pc[place[t]] = "requeue"

IInv == /\ TypeOK /\ HandsFull
        /\ QueuePlaced /\ FailedPlaced /\ LoadsPlaced /\ WritesPlaced /\ HandPlaced
        /\ Counted

-----------------------------------------------------------------------------
(***************************************************************************)
(* Places, and sequences of tiles at a place.                              *)
(***************************************************************************)
LEMMA PlaceFacts ==
  /\ \A w \in Workers, r \in Role : <<w, r>> \in Threads
  /\ \A th \in Threads : th \in Place /\ th # Queued /\ th # Failed /\ th # GoneAway
  /\ \A th \in Threads, w \in Workers : th # Loads(w) /\ th # Writes(w)
  /\ \A w \in Workers : Loads(w) \in Place /\ Loads(w) \notin {Queued, Failed, GoneAway} \union Threads
  /\ \A w \in Workers : Writes(w) \in Place /\ Writes(w) \notin {Queued, Failed, GoneAway} \union Threads
  /\ \A v, w \in Workers : Loads(v) # Writes(w) /\ (Loads(v) = Loads(w) => v = w) /\ (Writes(v) = Writes(w) => v = w)
  /\ Queued \in Place /\ Failed \in Place /\ GoneAway \in Place
  /\ Queued # Failed /\ Queued # GoneAway /\ Failed # GoneAway
  BY MarksAssumption DEF Threads, Place, Slot, Role, Queued, Failed, GoneAway, Loads, Writes

LEMMA KeepPlaced ==
  ASSUME NEW s \in Seq(Tiles \union {End}), NEW p, NEW f, NEW g, Placed(s, p, f),
         \A t \in Tiles : f[t] = p => g[t] = p
  PROVE  Placed(s, p, g)
  BY DEF Placed

LEMMA TailPlaced ==
  ASSUME NEW s \in Seq(Tiles \union {End}), s # <<>>, NEW p, NEW f, NEW g,
         Placed(s, p, f), Distinct(s),
         \A t \in Tiles : t # Head(s) /\ f[t] = p => g[t] = p
  PROVE  Placed(Tail(s), p, g) /\ Distinct(Tail(s))
<1>1. /\ Len(s) > 0 /\ Len(Tail(s)) = Len(s) - 1 /\ Head(s) = s[1]
      /\ \A i \in 1 .. Len(Tail(s)) : Tail(s)[i] = s[i + 1]
  OBVIOUS
<1>2. ASSUME NEW i \in 1 .. Len(Tail(s)), Tail(s)[i] # End PROVE g[Tail(s)[i]] = p
  <2>1. i + 1 \in 1 .. Len(s) /\ 1 \in 1 .. Len(s) /\ s[i + 1] = Tail(s)[i] /\ i + 1 # 1
    BY <1>1
  <2>2. s[i + 1] \in Tiles /\ f[s[i + 1]] = p
    BY <1>2, <2>1 DEF Placed
  <2>3. s[i + 1] # s[1]
    BY <1>2, <2>1 DEF Distinct
  <2>4. QED BY <1>1, <2>1, <2>2, <2>3
<1>3. Distinct(Tail(s))
  BY <1>1 DEF Distinct
<1>4. QED BY <1>2, <1>3 DEF Placed

LEMMA AppendPlaced ==
  ASSUME NEW s \in Seq(Tiles \union {End}), NEW e \in Tiles, NEW p, NEW f, NEW g,
         Placed(s, p, f), Distinct(s), f[e] # p, g[e] = p,
         \A t \in Tiles : f[t] = p => g[t] = p
  PROVE  Placed(Append(s, e), p, g) /\ Distinct(Append(s, e))
<1>1. /\ Len(Append(s, e)) = Len(s) + 1 /\ Append(s, e)[Len(s) + 1] = e
      /\ \A i \in 1 .. Len(s) : Append(s, e)[i] = s[i] /\ s[i] \in Tiles \union {End}
  OBVIOUS
<1>2. \A i \in 1 .. Len(s) : s[i] # e
  BY MarksAssumption DEF Placed
<1>3. Placed(Append(s, e), p, g)
  BY <1>1 DEF Placed
<1>4. Distinct(Append(s, e))
  BY <1>1, <1>2 DEF Distinct
<1>5. QED BY <1>3, <1>4

LEMMA AppendEndPlaced ==
  ASSUME NEW s \in Seq(Tiles \union {End}), NEW p, NEW f, Placed(s, p, f), Distinct(s)
  PROVE  Placed(Append(s, End), p, f) /\ Distinct(Append(s, End))
<1>1. /\ Len(Append(s, End)) = Len(s) + 1 /\ Append(s, End)[Len(s) + 1] = End
      /\ \A i \in 1 .. Len(s) : Append(s, End)[i] = s[i]
  OBVIOUS
<1>2. Placed(Append(s, End), p, f)
  BY <1>1 DEF Placed
<1>3. Distinct(Append(s, End))
  BY <1>1 DEF Distinct
<1>4. QED BY <1>2, <1>3

\* Every queue is a sequence the lemmas above are about.
LEMMA QueueTypes ==
  ASSUME TypeOK
  PROVE  /\ pending \in Seq(Tiles \union {End}) /\ failed \in Seq(Tiles \union {End})
         /\ \A w \in Workers : loads[w] \in Seq(Tiles \union {End}) /\ writes[w] \in Seq(Tiles \union {End})
  BY DEF TypeOK

\* A step that moves no tile at a place and leaves its queue alone.
LEMMA QueuesUndisturbed ==
  ASSUME IInv
  PROVE  /\ pending' = pending /\ (\A t \in Tiles : place[t] = Queued => place'[t] = Queued) => QueuePlaced'
         /\ failed' = failed /\ (\A t \in Tiles : place[t] = Failed <=> place'[t] = Failed) => FailedPlaced'
         /\ loads' = loads /\ (\A t \in Tiles, w \in Workers : place[t] = Loads(w) => place'[t] = Loads(w)) => LoadsPlaced'
         /\ writes' = writes /\ (\A t \in Tiles, w \in Workers : place[t] = Writes(w) => place'[t] = Writes(w)) => WritesPlaced'
<1> USE QueueTypes DEF IInv
<1>1. pending' = pending /\ (\A t \in Tiles : place[t] = Queued => place'[t] = Queued) => QueuePlaced'
  BY KeepPlaced DEF QueuePlaced
<1>2. failed' = failed /\ (\A t \in Tiles : place[t] = Failed <=> place'[t] = Failed) => FailedPlaced'
  BY KeepPlaced DEF FailedPlaced
<1>3. loads' = loads /\ (\A t \in Tiles, w \in Workers : place[t] = Loads(w) => place'[t] = Loads(w)) => LoadsPlaced'
  BY KeepPlaced DEF LoadsPlaced
<1>4. writes' = writes /\ (\A t \in Tiles, w \in Workers : place[t] = Writes(w) => place'[t] = Writes(w)) => WritesPlaced'
  BY KeepPlaced DEF WritesPlaced
<1>5. QED BY <1>1, <1>2, <1>3, <1>4

\* No thread leaves the step between the count and the list.
Kept == \A th \in Threads : pc[th] = "requeue" => pc'[th] = "requeue"

LEMMA KeptExcept ==
  ASSUME IInv, NEW th \in Threads, pc[th] # "requeue", NEW step, pc' = [pc EXCEPT ![th] = step]
  PROVE  Kept
  BY DEF IInv, TypeOK, Kept

\* A step that counts no failure and moves no tile.
LEMMA CountedStill ==
  ASSUME IInv, Kept, UNCHANGED <<attempts, place>>
  PROVE  Counted'
  BY DEF IInv, Kept, Counted

\* A step that counts no failure and moves one tile, which is not given up.
LEMMA CountedMoved ==
  ASSUME IInv, Kept, attempts' = attempts, NEW t \in Tiles,
         place[t] \notin {Failed, GoneAway}, place[t] \in Threads => pc[place[t]] # "requeue",
         place'[t] # Failed, \A u \in Tiles : u # t => place'[u] = place[u]
  PROVE  Counted'
<1>1. attempts[t] <= Retries
  <2>1. attempts[t] \in 0 .. Retries + 1 /\ Retries \in Nat
    BY BoundsAssumption DEF IInv, TypeOK
  <2>2. ~(attempts[t] > Retries)
    BY DEF IInv, Counted
  <2>3. QED BY <2>1, <2>2
<1>2. ASSUME NEW u \in Tiles
      PROVE  /\ place'[u] = Failed => attempts'[u] = Retries + 1
             /\ attempts'[u] > Retries => \/ place'[u] \in {Failed, GoneAway}
                                          \/ place'[u] \in Threads /\ pc'[place'[u]] = "requeue"
  <2>1. CASE u = t
    <3>1. attempts[t] \in 0 .. Retries + 1 /\ Retries \in Nat
      BY BoundsAssumption DEF IInv, TypeOK
    <3>2. QED BY <1>1, <2>1, <3>1
  <2>2. CASE u # t
    BY <2>2 DEF IInv, Kept, Counted
  <2>3. QED BY <2>1, <2>2
<1>3. QED BY <1>2 DEF Counted

-----------------------------------------------------------------------------
(***************************************************************************)
(* Every step keeps the invariant.  First the steps that move no tile.     *)
(***************************************************************************)
LEMMA QuietKeeps ==
  ASSUME IInv, UNCHANGED <<pending, attempts, failed, hand, loads, writes, place>>,
         TypeOK', HandsFull', Kept
  PROVE  IInv'
<1>1. QueuePlaced' /\ FailedPlaced' /\ LoadsPlaced' /\ WritesPlaced'
  BY QueuesUndisturbed
<1>2. HandPlaced' /\ Counted'
  BY CountedStill DEF IInv, HandPlaced
<1>3. QED BY <1>1, <1>2 DEF IInv

\* A thread goes from a step without a tile to another, or from one with to one with.
Quietly(w, r, step) == Goto(w, r, step) /\ step \in Step /\ (step \in Busy <=> At(w, r) \in Busy) /\ At(w, r) # "requeue"

LEMMA QuietlyFull ==
  ASSUME IInv, NEW w \in Workers, NEW r \in Role, NEW step, Quietly(w, r, step), hand' = hand
  PROVE  HandsFull' /\ Kept /\ pc' \in [Threads -> Step]
<1>1. /\ pc' = [pc EXCEPT ![<<w, r>>] = step] /\ step \in Step
      /\ step \in Busy <=> pc[<<w, r>>] \in Busy
      /\ pc[<<w, r>>] # "requeue" /\ <<w, r>> \in Threads
  BY PlaceFacts DEF Quietly, Goto, At
<1>2. Kept
  BY <1>1, KeptExcept
<1>3. HandsFull' /\ pc' \in [Threads -> Step]
  BY <1>1 DEF IInv, TypeOK, HandsFull
<1>4. QED BY <1>2, <1>3

LEMMA QuietStep ==
  ASSUME IInv, NEW w \in Workers,
         \/ PrefetchDrained(w) \/ PrefetchLoad(w) \/ Solve(w) \/ SolveFails(w) \/ Join(w) \/ SyncDrained(w)
         \/ \E r \in {"compute", "writer"} :
              Acquire(w, r) \/ Release(w, r) \/ WriteFails(w, r) \/ ZombieAcquire(w, r)
  PROVE  IInv'
<1>1. PICK r \in Role, step \in Step : Quietly(w, r, step)
  BY DEF PrefetchDrained, PrefetchLoad, Solve, SolveFails, Join, SyncDrained, Acquire, Release, ZombieAcquire, WriteFails,
         Quietly, Role, Step, Busy, Resume
<1>2. UNCHANGED <<pending, attempts, failed, snap, hand, loads, writes, raised, kills, place>>
  BY DEF PrefetchDrained, PrefetchLoad, Solve, SolveFails, Join, SyncDrained, Acquire, Release, ZombieAcquire, WriteFails, manager
<1>3. lock' \in Threads \union {None}
  <2>1. lock' \in {lock, None, <<w, "compute">>, <<w, "writer">>}
    BY DEF PrefetchDrained, PrefetchLoad, Solve, SolveFails, Join, SyncDrained, Acquire, Release, ZombieAcquire, WriteFails, manager
  <2>2. <<w, "compute">> \in Threads /\ <<w, "writer">> \in Threads
    BY PlaceFacts DEF Role
  <2>3. lock \in Threads \union {None}
    BY DEF IInv, TypeOK
  <2>4. QED BY <2>1, <2>2, <2>3
<1>4. written' \subseteq Tiles
  <2>1. CASE \E q \in {"compute", "writer"} : WriteFails(w, q)
    <3>1. PICK q \in {"compute", "writer"} : WriteFails(w, q) BY <2>1
    <3>2. Tile(w, q) \in Tiles
      BY <3>1, PlaceFacts DEF WriteFails, Tile, At, IInv, TypeOK, HandsFull, Busy, Role
    <3>3. QED BY <3>1, <3>2 DEF WriteFails, IInv, TypeOK
  <2>2. CASE written' = written
    BY <2>2 DEF IInv, TypeOK
  <2>3. QED
    BY <2>1, <2>2 DEF PrefetchDrained, PrefetchLoad, Solve, SolveFails, Join, SyncDrained, Acquire, Release, ZombieAcquire
<1>5. TypeOK' /\ HandsFull' /\ Kept
  BY <1>1, <1>2, <1>3, <1>4, QuietlyFull DEF IInv, TypeOK
<1>6. QED BY <1>2, <1>5, QuietKeeps

LEMMA StartKeeps ==
  ASSUME IInv, NEW w \in Workers, Start(w) PROVE IInv'
<1>1. HandsFull' /\ Kept /\ pc' \in [Threads -> Step]
  BY PlaceFacts DEF Start, At, IInv, TypeOK, HandsFull, Kept, Busy, Step, Role
<1>2. TypeOK'
  BY <1>1 DEF Start, manager, IInv, TypeOK
<1>3. QED BY <1>1, <1>2, QuietKeeps DEF Start, manager

(***************************************************************************)
(* Steps that move one tile.                                               *)
(***************************************************************************)
LEMMA HeldTile ==
  ASSUME IInv, NEW th \in Threads, pc[th] \in Busy
  PROVE  hand[th] \in Tiles /\ place[hand[th]] = th
  BY DEF IInv, TypeOK, HandsFull, HandPlaced

\* A thread without a tile takes t, which no thread had.
LEMMA HandTaken ==
  ASSUME IInv, NEW th \in Threads, NEW t \in Tiles, NEW step \in Busy,
         pc[th] \notin Busy, place[t] \notin Threads,
         pc' = [pc EXCEPT ![th] = step], hand' = [hand EXCEPT ![th] = t],
         place' = [place EXCEPT ![t] = th]
  PROVE  /\ HandsFull' /\ HandPlaced'
         /\ pc' \in [Threads -> Step] /\ hand' \in [Threads -> Tiles \union {None}] /\ place' \in [Tiles -> Place]
<1>1. hand[th] = None /\ t # None
  BY MarksAssumption DEF IInv, HandsFull
<1>2. HandsFull'
  BY <1>1 DEF IInv, TypeOK, HandsFull
<1>3. HandPlaced'
  <2>1. /\ hand'[th] = t /\ \A h \in Threads : h # th => hand'[h] = hand[h]
        /\ place'[t] = th /\ \A u \in Tiles : u # t => place'[u] = place[u]
    BY DEF IInv, TypeOK
  <2>2. \A u \in Tiles : place[u] # th
    BY <1>1, MarksAssumption DEF IInv, HandPlaced
  <2>3. \A h \in Threads : hand[h] # t
    BY DEF IInv, HandPlaced
  <2>4. QED BY <2>1, <2>2, <2>3 DEF IInv, HandPlaced
<1>4. QED BY <1>2, <1>3, PlaceFacts DEF IInv, TypeOK, Busy, Step

\* A thread hands its tile on to a place that is no thread's.
LEMMA HandDropped ==
  ASSUME IInv, NEW th \in Threads, NEW step \in Step \ Busy, NEW q \in Place \ Threads,
         pc[th] \in Busy, pc' = [pc EXCEPT ![th] = step], hand' = [hand EXCEPT ![th] = None],
         place' = [place EXCEPT ![hand[th]] = q]
  PROVE  /\ HandsFull' /\ HandPlaced'
         /\ pc' \in [Threads -> Step] /\ hand' \in [Threads -> Tiles \union {None}] /\ place' \in [Tiles -> Place]
<1>1. hand[th] \in Tiles /\ place[hand[th]] = th
  BY HeldTile
<1>2. HandsFull'
  BY DEF IInv, TypeOK, HandsFull
<1>3. HandPlaced'
  <2>1. /\ hand'[th] = None /\ \A h \in Threads : h # th => hand'[h] = hand[h]
        /\ place'[hand[th]] = q /\ \A u \in Tiles : u # hand[th] => place'[u] = place[u]
    BY <1>1 DEF IInv, TypeOK
  <2>2. q \notin Threads /\ None \notin Tiles
    BY MarksAssumption
  <2>3. \A h \in Threads, u \in Tiles : hand[h] = u <=> place[u] = h
    BY DEF IInv, HandPlaced
  <2>4. QED BY <1>1, <2>1, <2>2, <2>3 DEF HandPlaced
<1>4. QED BY <1>1, <1>2, <1>3 DEF IInv, TypeOK

\* The tile at the head of a queue.
LEMMA HeadFacts ==
  ASSUME NEW s \in Seq(Tiles \union {End}), s # <<>>, NEW p, Placed(s, p, place), Head(s) # End
  PROVE  Head(s) \in Tiles /\ place[Head(s)] = p
  BY DEF Placed

LEMMA TakeKeeps ==
  ASSUME IInv, NEW w \in Workers, NEW r \in Role, NEW step \in Busy,
         At(w, r) \notin Busy, TakeNext(w, r, step)
  PROVE  IInv'
<1> DEFINE t == Head(pending)  th == <<w, r>>
<1>1. /\ pending \in Seq(Tiles) /\ pending \in Seq(Tiles \union {End}) /\ pending # <<>> /\ t \in Tiles
      /\ Placed(pending, Queued, place) /\ Distinct(pending)
  BY QueueTypes DEF IInv, TypeOK, QueuePlaced, TakeNext
<1>2. place[t] = Queued /\ th \in Threads
  BY <1>1, MarksAssumption, HeadFacts, PlaceFacts
<1>3. /\ pending' = Tail(pending) /\ place' = [place EXCEPT ![t] = th]
      /\ pc' = [pc EXCEPT ![th] = step] /\ hand' = [hand EXCEPT ![th] = t] /\ pc[th] \notin Busy
      /\ UNCHANGED <<attempts, failed, lock, written, snap, loads, writes, raised, kills>>
  BY DEF TakeNext, Hold, Move, Goto, At
<1>4. place'[t] = th /\ \A u \in Tiles : u # t => place'[u] = place[u]
  BY <1>1, <1>3 DEF IInv, TypeOK
<1>5. /\ HandsFull' /\ HandPlaced'
      /\ pc' \in [Threads -> Step] /\ hand' \in [Threads -> Tiles \union {None}] /\ place' \in [Tiles -> Place]
  BY <1>1, <1>2, <1>3, PlaceFacts, HandTaken
<1>6. TypeOK'
  <2>1. pending' \in Seq(Tiles)
    BY <1>1, <1>3
  <2>2. UNCHANGED <<attempts, failed, lock, written, snap, loads, writes, raised, kills>>
    BY <1>3
  <2>3. QED BY ONLY <2>1, <2>2, <1>5, IInv DEF IInv, TypeOK
<1>7. QueuePlaced'
  <2>1. \A u \in Tiles : u # Head(pending) /\ place[u] = Queued => place'[u] = Queued
    BY <1>4
  <2>2. Placed(Tail(pending), Queued, place') /\ Distinct(Tail(pending))
    BY ONLY <1>1, <2>1, TailPlaced
  <2>3. QED BY <1>3, <2>2 DEF QueuePlaced
<1>8. FailedPlaced' /\ LoadsPlaced' /\ WritesPlaced'
  BY <1>2, <1>3, <1>4, PlaceFacts, QueuesUndisturbed
<1>9. Counted'
  <2>1. Kept
    BY <1>2, <1>3, KeptExcept DEF Busy
  <2>2. place[t] \notin {Failed, GoneAway} \union Threads /\ place'[t] # Failed
    BY <1>2, <1>4, PlaceFacts
  <2>3. QED BY ONLY IInv, <1>1, <1>3, <1>4, <2>1, <2>2, CountedMoved
<1>10. QED BY <1>5, <1>6, <1>7, <1>8, <1>9 DEF IInv

LEMMA SkipKeeps ==
  ASSUME IInv, NEW w \in Workers, PrefetchSkip(w) PROVE IInv'
<1> DEFINE t == Head(pending)
<1>1. /\ pending \in Seq(Tiles) /\ pending \in Seq(Tiles \union {End}) /\ pending # <<>> /\ t \in Tiles
      /\ Placed(pending, Queued, place) /\ Distinct(pending)
  BY QueueTypes DEF IInv, TypeOK, QueuePlaced, PrefetchSkip
<1>2. place[t] = Queued
  BY <1>1, MarksAssumption, HeadFacts
<1>3. /\ pending' = Tail(pending) /\ place' = [place EXCEPT ![t] = <<None, "done">>]
      /\ UNCHANGED <<attempts, failed, lock, written, snap, pc, hand, loads, writes, raised, kills>>
  BY DEF PrefetchSkip, Move
<1>4. /\ place'[t] = <<None, "done">> /\ <<None, "done">> \in Place /\ <<None, "done">> # Failed
      /\ \A u \in Tiles : u # t => place'[u] = place[u]
  BY <1>1, <1>3 DEF IInv, TypeOK, Place, Slot, Failed
<1>5. HandsFull' /\ HandPlaced'
  <2>1. HandsFull'
    BY <1>3 DEF IInv, HandsFull
  <2>2. \A th \in Threads : th # <<None, "done">>
    BY MarksAssumption DEF Threads
  <2>3. HandPlaced'
    BY <1>2, <1>3, <1>4, <2>2, PlaceFacts DEF IInv, HandPlaced
  <2>4. QED BY <2>1, <2>3
<1>6. TypeOK'
  <2>1. pending' \in Seq(Tiles)
    BY ONLY <1>1, <1>3
  <2>2. place' \in [Tiles -> Place]
    <3>1. place \in [Tiles -> Place] BY DEF IInv, TypeOK
    <3>2. QED BY ONLY <1>3, <1>4, <3>1
  <2>3. TypeOK BY DEF IInv
  <2> HIDE DEF t
  <2>4. QED BY ONLY <1>3, <2>1, <2>2, <2>3 DEF TypeOK
<1>7. QueuePlaced'
  <2>1. \A u \in Tiles : u # Head(pending) /\ place[u] = Queued => place'[u] = Queued
    BY <1>4
  <2>2. Placed(Tail(pending), Queued, place') /\ Distinct(Tail(pending))
    BY ONLY <1>1, <2>1, TailPlaced
  <2>3. QED BY <1>3, <2>2 DEF QueuePlaced
<1>8. FailedPlaced' /\ LoadsPlaced' /\ WritesPlaced'
  BY <1>2, <1>3, <1>4, PlaceFacts, QueuesUndisturbed
<1>9. Counted'
  <2>1. Kept
    BY <1>3 DEF Kept
  <2>2. place[t] \notin {Failed, GoneAway} \union Threads /\ place'[t] # Failed
    BY <1>2, <1>4, PlaceFacts
  <2>3. QED BY ONLY IInv, <1>1, <1>3, <1>4, <2>1, <2>2, CountedMoved
<1>10. QED BY <1>5, <1>6, <1>7, <1>8, <1>9 DEF IInv

\* One worker's queue is replaced by s.
LEMMA LoadsUpdated ==
  ASSUME IInv, NEW w \in Workers, NEW s, loads' = [loads EXCEPT ![w] = s],
         Placed(s, Loads(w), place'), Distinct(s),
         \A t \in Tiles, v \in Workers : v # w /\ place[t] = Loads(v) => place'[t] = Loads(v)
  PROVE  LoadsPlaced'
<1> SUFFICES ASSUME NEW v \in Workers
             PROVE  Placed(loads'[v], Loads(v), place') /\ Distinct(loads'[v])
  BY DEF LoadsPlaced
<1>1. CASE v = w
  BY <1>1 DEF IInv, TypeOK
<1>2. CASE v # w
  <2>1. loads'[v] = loads[v] BY <1>2 DEF IInv, TypeOK
  <2>2. QED BY <1>2, <2>1, KeepPlaced, QueueTypes DEF IInv, LoadsPlaced
<1>3. QED BY <1>1, <1>2

LEMMA WritesUpdated ==
  ASSUME IInv, NEW w \in Workers, NEW s, writes' = [writes EXCEPT ![w] = s],
         Placed(s, Writes(w), place'), Distinct(s),
         \A t \in Tiles, v \in Workers : v # w /\ place[t] = Writes(v) => place'[t] = Writes(v)
  PROVE  WritesPlaced'
<1> SUFFICES ASSUME NEW v \in Workers
             PROVE  Placed(writes'[v], Writes(v), place') /\ Distinct(writes'[v])
  BY DEF WritesPlaced
<1>1. CASE v = w
  BY <1>1 DEF IInv, TypeOK
<1>2. CASE v # w
  <2>1. writes'[v] = writes[v] BY <1>2 DEF IInv, TypeOK
  <2>2. QED BY <1>2, <2>1, KeepPlaced, QueueTypes DEF IInv, WritesPlaced
<1>3. QED BY <1>1, <1>2

\* The steps of Logged: both leave the thread without a tile.
LEMMA LoggedFacts ==
  ASSUME IInv, NEW w \in Workers, NEW step \in Step \ Busy, Logged(w, step)
  PROVE  /\ \E s \in Step \ Busy : pc' = [pc EXCEPT ![<<w, "compute">>] = s]
         /\ raised' \in SUBSET Workers
  BY DEF Logged, Goto, IInv, TypeOK, Step, Busy

LEMMA PutKeeps ==
  ASSUME IInv, NEW w \in Workers, PrefetchPut(w) PROVE IInv'
<1> DEFINE th == <<w, "prefetch">>
<1>0. /\ th \in Threads /\ pc[th] \in Busy /\ pc[th] # "requeue" /\ "next" \in Step \ Busy
  BY PlaceFacts DEF PrefetchPut, At, Busy, Step, Role
<1>1. PICK t \in Tiles : t = hand[th] /\ place[t] = th
  BY <1>0, HeldTile
<1>2. /\ pc' = [pc EXCEPT ![th] = "next"] /\ hand' = [hand EXCEPT ![th] = None]
      /\ place' = [place EXCEPT ![t] = Loads(w)] /\ loads' = [loads EXCEPT ![w] = Append(loads[w], t)]
      /\ Len(loads[w]) < Depth
  BY <1>1 DEF PrefetchPut, Goto, Hold, Move, Tile, Loads, IInv, TypeOK
<1>3. UNCHANGED <<pending, attempts, failed, lock, written, snap, writes, raised, kills>>
  BY DEF PrefetchPut, manager
<1>4. place'[t] = Loads(w) /\ \A u \in Tiles : u # t => place'[u] = place[u]
  BY <1>1, <1>2 DEF IInv, TypeOK
<1>5. /\ HandsFull' /\ HandPlaced'
      /\ pc' \in [Threads -> Step] /\ hand' \in [Threads -> Tiles \union {None}] /\ place' \in [Tiles -> Place]
  <2>1. Loads(w) \in Place \ Threads BY PlaceFacts
  <2>2. QED BY <1>0, <1>1, <1>2, <2>1, HandDropped
<1>6. TypeOK'
  <2>1. loads[w] \in Seq(Tiles \union {End}) /\ Append(loads[w], t) \in Seq(Tiles \union {End})
        /\ Len(Append(loads[w], t)) <= Depth
    BY <1>1, <1>2, BoundsAssumption, QueueTypes DEF IInv
  <2>2. loads' \in [Workers -> Seq(Tiles \union {End})] /\ \A v \in Workers : Len(loads'[v]) <= Depth
    BY <1>2, <2>1 DEF IInv, TypeOK
  <2>3. QED BY ONLY <2>2, <1>3, <1>5, IInv DEF IInv, TypeOK
<1>7. LoadsPlaced'
  <2>1. loads[w] \in Seq(Tiles \union {End}) /\ Placed(loads[w], Loads(w), place) /\ Distinct(loads[w])
    BY QueueTypes DEF IInv, LoadsPlaced
  <2>2. \A u \in Tiles : place[u] = Loads(w) => place'[u] = Loads(w)
    BY <1>4
  <2>3. place[t] # Loads(w) /\ place'[t] = Loads(w)
    BY <1>0, <1>1, <1>4, PlaceFacts
  <2>4. Placed(Append(loads[w], t), Loads(w), place') /\ Distinct(Append(loads[w], t))
    BY ONLY t \in Tiles, <2>1, <2>2, <2>3, AppendPlaced
  <2>5. \A u \in Tiles, v \in Workers : v # w /\ place[u] = Loads(v) => place'[u] = Loads(v)
    BY <1>0, <1>1, <1>4, PlaceFacts
  <2>6. QED BY <1>2, <2>4, <2>5, LoadsUpdated
<1>8. QueuePlaced' /\ FailedPlaced' /\ WritesPlaced'
  BY <1>0, <1>1, <1>3, <1>4, PlaceFacts, QueuesUndisturbed
<1>9. Counted'
  <2>1. Kept
    BY <1>0, <1>2, KeptExcept DEF Busy
  <2>2. /\ place[t] \notin {Failed, GoneAway} /\ (place[t] \in Threads => pc[place[t]] # "requeue")
        /\ place'[t] # Failed
    BY <1>0, <1>1, <1>4, PlaceFacts
  <2>3. QED BY <1>3, <1>4, <2>1, <2>2, CountedMoved
<1>10. QED BY <1>5, <1>6, <1>7, <1>8, <1>9 DEF IInv

LEMMA PutResultKeeps ==
  ASSUME IInv, NEW w \in Workers, PutResult(w) PROVE IInv'
<1> DEFINE th == <<w, "compute">>
<1>0. /\ th \in Threads /\ pc[th] \in Busy /\ pc[th] # "requeue" /\ "get" \in Step \ Busy
  BY PlaceFacts DEF PutResult, At, Busy, Step, Role
<1>1. PICK t \in Tiles : t = hand[th] /\ place[t] = th
  BY <1>0, HeldTile
<1>2. /\ hand' = [hand EXCEPT ![th] = None]
      /\ place' = [place EXCEPT ![t] = Writes(w)] /\ writes' = [writes EXCEPT ![w] = Append(writes[w], t)]
      /\ Len(writes[w]) < WriteDepth
  BY <1>1 DEF PutResult, Hold, Move, Tile, Writes, IInv, TypeOK
<1>a. PICK s \in Step \ Busy : pc' = [pc EXCEPT ![th] = s]
  BY <1>0, LoggedFacts DEF PutResult
<1>3. UNCHANGED <<pending, attempts, failed, lock, written, snap, loads, kills>> /\ raised' \in SUBSET Workers
  BY <1>0, LoggedFacts DEF PutResult, manager
<1>4. place'[t] = Writes(w) /\ \A u \in Tiles : u # t => place'[u] = place[u]
  BY <1>1, <1>2 DEF IInv, TypeOK
<1>5. /\ HandsFull' /\ HandPlaced'
      /\ pc' \in [Threads -> Step] /\ hand' \in [Threads -> Tiles \union {None}] /\ place' \in [Tiles -> Place]
  <2>1. Writes(w) \in Place \ Threads BY PlaceFacts
  <2>2. QED BY <1>0, <1>1, <1>2, <1>a, <2>1, HandDropped
<1>6. TypeOK'
  <2>1. writes[w] \in Seq(Tiles \union {End}) /\ Append(writes[w], t) \in Seq(Tiles \union {End})
        /\ Len(Append(writes[w], t)) <= WriteDepth
    BY <1>1, <1>2, QueueTypes DEF IInv, WriteDepth
  <2>2. writes' \in [Workers -> Seq(Tiles \union {End})] /\ \A v \in Workers : Len(writes'[v]) <= WriteDepth
    BY <1>2, <2>1 DEF IInv, TypeOK
  <2>3. QED BY ONLY <2>2, <1>3, <1>5, IInv DEF IInv, TypeOK
<1>7. WritesPlaced'
  <2>1. writes[w] \in Seq(Tiles \union {End}) /\ Placed(writes[w], Writes(w), place) /\ Distinct(writes[w])
    BY QueueTypes DEF IInv, WritesPlaced
  <2>2. \A u \in Tiles : place[u] = Writes(w) => place'[u] = Writes(w)
    BY <1>4
  <2>3. place[t] # Writes(w) /\ place'[t] = Writes(w)
    BY <1>0, <1>1, <1>4, PlaceFacts
  <2>4. Placed(Append(writes[w], t), Writes(w), place') /\ Distinct(Append(writes[w], t))
    BY ONLY t \in Tiles, <2>1, <2>2, <2>3, AppendPlaced
  <2>5. \A u \in Tiles, v \in Workers : v # w /\ place[u] = Writes(v) => place'[u] = Writes(v)
    BY <1>0, <1>1, <1>4, PlaceFacts
  <2>6. QED BY <1>2, <2>4, <2>5, WritesUpdated
<1>8. QueuePlaced' /\ FailedPlaced' /\ LoadsPlaced'
  BY <1>0, <1>1, <1>3, <1>4, PlaceFacts, QueuesUndisturbed
<1>9. Counted'
  <2>1. Kept
    BY <1>0, <1>a, KeptExcept DEF Busy
  <2>2. /\ place[t] \notin {Failed, GoneAway} /\ (place[t] \in Threads => pc[place[t]] # "requeue")
        /\ place'[t] # Failed
    BY <1>0, <1>1, <1>4, PlaceFacts
  <2>3. QED BY <1>3, <1>4, <2>1, <2>2, CountedMoved
<1>10. QED BY <1>5, <1>6, <1>7, <1>8, <1>9 DEF IInv


LEMMA ComputeGetKeeps ==
  ASSUME IInv, NEW w \in Workers, ComputeGet(w) PROVE IInv'
<1> DEFINE th == <<w, "compute">>
<1>0. /\ th \in Threads /\ pc[th] \notin Busy /\ "solve" \in Busy
      /\ loads[w] \in Seq(Tiles \union {End}) /\ loads[w] # <<>> /\ Head(loads[w]) # End
      /\ Placed(loads[w], Loads(w), place) /\ Distinct(loads[w])
  BY PlaceFacts, QueueTypes DEF ComputeGet, At, Busy, Role, IInv, LoadsPlaced
<1>1. PICK t \in Tiles : t = Head(loads[w]) /\ place[t] = Loads(w)
  BY <1>0, HeadFacts
<1>2. /\ pc' = [pc EXCEPT ![th] = "solve"] /\ hand' = [hand EXCEPT ![th] = t]
      /\ place' = [place EXCEPT ![t] = th] /\ loads' = [loads EXCEPT ![w] = Tail(loads[w])]
  BY <1>1 DEF ComputeGet, Goto, Hold, Move, IInv, TypeOK
<1>3. UNCHANGED <<pending, attempts, failed, lock, written, snap, writes, raised, kills>>
  BY DEF ComputeGet, manager
<1>4. place'[t] = th /\ \A u \in Tiles : u # t => place'[u] = place[u]
  BY <1>1, <1>2 DEF IInv, TypeOK
<1>5. /\ HandsFull' /\ HandPlaced'
      /\ pc' \in [Threads -> Step] /\ hand' \in [Threads -> Tiles \union {None}] /\ place' \in [Tiles -> Place]
  <2>1. place[t] \notin Threads BY <1>1, PlaceFacts
  <2>2. QED BY <1>0, <1>1, <1>2, <2>1, HandTaken
<1>6. TypeOK'
  <2>1. Tail(loads[w]) \in Seq(Tiles \union {End}) /\ Len(Tail(loads[w])) <= Depth
    BY <1>0, BoundsAssumption DEF IInv, TypeOK, WriteDepth
  <2>2. loads' \in [Workers -> Seq(Tiles \union {End})] /\ \A v \in Workers : Len(loads'[v]) <= Depth
    BY <1>2, <2>1 DEF IInv, TypeOK
  <2>3. QED BY ONLY <2>2, <1>3, <1>5, IInv DEF IInv, TypeOK
<1>7. LoadsPlaced'
  <2>1. \A u \in Tiles : u # Head(loads[w]) /\ place[u] = Loads(w) => place'[u] = Loads(w)
    BY <1>1, <1>4
  <2>2. Placed(Tail(loads[w]), Loads(w), place') /\ Distinct(Tail(loads[w]))
    BY ONLY <1>0, <2>1, TailPlaced
  <2>3. \A u \in Tiles, v \in Workers : v # w /\ place[u] = Loads(v) => place'[u] = Loads(v)
    BY <1>1, <1>4, PlaceFacts
  <2>4. QED BY <1>2, <2>2, <2>3, LoadsUpdated
<1>8. QueuePlaced' /\ FailedPlaced' /\ WritesPlaced'
  BY <1>0, <1>1, <1>3, <1>4, PlaceFacts, QueuesUndisturbed
<1>9. Counted'
  <2>1. Kept
    BY <1>0, <1>2, KeptExcept DEF Busy
  <2>2. /\ place[t] \notin {Failed, GoneAway} /\ (place[t] \in Threads => pc[place[t]] # "requeue")
        /\ place'[t] # Failed
    BY <1>0, <1>1, <1>4, PlaceFacts
  <2>3. QED BY <1>3, <1>4, <2>1, <2>2, CountedMoved
<1>10. QED BY <1>5, <1>6, <1>7, <1>8, <1>9 DEF IInv

LEMMA WriterGetKeeps ==
  ASSUME IInv, NEW w \in Workers, WriterGet(w) PROVE IInv'
<1> DEFINE th == <<w, "writer">>
<1>0. /\ th \in Threads /\ pc[th] \notin Busy /\ "write" \in Busy
      /\ writes[w] \in Seq(Tiles \union {End}) /\ writes[w] # <<>> /\ Head(writes[w]) # End
      /\ Placed(writes[w], Writes(w), place) /\ Distinct(writes[w])
  BY PlaceFacts, QueueTypes DEF WriterGet, At, Busy, Role, IInv, WritesPlaced
<1>1. PICK t \in Tiles : t = Head(writes[w]) /\ place[t] = Writes(w)
  BY <1>0, HeadFacts
<1>2. /\ pc' = [pc EXCEPT ![th] = "write"] /\ hand' = [hand EXCEPT ![th] = t]
      /\ place' = [place EXCEPT ![t] = th] /\ writes' = [writes EXCEPT ![w] = Tail(writes[w])]
  BY <1>1 DEF WriterGet, Goto, Hold, Move, IInv, TypeOK
<1>3. UNCHANGED <<pending, attempts, failed, lock, written, snap, loads, raised, kills>>
  BY DEF WriterGet, manager
<1>4. place'[t] = th /\ \A u \in Tiles : u # t => place'[u] = place[u]
  BY <1>1, <1>2 DEF IInv, TypeOK
<1>5. /\ HandsFull' /\ HandPlaced'
      /\ pc' \in [Threads -> Step] /\ hand' \in [Threads -> Tiles \union {None}] /\ place' \in [Tiles -> Place]
  <2>1. place[t] \notin Threads BY <1>1, PlaceFacts
  <2>2. QED BY <1>0, <1>1, <1>2, <2>1, HandTaken
<1>6. TypeOK'
  <2>1. Tail(writes[w]) \in Seq(Tiles \union {End}) /\ Len(Tail(writes[w])) <= WriteDepth
    BY <1>0, BoundsAssumption DEF IInv, TypeOK, WriteDepth
  <2>2. writes' \in [Workers -> Seq(Tiles \union {End})] /\ \A v \in Workers : Len(writes'[v]) <= WriteDepth
    BY <1>2, <2>1 DEF IInv, TypeOK
  <2>3. QED BY ONLY <2>2, <1>3, <1>5, IInv DEF IInv, TypeOK
<1>7. WritesPlaced'
  <2>1. \A u \in Tiles : u # Head(writes[w]) /\ place[u] = Writes(w) => place'[u] = Writes(w)
    BY <1>1, <1>4
  <2>2. Placed(Tail(writes[w]), Writes(w), place') /\ Distinct(Tail(writes[w]))
    BY ONLY <1>0, <2>1, TailPlaced
  <2>3. \A u \in Tiles, v \in Workers : v # w /\ place[u] = Writes(v) => place'[u] = Writes(v)
    BY <1>1, <1>4, PlaceFacts
  <2>4. QED BY <1>2, <2>2, <2>3, WritesUpdated
<1>8. QueuePlaced' /\ FailedPlaced' /\ LoadsPlaced'
  BY <1>0, <1>1, <1>3, <1>4, PlaceFacts, QueuesUndisturbed
<1>9. Counted'
  <2>1. Kept
    BY <1>0, <1>2, KeptExcept DEF Busy
  <2>2. /\ place[t] \notin {Failed, GoneAway} /\ (place[t] \in Threads => pc[place[t]] # "requeue")
        /\ place'[t] # Failed
    BY <1>0, <1>1, <1>4, PlaceFacts
  <2>3. QED BY <1>3, <1>4, <2>1, <2>2, CountedMoved
<1>10. QED BY <1>5, <1>6, <1>7, <1>8, <1>9 DEF IInv

LEMMA PrefetchEndKeeps ==
  ASSUME IInv, NEW w \in Workers, PrefetchEnd(w) PROVE IInv'
<1> DEFINE th == <<w, "prefetch">>  s == Append(loads[w], End)
<1>0. /\ th \in Threads /\ pc[th] \notin Busy /\ "done" \in Step \ Busy
      /\ loads[w] \in Seq(Tiles \union {End}) /\ Len(loads[w]) < Depth
      /\ Placed(loads[w], Loads(w), place) /\ Distinct(loads[w])
  BY PlaceFacts, QueueTypes DEF PrefetchEnd, At, Busy, Step, Role, IInv, LoadsPlaced
<1>1. PICK step \in Step \ Busy : pc' = [pc EXCEPT ![th] = step]
  BY <1>0 DEF PrefetchEnd, Goto
<1>2. loads' = [loads EXCEPT ![w] = s]
  BY DEF PrefetchEnd, IInv, TypeOK
<1>3. /\ UNCHANGED <<pending, attempts, failed, lock, written, snap, hand, writes, kills, place>>
      /\ raised' \in SUBSET Workers
  BY <1>0 DEF PrefetchEnd, manager, IInv, TypeOK
<1>4. HandsFull' /\ HandPlaced' /\ pc' \in [Threads -> Step]
  <2>1. HandPlaced'
    BY <1>3 DEF IInv, HandPlaced
  <2>2. QED BY <1>0, <1>1, <1>3, <2>1 DEF IInv, TypeOK, HandsFull
<1>5. TypeOK'
  <2>1. s \in Seq(Tiles \union {End}) /\ Len(s) <= Depth
    BY <1>0, BoundsAssumption DEF IInv, TypeOK, WriteDepth
  <2>2. loads' \in [Workers -> Seq(Tiles \union {End})] /\ \A v \in Workers : Len(loads'[v]) <= Depth
    BY <1>2, <2>1 DEF IInv, TypeOK
  <2>3. QED BY ONLY <2>2, <1>3, <1>4, IInv DEF IInv, TypeOK
<1>6. LoadsPlaced'
  <2>1. Placed(s, Loads(w), place) /\ Distinct(s)
    BY ONLY <1>0, AppendEndPlaced
  <2>2. QED BY <1>2, <1>3, <2>1, LoadsUpdated
<1>7. QueuePlaced' /\ FailedPlaced' /\ WritesPlaced'
  BY <1>3, QueuesUndisturbed
<1>8. Counted'
  <2>1. Kept
    BY <1>0, <1>1, KeptExcept DEF Busy
  <2>2. QED BY <1>3, <2>1, CountedStill
<1>9. QED BY <1>4, <1>5, <1>6, <1>7, <1>8 DEF IInv

LEMMA ComputeEndKeeps ==
  ASSUME IInv, NEW w \in Workers, ComputeEnd(w) PROVE IInv'
<1> DEFINE th == <<w, "compute">>  s == Tail(loads[w])
<1>0. /\ th \in Threads /\ pc[th] \notin Busy /\ "close" \in Step \ Busy
      /\ loads[w] \in Seq(Tiles \union {End}) /\ loads[w] # <<>> /\ Head(loads[w]) = End
      /\ Placed(loads[w], Loads(w), place) /\ Distinct(loads[w])
  BY PlaceFacts, QueueTypes DEF ComputeEnd, At, Busy, Step, Role, IInv, LoadsPlaced
<1>1. PICK step \in Step \ Busy : pc' = [pc EXCEPT ![th] = step]
  BY <1>0, LoggedFacts DEF ComputeEnd
<1>2. loads' = [loads EXCEPT ![w] = s]
  BY DEF ComputeEnd, IInv, TypeOK
<1>3. /\ UNCHANGED <<pending, attempts, failed, lock, written, snap, hand, writes, kills, place>>
      /\ raised' \in SUBSET Workers
  BY <1>0, LoggedFacts DEF ComputeEnd, manager
<1>4. HandsFull' /\ HandPlaced' /\ pc' \in [Threads -> Step]
  <2>1. HandPlaced'
    BY <1>3 DEF IInv, HandPlaced
  <2>2. QED BY <1>0, <1>1, <1>3, <2>1 DEF IInv, TypeOK, HandsFull
<1>5. TypeOK'
  <2>1. s \in Seq(Tiles \union {End}) /\ Len(s) <= Depth
    BY <1>0, BoundsAssumption DEF IInv, TypeOK, WriteDepth
  <2>2. loads' \in [Workers -> Seq(Tiles \union {End})] /\ \A v \in Workers : Len(loads'[v]) <= Depth
    BY <1>2, <2>1 DEF IInv, TypeOK
  <2>3. QED BY ONLY <2>2, <1>3, <1>4, IInv DEF IInv, TypeOK
<1>6. LoadsPlaced'
  <2>1. Placed(s, Loads(w), place) /\ Distinct(s)
    BY ONLY <1>0, TailPlaced
  <2>2. QED BY <1>2, <1>3, <2>1, LoadsUpdated
<1>7. QueuePlaced' /\ FailedPlaced' /\ WritesPlaced'
  BY <1>3, QueuesUndisturbed
<1>8. Counted'
  <2>1. Kept
    BY <1>0, <1>1, KeptExcept DEF Busy
  <2>2. QED BY <1>3, <2>1, CountedStill
<1>9. QED BY <1>4, <1>5, <1>6, <1>7, <1>8 DEF IInv

LEMMA CloseKeeps ==
  ASSUME IInv, NEW w \in Workers, Close(w) PROVE IInv'
<1> DEFINE th == <<w, "compute">>  s == Append(writes[w], End)
<1>0. /\ th \in Threads /\ pc[th] \notin Busy /\ "join" \in Step \ Busy
      /\ writes[w] \in Seq(Tiles \union {End}) /\ Len(writes[w]) < WriteDepth
      /\ Placed(writes[w], Writes(w), place) /\ Distinct(writes[w])
  BY PlaceFacts, QueueTypes DEF Close, At, Busy, Step, Role, IInv, WritesPlaced
<1>1. PICK step \in Step \ Busy : pc' = [pc EXCEPT ![th] = step]
  BY <1>0 DEF Close, Goto
<1>2. writes' = [writes EXCEPT ![w] = s]
  BY DEF Close, IInv, TypeOK
<1>3. /\ UNCHANGED <<pending, attempts, failed, lock, written, snap, hand, loads, kills, place>>
      /\ raised' \in SUBSET Workers
  BY <1>0 DEF Close, manager, IInv, TypeOK
<1>4. HandsFull' /\ HandPlaced' /\ pc' \in [Threads -> Step]
  <2>1. HandPlaced'
    BY <1>3 DEF IInv, HandPlaced
  <2>2. QED BY <1>0, <1>1, <1>3, <2>1 DEF IInv, TypeOK, HandsFull
<1>5. TypeOK'
  <2>1. s \in Seq(Tiles \union {End}) /\ Len(s) <= WriteDepth
    BY <1>0, BoundsAssumption DEF IInv, TypeOK, WriteDepth
  <2>2. writes' \in [Workers -> Seq(Tiles \union {End})] /\ \A v \in Workers : Len(writes'[v]) <= WriteDepth
    BY <1>2, <2>1 DEF IInv, TypeOK
  <2>3. QED BY ONLY <2>2, <1>3, <1>4, IInv DEF IInv, TypeOK
<1>6. WritesPlaced'
  <2>1. Placed(s, Writes(w), place) /\ Distinct(s)
    BY ONLY <1>0, AppendEndPlaced
  <2>2. QED BY <1>2, <1>3, <2>1, WritesUpdated
<1>7. QueuePlaced' /\ FailedPlaced' /\ LoadsPlaced'
  BY <1>3, QueuesUndisturbed
<1>8. Counted'
  <2>1. Kept
    BY <1>0, <1>1, KeptExcept DEF Busy
  <2>2. QED BY <1>3, <2>1, CountedStill
<1>9. QED BY <1>4, <1>5, <1>6, <1>7, <1>8 DEF IInv

LEMMA WriterEndKeeps ==
  ASSUME IInv, NEW w \in Workers, WriterEnd(w) PROVE IInv'
<1> DEFINE th == <<w, "writer">>  s == Tail(writes[w])
<1>0. /\ th \in Threads /\ pc[th] \notin Busy /\ "done" \in Step \ Busy
      /\ writes[w] \in Seq(Tiles \union {End}) /\ writes[w] # <<>> /\ Head(writes[w]) = End
      /\ Placed(writes[w], Writes(w), place) /\ Distinct(writes[w])
  BY PlaceFacts, QueueTypes DEF WriterEnd, At, Busy, Step, Role, IInv, WritesPlaced
<1>1. PICK step \in Step \ Busy : pc' = [pc EXCEPT ![th] = step]
  BY <1>0 DEF WriterEnd, Goto
<1>2. writes' = [writes EXCEPT ![w] = s]
  BY DEF WriterEnd, IInv, TypeOK
<1>3. /\ UNCHANGED <<pending, attempts, failed, lock, written, snap, hand, loads, kills, place>>
      /\ raised' \in SUBSET Workers
  BY <1>0 DEF WriterEnd, manager, IInv, TypeOK
<1>4. HandsFull' /\ HandPlaced' /\ pc' \in [Threads -> Step]
  <2>1. HandPlaced'
    BY <1>3 DEF IInv, HandPlaced
  <2>2. QED BY <1>0, <1>1, <1>3, <2>1 DEF IInv, TypeOK, HandsFull
<1>5. TypeOK'
  <2>1. s \in Seq(Tiles \union {End}) /\ Len(s) <= WriteDepth
    BY <1>0, BoundsAssumption DEF IInv, TypeOK, WriteDepth
  <2>2. writes' \in [Workers -> Seq(Tiles \union {End})] /\ \A v \in Workers : Len(writes'[v]) <= WriteDepth
    BY <1>2, <2>1 DEF IInv, TypeOK
  <2>3. QED BY ONLY <2>2, <1>3, <1>4, IInv DEF IInv, TypeOK
<1>6. WritesPlaced'
  <2>1. Placed(s, Writes(w), place) /\ Distinct(s)
    BY ONLY <1>0, TailPlaced
  <2>2. QED BY <1>2, <1>3, <2>1, WritesUpdated
<1>7. QueuePlaced' /\ FailedPlaced' /\ LoadsPlaced'
  BY <1>3, QueuesUndisturbed
<1>8. Counted'
  <2>1. Kept
    BY <1>0, <1>1, KeptExcept DEF Busy
  <2>2. QED BY <1>3, <2>1, CountedStill
<1>9. QED BY <1>4, <1>5, <1>6, <1>7, <1>8 DEF IInv


\* A tile that leaves a thread for good, done or lost.
LEMMA DropKeeps ==
  ASSUME IInv, NEW w \in Workers, NEW r \in Role, NEW step \in Step \ Busy, NEW fate \in {"done", "lost"},
         At(w, r) \in Busy, At(w, r) # "requeue", Goto(w, r, step), Hold(w, r, None), Move(Tile(w, r), None, fate),
         UNCHANGED <<manager, snap, loads, writes, kills>>,
         written' \subseteq Tiles, raised' \subseteq Workers
  PROVE  IInv'
<1> DEFINE th == <<w, r>>  q == <<None, fate>>
<1>0. th \in Threads /\ pc[th] \in Busy /\ pc[th] # "requeue"
  BY PlaceFacts DEF At
<1>1. PICK t \in Tiles : t = hand[th] /\ place[t] = th
  BY <1>0, HeldTile
<1>2. /\ pc' = [pc EXCEPT ![th] = step] /\ hand' = [hand EXCEPT ![th] = None]
      /\ place' = [place EXCEPT ![t] = q]
  BY <1>1 DEF Goto, Hold, Move, Tile
<1>3. UNCHANGED <<pending, attempts, failed, lock, snap, loads, writes, kills>>
  BY DEF manager
<1>4. q \in Place \ Threads /\ q # Failed
  BY MarksAssumption DEF Place, Slot, Threads, Failed
<1>5. place'[t] = q /\ \A u \in Tiles : u # t => place'[u] = place[u]
  BY <1>1, <1>2 DEF IInv, TypeOK
<1>6. /\ HandsFull' /\ HandPlaced'
      /\ pc' \in [Threads -> Step] /\ hand' \in [Threads -> Tiles \union {None}] /\ place' \in [Tiles -> Place]
  BY <1>0, <1>1, <1>2, <1>4, HandDropped
<1>7. TypeOK'
  BY <1>3, <1>6 DEF IInv, TypeOK
<1>8. QueuePlaced' /\ FailedPlaced' /\ LoadsPlaced' /\ WritesPlaced'
  BY <1>0, <1>1, <1>3, <1>4, <1>5, PlaceFacts, QueuesUndisturbed
<1>9. Counted'
  <2>1. Kept
    BY <1>0, <1>2, KeptExcept
  <2>2. /\ place[t] \notin {Failed, GoneAway} /\ (place[t] \in Threads => pc[place[t]] # "requeue")
        /\ place'[t] # Failed
    BY <1>0, <1>1, <1>4, <1>5, PlaceFacts
  <2>3. QED BY <1>3, <1>5, <2>1, <2>2, CountedMoved
<1>10. QED BY <1>6, <1>7, <1>8, <1>9 DEF IInv

LEMMA DropSteps ==
  ASSUME IInv, NEW w \in Workers,
         PrefetchDies(w) \/ ComputeRaises(w) \/ \E r \in {"compute", "writer"} : Write(w, r)
  PROVE  IInv'
<1>1. CASE PrefetchDies(w)
  <2>1. "dead" \in Step \ Busy /\ "prefetch" \in Role /\ "load" \in Busy
    BY DEF Step, Busy, Role
  <2>2. QED BY <1>1, <2>1, DropKeeps DEF PrefetchDies, IInv, TypeOK, At
<1>2. CASE ComputeRaises(w)
  <2>1. /\ "leave" \in Step \ Busy /\ "close" \in Step \ Busy /\ "compute" \in Role /\ "solve" \in Busy
    BY DEF Step, Busy, Role
  <2>2. PICK step \in Step \ Busy : Goto(w, "compute", step)
    BY <1>2, <2>1 DEF ComputeRaises
  <2>3. QED BY <1>2, <2>1, <2>2, DropKeeps DEF ComputeRaises, IInv, TypeOK
<1>3. ASSUME NEW r \in {"compute", "writer"}, Write(w, r) PROVE IInv'
  <2>1. r \in Role /\ "write" \in Busy /\ Resume(w, r) \in Step \ Busy
    BY DEF Step, Busy, Role, Resume
  <2>2. At(w, r) \in Busy /\ At(w, r) # "requeue"
    BY <1>3, <2>1 DEF Write
  <2>3. Tile(w, r) \in Tiles
    BY <2>1, <2>2, PlaceFacts, HeldTile DEF At, Tile
  <2>4. written' \subseteq Tiles /\ raised' \subseteq Workers
    BY <1>3, <2>3 DEF Write, IInv, TypeOK
  <2>5. QED BY <1>3, <2>1, <2>2, <2>4, DropKeeps DEF Write
<1>4. QED BY <1>1, <1>2, <1>3

\* source.done(tile, False): the failure of the tile in hand is counted.
LEMMA CountKeeps ==
  ASSUME IInv, NEW w \in Workers, NEW r \in {"compute", "writer"}, Count(w, r) PROVE IInv'
<1> DEFINE th == <<w, r>>
<1>0. th \in Threads /\ pc[th] = "record" /\ pc[th] \in Busy
  BY PlaceFacts DEF Count, At, Busy, Role
<1>1. PICK t \in Tiles : t = hand[th] /\ place[t] = th
  BY <1>0, HeldTile
<1>2. /\ pc' = [pc EXCEPT ![th] = "requeue"] /\ attempts' = [attempts EXCEPT ![t] = @ + 1]
      /\ UNCHANGED <<pending, failed, lock, written, snap, hand, loads, writes, raised, kills, place>>
  BY <1>1 DEF Count, Goto, Tile
<1>3. /\ attempts[t] \in Nat /\ attempts[t] <= Retries /\ attempts'[t] = attempts[t] + 1
      /\ \A u \in Tiles : u # t => attempts'[u] = attempts[u]
  <2>1. place[t] \notin {Failed, GoneAway} /\ pc[place[t]] # "requeue"
    BY <1>0, <1>1, PlaceFacts
  <2>2. attempts[t] \in 0 .. Retries + 1 /\ ~(attempts[t] > Retries)
    BY <2>1 DEF IInv, TypeOK, Counted
  <2>3. QED BY <1>2, <2>2, BoundsAssumption DEF IInv, TypeOK
<1>4. attempts' \in [Tiles -> 0 .. Retries + 1]
  BY <1>2, <1>3, BoundsAssumption DEF IInv, TypeOK
<1>5. HandsFull' /\ HandPlaced' /\ pc' \in [Threads -> Step]
  <2>1. HandPlaced'
    BY <1>2 DEF IInv, HandPlaced
  <2>2. QED BY <1>0, <1>2, <2>1 DEF IInv, TypeOK, HandsFull, Busy, Step
<1>6. TypeOK'
  BY ONLY IInv, <1>2, <1>4, <1>5 DEF IInv, TypeOK
<1>7. QueuePlaced' /\ FailedPlaced' /\ LoadsPlaced' /\ WritesPlaced'
  BY <1>2, QueuesUndisturbed
<1>8. Counted'
  <2>1. Kept
    BY <1>0, <1>2, KeptExcept
  <2>2. pc'[th] = "requeue"
    BY <1>0, <1>2 DEF IInv, TypeOK
  <2>3. ASSUME NEW u \in Tiles
        PROVE  /\ place'[u] = Failed => attempts'[u] = Retries + 1
               /\ attempts'[u] > Retries => \/ place'[u] \in {Failed, GoneAway}
                                            \/ place'[u] \in Threads /\ pc'[place'[u]] = "requeue"
    <3>1. CASE u = t
      BY <1>0, <1>1, <1>2, <2>2, <3>1, PlaceFacts
    <3>2. CASE u # t
      BY <1>2, <1>3, <2>1, <3>2 DEF IInv, Kept, Counted
    <3>3. QED BY <3>1, <3>2
  <2>4. QED BY <2>3 DEF Counted
<1>9. QED BY <1>5, <1>6, <1>7, <1>8 DEF IInv

\* The tile goes back to the queue or is given up.
LEMMA RequeueKeeps ==
  ASSUME IInv, NEW w \in Workers, NEW r \in {"compute", "writer"}, Requeue(w, r) PROVE IInv'
<1> DEFINE th == <<w, r>>
<1>0. /\ th \in Threads /\ pc[th] \in Busy /\ pc[th] = "requeue" /\ "release" \in Step \ Busy
      /\ pending \in Seq(Tiles \union {End}) /\ failed \in Seq(Tiles \union {End})
      /\ Placed(pending, Queued, place) /\ Distinct(pending)
      /\ Placed(failed, Failed, place) /\ Distinct(failed)
  BY PlaceFacts, QueueTypes DEF Requeue, At, Busy, Step, Role, IInv, QueuePlaced, FailedPlaced
<1>1. PICK t \in Tiles : t = hand[th] /\ place[t] = th
  BY <1>0, HeldTile
<1>2. /\ pc' = [pc EXCEPT ![th] = "release"] /\ hand' = [hand EXCEPT ![th] = None]
      /\ UNCHANGED <<attempts, lock, written, snap, loads, writes, raised, kills>>
  BY <1>1 DEF Requeue, Goto, Hold, Tile
<1>3. attempts[t] \in 0 .. Retries + 1 /\ Retries \in Nat
  BY BoundsAssumption DEF IInv, TypeOK
<1>4. \A h \in Threads : h # th => pc'[h] = pc[h]
  BY <1>2 DEF IInv, TypeOK
<1>5. CASE attempts[t] <= Retries /\ pending' = Append(pending, t) /\ place' = [place EXCEPT ![t] = Queued] /\ failed' = failed
  <2>1. place'[t] = Queued /\ \A u \in Tiles : u # t => place'[u] = place[u]
    BY <1>1, <1>5 DEF IInv, TypeOK
  <2>2. /\ HandsFull' /\ HandPlaced'
        /\ pc' \in [Threads -> Step] /\ hand' \in [Threads -> Tiles \union {None}] /\ place' \in [Tiles -> Place]
    <3>1. Queued \in Place \ Threads BY PlaceFacts
    <3>2. QED BY <1>0, <1>1, <1>2, <1>5, <3>1, HandDropped
  <2>3. TypeOK'
    <3>1. pending' \in Seq(Tiles) BY <1>1, <1>5 DEF IInv, TypeOK
    <3>2. QED BY ONLY <1>2, <1>5, <2>2, <3>1, IInv DEF IInv, TypeOK
  <2>4. QueuePlaced'
    <3>1. place[t] # Queued /\ \A u \in Tiles : place[u] = Queued => place'[u] = Queued
      BY <1>0, <1>1, <2>1, PlaceFacts
    <3>2. Placed(Append(pending, t), Queued, place') /\ Distinct(Append(pending, t))
      BY ONLY t \in Tiles, <1>0, <2>1, <3>1, AppendPlaced
    <3>3. QED BY <1>5, <3>2 DEF QueuePlaced
  <2>5. FailedPlaced' /\ LoadsPlaced' /\ WritesPlaced'
    BY <1>0, <1>1, <1>2, <1>5, <2>1, PlaceFacts, QueuesUndisturbed
  <2>6. Counted'
    <3>1. ASSUME NEW u \in Tiles
          PROVE  /\ place'[u] = Failed => attempts'[u] = Retries + 1
                 /\ attempts'[u] > Retries => \/ place'[u] \in {Failed, GoneAway}
                                              \/ place'[u] \in Threads /\ pc'[place'[u]] = "requeue"
      <4>1. CASE u = t
        BY <1>2, <1>3, <1>5, <2>1, <4>1, PlaceFacts
      <4>2. CASE u # t
        <5>1. place[u] # th
          BY <1>0, <1>1, <4>2 DEF IInv, HandPlaced
        <5>2. QED BY <1>2, <1>4, <2>1, <4>2, <5>1 DEF IInv, Counted
      <4>3. QED BY <4>1, <4>2
    <3>2. QED BY <3>1 DEF Counted
  <2>7. QED BY <2>2, <2>3, <2>4, <2>5, <2>6 DEF IInv
<1>6. CASE attempts[t] > Retries /\ failed' = Append(failed, t) /\ place' = [place EXCEPT ![t] = Failed] /\ pending' = pending
  <2>1. place'[t] = Failed /\ \A u \in Tiles : u # t => place'[u] = place[u]
    BY <1>1, <1>6 DEF IInv, TypeOK
  <2>2. /\ HandsFull' /\ HandPlaced'
        /\ pc' \in [Threads -> Step] /\ hand' \in [Threads -> Tiles \union {None}] /\ place' \in [Tiles -> Place]
    <3>1. Failed \in Place \ Threads BY PlaceFacts
    <3>2. QED BY <1>0, <1>1, <1>2, <1>6, <3>1, HandDropped
  <2>3. TypeOK'
    <3>1. failed' \in Seq(Tiles) BY <1>1, <1>6 DEF IInv, TypeOK
    <3>2. QED BY ONLY <1>2, <1>6, <2>2, <3>1, IInv DEF IInv, TypeOK
  <2>4. FailedPlaced'
    <3>1. place[t] # Failed /\ \A u \in Tiles : place[u] = Failed => place'[u] = Failed
      BY <1>0, <1>1, <2>1, PlaceFacts
    <3>2. Placed(Append(failed, t), Failed, place') /\ Distinct(Append(failed, t))
      BY ONLY t \in Tiles, <1>0, <2>1, <3>1, AppendPlaced
    <3>3. /\ Len(Append(failed, t)) = Len(failed) + 1 /\ Append(failed, t)[Len(failed) + 1] = t
          /\ \A i \in 1 .. Len(failed) : Append(failed, t)[i] = failed[i]
          /\ Len(failed) \in Nat
      BY ONLY t \in Tiles, <1>0
    <3>4. ASSUME NEW u \in Tiles, place'[u] = Failed
          PROVE  \E i \in 1 .. Len(Append(failed, t)) : Append(failed, t)[i] = u
      <4>1. CASE u = t
        BY <3>3, <4>1
      <4>2. CASE u # t
        <5>1. PICK i \in 1 .. Len(failed) : failed[i] = u
          BY <2>1, <3>4, <4>2 DEF IInv, FailedPlaced
        <5>2. QED BY <3>3, <5>1
      <4>3. QED BY <4>1, <4>2
    <3>5. QED BY <1>6, <3>2, <3>4 DEF FailedPlaced
  <2>5. QueuePlaced' /\ LoadsPlaced' /\ WritesPlaced'
    BY <1>0, <1>1, <1>2, <1>6, <2>1, PlaceFacts, QueuesUndisturbed
  <2>6. Counted'
    <3>1. ASSUME NEW u \in Tiles
          PROVE  /\ place'[u] = Failed => attempts'[u] = Retries + 1
                 /\ attempts'[u] > Retries => \/ place'[u] \in {Failed, GoneAway}
                                              \/ place'[u] \in Threads /\ pc'[place'[u]] = "requeue"
      <4>1. CASE u = t
        BY <1>2, <1>3, <1>6, <2>1, <4>1, PlaceFacts
      <4>2. CASE u # t
        <5>1. place[u] # th
          BY <1>0, <1>1, <4>2 DEF IInv, HandPlaced
        <5>2. QED BY <1>2, <1>4, <2>1, <4>2, <5>1 DEF IInv, Counted
      <4>3. QED BY <4>1, <4>2
    <3>2. QED BY <3>1 DEF Counted
  <2>7. QED BY <2>2, <2>3, <2>4, <2>5, <2>6 DEF IInv
<1>7. QED BY <1>1, <1>5, <1>6 DEF Requeue, Move, Tile, Queued, Failed

\* A process that ends takes its threads' tiles and its two queues along.
LEMMA VanishKeeps ==
  ASSUME IInv, NEW w \in Workers, NEW step \in {"exit", "killed"}, NEW zombies,
         Vanish(w, step, zombies), kills' \in 0 .. MaxKills
  PROVE  IInv'
<1>1. /\ pc' = [th \in Threads |-> IF th[1] # w THEN pc[th] ELSE IF th \in zombies THEN "zombie" ELSE step]
      /\ hand' = [th \in Threads |-> IF th[1] = w THEN None ELSE hand[th]]
      /\ loads' = [loads EXCEPT ![w] = <<>>] /\ writes' = [writes EXCEPT ![w] = <<>>]
      /\ place' = [t \in Tiles |-> IF place[t][1] = w THEN <<None, "lost">> ELSE place[t]]
      /\ UNCHANGED <<pending, attempts, failed, lock, written, snap, raised>>
  BY DEF Vanish, manager
<1>2. /\ <<None, "lost">> \in Place /\ <<None, "lost">> = GoneAway /\ GoneAway # Failed
      /\ Queued[1] # w /\ Failed[1] # w /\ \A v \in Workers : Loads(v)[1] = v /\ Writes(v)[1] = v
  BY MarksAssumption DEF Place, Slot, Queued, Failed, GoneAway, Loads, Writes
<1>3. \A t \in Tiles : place[t][1] # w => place'[t] = place[t]
  BY <1>1
<1>4. TypeOK'
  BY <1>1, <1>2, BoundsAssumption DEF IInv, TypeOK, Step, WriteDepth
<1>5. HandsFull'
  BY <1>1 DEF IInv, TypeOK, HandsFull, Step, Busy
<1>6. HandPlaced'
  <2>1. ASSUME NEW th \in Threads, NEW t \in Tiles PROVE hand'[th] = t <=> place'[t] = th
    <3>1. hand[th] = t <=> place[t] = th
      BY DEF IInv, HandPlaced
    <3>2. GoneAway # th /\ None # t
      BY PlaceFacts, MarksAssumption
    <3>3. /\ hand'[th] = IF th[1] = w THEN None ELSE hand[th]
          /\ place'[t] = IF place[t][1] = w THEN GoneAway ELSE place[t]
      BY <1>1, <1>2
    <3>4. QED BY <3>1, <3>2, <3>3
  <2>2. QED BY <2>1 DEF HandPlaced
<1>7. QueuePlaced' /\ FailedPlaced'
  BY <1>1, <1>2, <1>3, QueuesUndisturbed
<1>8. Placed(<<>>, Loads(w), place') /\ Placed(<<>>, Writes(w), place') /\ Distinct(<<>>)
  BY DEF Placed, Distinct
<1>a. \A t \in Tiles, v \in Workers : v # w =>
        (place[t] = Loads(v) => place'[t] = Loads(v)) /\ (place[t] = Writes(v) => place'[t] = Writes(v))
  BY <1>2, <1>3
<1>9. LoadsPlaced'
  BY ONLY IInv, w \in Workers, <1>1, <1>a, <1>8, LoadsUpdated
<1>10. WritesPlaced'
  BY ONLY IInv, w \in Workers, <1>1, <1>a, <1>8, WritesUpdated
<1>11. Counted'
  <2>1. ASSUME NEW t \in Tiles
        PROVE  /\ place'[t] = Failed => attempts'[t] = Retries + 1
               /\ attempts'[t] > Retries => \/ place'[t] \in {Failed, GoneAway}
                                            \/ place'[t] \in Threads /\ pc'[place'[t]] = "requeue"
    <3>1. CASE place[t][1] = w
      BY <1>1, <1>2, <3>1
    <3>2. CASE place[t][1] # w
      BY <1>1, <1>3, <3>2 DEF IInv, Counted
    <3>3. QED BY <3>1, <3>2
  <2>2. QED BY <2>1 DEF Counted
<1>12. QED BY <1>4, <1>5, <1>6, <1>7, <1>9, <1>10, <1>11 DEF IInv

-----------------------------------------------------------------------------
LEMMA InitIInv == Init => IInv
<1> SUFFICES ASSUME Init PROVE IInv
  OBVIOUS
<1>1. pending = Share /\ Share \in Seq(Tiles) /\ \A i, j \in 1 .. Len(Share) : Share[i] = Share[j] => i = j
  BY ShareAssumption DEF Init, IsInjective
<1>2. TypeOK
  BY <1>1, PlaceFacts, ResumedAssumption, BoundsAssumption DEF Init, TypeOK, Step, Queued, WriteDepth
<1>3. HandsFull /\ HandPlaced
  <2>1. HandsFull
    BY DEF Init, HandsFull, Busy
  <2>2. HandPlaced
    BY MarksAssumption, PlaceFacts DEF Init, HandPlaced, Queued
  <2>3. QED BY <2>1, <2>2
<1>4. QueuePlaced /\ FailedPlaced /\ LoadsPlaced /\ WritesPlaced
  BY <1>1, MarksAssumption DEF Init, QueuePlaced, FailedPlaced, LoadsPlaced, WritesPlaced, Placed, Distinct, Queued, Failed
<1>5. Counted
  <2>1. \A t \in Tiles : place[t] = Queued /\ attempts[t] = 0
    BY DEF Init, Queued
  <2>2. QED BY <2>1, BoundsAssumption, PlaceFacts DEF Counted
<1>6. QED BY <1>2, <1>3, <1>4, <1>5 DEF IInv

LEMMA StepIInv == IInv /\ [Next]_vars => IInv'
<1> SUFFICES ASSUME IInv, [Next]_vars PROVE IInv'
  OBVIOUS
<1>1. CASE UNCHANGED vars
  <2>1. TypeOK' /\ HandsFull' /\ Kept
    BY <1>1 DEF vars, manager, IInv, TypeOK, HandsFull, Kept
  <2>2. QED BY <1>1, <2>1, QuietKeeps DEF vars, manager
<1>2. CASE Next
  <2>1. CASE Joined
    BY <1>1, <2>1 DEF Joined
  <2>2. ASSUME NEW w \in Workers, Prefetch(w) PROVE IInv'
    <3>1. CASE PrefetchTake(w)
      <4>1. "prefetch" \in Role /\ "load" \in Busy /\ "next" \notin Busy BY DEF Role, Busy
      <4>2. QED BY <3>1, <4>1, TakeKeeps DEF PrefetchTake
    <3>2. QED BY <2>2, <3>1, SkipKeeps, QuietStep, PutKeeps, PrefetchEndKeeps DEF Prefetch
  <2>3. ASSUME NEW w \in Workers, Compute(w) PROVE IInv'
    <3>1. CASE SyncTake(w)
      <4>1. "compute" \in Role /\ "solve" \in Busy /\ "sync" \notin Busy BY DEF Role, Busy
      <4>2. QED BY <3>1, <4>1, TakeKeeps DEF SyncTake
    <3>2. CASE Leave(w)
      BY <3>2, VanishKeeps DEF Leave, IInv, TypeOK
    <3>3. QED BY <2>3, <3>1, <3>2, StartKeeps, ComputeGetKeeps, ComputeEndKeeps, QuietStep, PutResultKeeps,
                 CloseKeeps, DropSteps, CountKeeps, RequeueKeeps DEF Compute, Report
  <2>4. ASSUME NEW w \in Workers, Writer(w) PROVE IInv'
    BY <2>4, WriterGetKeeps, WriterEndKeeps, DropSteps, QuietStep, CountKeeps, RequeueKeeps DEF Writer, Report
  <2>5. ASSUME NEW w \in Workers, Fault(w) PROVE IInv'
    <3>1. CASE Kill(w)
      <4>1. kills' \in 0 .. MaxKills
        BY <3>1, BoundsAssumption DEF Kill, IInv, TypeOK
      <4>2. QED BY <3>1, <4>1, VanishKeeps DEF Kill
    <3>2. QED BY <2>5, <3>1, DropSteps, QuietStep DEF Fault
  <2>6. QED BY <1>2, <2>1, <2>2, <2>3, <2>4, <2>5 DEF Next
<1>3. QED BY <1>1, <1>2

\* The invariant of every behaviour, from which the theorems follow.
THEOREM Invariance == Spec => []IInv
  BY InitIInv, StepIInv, PTL DEF Spec


\* The state is always well typed, and neither bounded queue exceeds its maxsize.
THEOREM TypeCorrect == Spec => []TypeOK
<1>1. IInv => TypeOK
  BY DEF IInv
<1>2. QED BY <1>1, Invariance, PTL

\* A holder of a tile is at the tile's place.
LEMMA HolderPlace ==
  ASSUME IInv, NEW t \in Tiles, NEW h \in Holders(t)
  PROVE  \/ place[t] = Queued /\ \E i \in 1 .. Len(pending) : pending[i] = t /\ h = <<None, "queue", i>>
         \/ \E th \in Threads : place[t] = th /\ h = <<th[1], th[2], 0>>
         \/ \E w \in Workers : place[t] = Loads(w) /\ \E i \in 1 .. Len(loads[w]) :
              loads[w][i] = t /\ h = <<w, "loads", i>>
         \/ \E w \in Workers : place[t] = Writes(w) /\ \E i \in 1 .. Len(writes[w]) :
              writes[w][i] = t /\ h = <<w, "writes", i>>
<1>0. t # End /\ t # None
  BY MarksAssumption
<1>1. CASE h \in InQueue(t)
  BY <1>0, <1>1 DEF IInv, TypeOK, QueuePlaced, Placed, InQueue
<1>2. CASE h \in InHands(t)
  BY <1>0, <1>2 DEF IInv, HandPlaced, InHands
<1>3. CASE h \in InLoads(t)
  BY <1>0, <1>3 DEF IInv, TypeOK, LoadsPlaced, Placed, InLoads
<1>4. CASE h \in InWrites(t)
  BY <1>0, <1>4 DEF IInv, TypeOK, WritesPlaced, Placed, InWrites
<1>5. QED BY <1>1, <1>2, <1>3, <1>4 DEF Holders

\* No tile is in two places, so no two threads ever work on the same cells.
THEOREM OneHolderCorrect == Spec => []OneHolder
<1>1. ASSUME IInv, NEW t \in Tiles, NEW h1 \in Holders(t), NEW h2 \in Holders(t) PROVE h1 = h2
  <2>0. t # End
    BY MarksAssumption
  <2>1. CASE place[t] = Queued
    BY <1>1, <2>0, <2>1, HolderPlace, PlaceFacts DEF IInv, QueuePlaced, Distinct
  <2>2. CASE place[t] \in Threads
    BY <1>1, <2>2, HolderPlace, PlaceFacts
  <2>3. ASSUME NEW w \in Workers, place[t] = Loads(w) PROVE h1 = h2
    <3>1. ASSUME NEW h \in Holders(t)
          PROVE  \E i \in 1 .. Len(loads[w]) : loads[w][i] = t /\ h = <<w, "loads", i>>
      BY <1>1, <2>3, HolderPlace, PlaceFacts
    <3>2. QED BY <1>1, <2>0, <3>1 DEF IInv, LoadsPlaced, Distinct
  <2>4. ASSUME NEW w \in Workers, place[t] = Writes(w) PROVE h1 = h2
    <3>1. ASSUME NEW h \in Holders(t)
          PROVE  \E i \in 1 .. Len(writes[w]) : writes[w][i] = t /\ h = <<w, "writes", i>>
      BY <1>1, <2>4, HolderPlace, PlaceFacts
    <3>2. QED BY <1>1, <2>0, <3>1 DEF IInv, WritesPlaced, Distinct
  <2>5. QED BY <1>1, <2>1, <2>2, <2>3, <2>4, HolderPlace
<1>2. IInv => OneHolder
  BY <1>1 DEF OneHolder
<1>3. QED BY <1>2, Invariance, PTL

\* A tile is given up after exactly one failure more than it may be retried,
\* is listed once, and is in no queue and no thread's hands afterwards.
THEOREM GivenUpOnceCorrect == Spec => []GivenUpOnce
<1>1. ASSUME IInv PROVE GivenUpOnce
  <2>1. failed \in Seq(Tiles) /\ \A i \in 1 .. Len(failed) : failed[i] \in Tiles /\ failed[i] # End
    BY <1>1, MarksAssumption DEF IInv, TypeOK
  <2>2. IsInjective(failed)
    BY <1>1, <2>1 DEF IInv, FailedPlaced, Distinct, IsInjective
  <2>3. ASSUME NEW t \in Tiles
        PROVE  t \in Range(failed) <=> place[t] = Failed
    BY <1>1, <2>1 DEF IInv, FailedPlaced, Placed, Range
  <2>4. Range(failed) \subseteq Tiles
    BY <2>1 DEF Range
  <2>5. ASSUME NEW t \in Range(failed)
        PROVE  attempts[t] = Retries + 1 /\ Holders(t) = {}
    <3>1. t \in Tiles /\ place[t] = Failed
      BY <2>3, <2>4
    <3>2. QED BY <1>1, <3>1, HolderPlace, PlaceFacts DEF IInv, Counted
  <2>6. ASSUME NEW t \in Tiles, attempts[t] = Retries + 1
        PROVE  t \in Range(failed) \union Lost \/ Recording(t)
    <3>1. attempts[t] > Retries
      BY <2>6, BoundsAssumption
    <3>2. CASE place[t] = Failed
      BY <2>3, <3>2
    <3>3. CASE place[t] = GoneAway
      BY <3>3 DEF GoneAway, Lost
    <3>4. CASE place[t] \in Threads /\ pc[place[t]] = "requeue"
      BY <1>1, <3>4 DEF IInv, HandPlaced, Recording
    <3>5. QED BY <1>1, <3>1, <3>2, <3>3, <3>4 DEF IInv, Counted
  <2>7. QED BY <2>2, <2>5, <2>6 DEF GivenUpOnce
<1>2. IInv => GivenUpOnce
  BY <1>1
<1>3. QED BY <1>2, Invariance, PTL

-----------------------------------------------------------------------------
(***************************************************************************)
(* What becomes of tiles: none is dropped between the threads, a kill      *)
(* loses at most what one worker can hold, a worker that leaves loses      *)
(* none, and a run without faults stores or gives up every one.            *)
(*                                                                         *)
(* IInv says that a tile found somewhere has that place.  Here the         *)
(* converse is needed, that a tile is where its place says, and the        *)
(* protocol of the End marks: a compute loop that has left has seen the    *)
(* last of both its queues.                                                *)
(***************************************************************************)
Done == <<None, "done">>

\* A tile is where its place says; one that is done is stored.
FoundAt(t) ==
  \/ place[t] = Queued /\ t \in Range(pending)
  \/ place[t] = Done /\ t \in written
  \/ place[t] \in {Failed, GoneAway} \union Threads
  \/ \E w \in Workers : place[t] = Loads(w) /\ t \in Range(loads[w])
  \/ \E w \in Workers : place[t] = Writes(w) /\ t \in Range(writes[w])
Found == \A t \in Tiles : FoundAt(t)

\* What a worker found written when it started still is.
SnapWritten == \A w \in Workers : snap[w] \subseteq written

-----------------------------------------------------------------------------
(***************************************************************************)
(* What a queue holds after get and put.                                   *)
(***************************************************************************)
LEMMA RangeAppend ==
  ASSUME NEW S, NEW s \in Seq(S), NEW e \in S
  PROVE  Range(Append(s, e)) = Range(s) \union {e}
<1>1. /\ DOMAIN s = 1 .. Len(s) /\ DOMAIN Append(s, e) = 1 .. Len(s) + 1 /\ Len(s) \in Nat
      /\ Append(s, e)[Len(s) + 1] = e /\ \A i \in 1 .. Len(s) : Append(s, e)[i] = s[i]
  OBVIOUS
<1>2. QED BY <1>1 DEF Range

LEMMA RangeTail ==
  ASSUME NEW S, NEW s \in Seq(S), s # <<>>
  PROVE  Range(s) = Range(Tail(s)) \union {Head(s)}
<1>1. /\ DOMAIN s = 1 .. Len(s) /\ DOMAIN Tail(s) = 1 .. Len(s) - 1 /\ Len(s) \in Nat \ {0}
      /\ Head(s) = s[1] /\ \A i \in 1 .. Len(s) - 1 : Tail(s)[i] = s[i + 1]
  OBVIOUS
<1>2. ASSUME NEW i \in 1 .. Len(s) PROVE s[i] \in Range(Tail(s)) \union {Head(s)}
  <2>1. CASE i = 1 BY <1>1, <2>1
  <2>2. CASE i # 1
    <3>1. i - 1 \in 1 .. Len(s) - 1 /\ s[i] = Tail(s)[i - 1] BY <1>1, <2>2
    <3>2. QED BY <1>1, <3>1 DEF Range
  <2>3. QED BY <2>1, <2>2
<1>3. \A i \in 1 .. Len(s) - 1 : i + 1 \in 1 .. Len(s) /\ Tail(s)[i] = s[i + 1]
  BY <1>1
<1>4. QED BY <1>1, <1>2, <1>3 DEF Range

\* A tile that stays where it is, in queues that lose no other tile than t.
LEMMA StillFound ==
  ASSUME NEW u \in Tiles, FoundAt(u), place'[u] = place[u], written \subseteq written',
         u \in Range(pending) => u \in Range(pending'),
         \A w \in Workers : u \in Range(loads[w]) => u \in Range(loads'[w]),
         \A w \in Workers : u \in Range(writes[w]) => u \in Range(writes'[w])
  PROVE  FoundAt(u)'
  BY DEF FoundAt

-----------------------------------------------------------------------------
(***************************************************************************)
(* Every step keeps Found.                                                 *)
(***************************************************************************)
\* A step that moves no tile: marks may be put and got.
LEMMA NoneMoved ==
  ASSUME IInv, Found, UNCHANGED <<pending, place>>, written \subseteq written',
         \A w \in Workers : Range(loads[w]) \subseteq Range(loads'[w]) \union {End},
         \A w \in Workers : Range(writes[w]) \subseteq Range(writes'[w]) \union {End}
  PROVE  Found'
  BY MarksAssumption, StillFound DEF Found

\* A step that moves the tile t and takes no other out of a queue.
LEMMA OneMoved ==
  ASSUME IInv, Found, NEW t \in Tiles, NEW p, place' = [place EXCEPT ![t] = p], written \subseteq written',
         Range(pending) \subseteq Range(pending') \union {t},
         \A w \in Workers : Range(loads[w]) \subseteq Range(loads'[w]) \union {t},
         \A w \in Workers : Range(writes[w]) \subseteq Range(writes'[w]) \union {t},
         place'[t] = p => FoundAt(t)'
  PROVE  Found'
<1>1. place'[t] = p /\ \A u \in Tiles : u # t => place'[u] = place[u]
  BY DEF IInv, TypeOK
<1>2. ASSUME NEW u \in Tiles, u # t PROVE FoundAt(u)'
  BY <1>1, <1>2, StillFound DEF Found
<1>3. QED BY <1>1, <1>2 DEF Found

LEMMA FoundQuiet ==
  ASSUME IInv, Found, NEW w \in Workers,
         \/ PrefetchDrained(w) \/ PrefetchLoad(w) \/ Start(w) \/ Solve(w) \/ SolveFails(w) \/ Join(w) \/ SyncDrained(w)
         \/ \E r \in {"compute", "writer"} :
              Acquire(w, r) \/ Count(w, r) \/ Release(w, r) \/ WriteFails(w, r) \/ ZombieAcquire(w, r)
  PROVE  Found'
<1>1. UNCHANGED <<pending, loads, writes, place>> /\ written \subseteq written'
  BY DEF PrefetchDrained, PrefetchLoad, Start, Solve, SolveFails, Join, SyncDrained, Acquire, Count, Release,
         WriteFails, ZombieAcquire, manager
<1>2. QED BY <1>1, NoneMoved

\* The End mark is put into a queue or got from it.
LEMMA FoundEnds ==
  ASSUME IInv, Found, NEW w \in Workers, PrefetchEnd(w) \/ ComputeEnd(w) \/ Close(w) \/ WriterEnd(w)
  PROVE  Found'
<1>1. loads[w] \in Seq(Tiles \union {End}) /\ writes[w] \in Seq(Tiles \union {End})
  BY QueueTypes DEF IInv
<1>2. UNCHANGED <<pending, written, place>>
  BY DEF PrefetchEnd, ComputeEnd, Close, WriterEnd, manager
<1>3. \A v \in Workers : v # w => loads'[v] = loads[v] /\ writes'[v] = writes[v]
  BY DEF PrefetchEnd, ComputeEnd, Close, WriterEnd, IInv, TypeOK
<1>4. /\ \/ loads'[w] = loads[w] \/ loads'[w] = Append(loads[w], End)
         \/ loads[w] # <<>> /\ Head(loads[w]) = End /\ loads'[w] = Tail(loads[w])
      /\ \/ writes'[w] = writes[w] \/ writes'[w] = Append(writes[w], End)
         \/ writes[w] # <<>> /\ Head(writes[w]) = End /\ writes'[w] = Tail(writes[w])
  BY DEF PrefetchEnd, ComputeEnd, Close, WriterEnd, IInv, TypeOK
<1>5. Range(loads[w]) \subseteq Range(loads'[w]) \union {End} /\ Range(writes[w]) \subseteq Range(writes'[w]) \union {End}
  <2>1. \A s \in Seq(Tiles \union {End}) : Range(Append(s, End)) = Range(s) \union {End}
    BY RangeAppend
  <2>2. \A s \in Seq(Tiles \union {End}) : s # <<>> => Range(s) = Range(Tail(s)) \union {Head(s)}
    BY RangeTail
  <2>3. QED BY <1>1, <1>4, <2>1, <2>2
<1>6. \A v \in Workers : /\ Range(loads[v]) \subseteq Range(loads'[v]) \union {End}
                         /\ Range(writes[v]) \subseteq Range(writes'[v]) \union {End}
  BY <1>3, <1>5
<1>7. QED BY <1>2, <1>6, NoneMoved

\* The head of the shared queue is taken or passed over.
LEMMA FoundNext ==
  ASSUME IInv, Found, SnapWritten, NEW w \in Workers, NEW r \in Role, NEW step,
         TakeNext(w, r, step) \/ PrefetchSkip(w)
  PROVE  Found'
<1>0. Head(pending) \in Tiles
  BY DEF IInv, TypeOK, TakeNext, PrefetchSkip
<1>a. PICK t \in Tiles : t = Head(pending)
  BY <1>0
<1>1. pending \in Seq(Tiles) /\ pending # <<>> /\ pending' = Tail(pending)
  BY DEF IInv, TypeOK, TakeNext, PrefetchSkip
<1>2. Range(pending) \subseteq Range(pending') \union {t}
  BY <1>1, <1>a, RangeTail
<1>3. UNCHANGED <<loads, writes, written>>
  BY DEF TakeNext, PrefetchSkip
<1>4. PICK p : place' = [place EXCEPT ![t] = p] /\ (p \in Threads \/ (p = Done /\ t \in written))
  <2>1. CASE TakeNext(w, r, step)
    <3>1. place' = [place EXCEPT ![t] = <<w, r>>]
      BY <1>a, <2>1 DEF TakeNext, Move
    <3>2. <<w, r>> \in Threads
      BY PlaceFacts
    <3>3. QED BY ONLY <3>1, <3>2
  <2>2. CASE PrefetchSkip(w)
    BY <1>a, <2>2 DEF PrefetchSkip, Move, Done, SnapWritten
  <2>3. QED BY <2>1, <2>2
<1>5. place'[t] = p => FoundAt(t)'
  BY <1>3, <1>4 DEF FoundAt
<1>6. QED BY <1>2, <1>3, <1>4, <1>5, OneMoved

\* A tile goes from a thread to the next queue, or from a queue to a thread.
LEMMA FoundPut ==
  ASSUME IInv, Found, NEW w \in Workers, PrefetchPut(w) \/ PutResult(w)
  PROVE  Found'
<1>1. loads[w] \in Seq(Tiles \union {End}) /\ writes[w] \in Seq(Tiles \union {End})
  BY QueueTypes DEF IInv
<1>2. ASSUME PrefetchPut(w) PROVE Found'
  <2>0. Tile(w, "prefetch") \in Tiles
    BY <1>2, HeldTile, PlaceFacts DEF PrefetchPut, At, Busy, Role, Tile
  <2>1. PICK t \in Tiles : t = Tile(w, "prefetch")
    BY <2>0
  <2>2. /\ loads' = [loads EXCEPT ![w] = Append(loads[w], t)] /\ place' = [place EXCEPT ![t] = Loads(w)]
        /\ UNCHANGED <<pending, writes, written>>
    BY <2>1, <1>2 DEF PrefetchPut, Move, Loads, manager, IInv, TypeOK
  <2>3. Range(loads'[w]) = Range(loads[w]) \union {t} /\ \A v \in Workers : v # w => loads'[v] = loads[v]
    <3>1. loads'[w] = Append(loads[w], t) /\ \A v \in Workers : v # w => loads'[v] = loads[v]
      BY <2>2 DEF IInv, TypeOK
    <3>2. Range(Append(loads[w], t)) = Range(loads[w]) \union {t}
      BY ONLY <1>1, <2>1, RangeAppend
    <3>3. QED BY <3>1, <3>2
  <2>4. place'[t] = Loads(w) => FoundAt(t)'
    BY <2>3 DEF FoundAt
  <2>5. \A v \in Workers : Range(loads[v]) \subseteq Range(loads'[v]) \union {t}
    BY <2>3
  <2>6. QED BY <2>1, <2>2, <2>4, <2>5, OneMoved
<1>3. ASSUME PutResult(w) PROVE Found'
  <2>0. Tile(w, "compute") \in Tiles
    BY <1>3, HeldTile, PlaceFacts DEF PutResult, At, Busy, Role, Tile
  <2>1. PICK t \in Tiles : t = Tile(w, "compute")
    BY <2>0
  <2>2. /\ writes' = [writes EXCEPT ![w] = Append(writes[w], t)] /\ place' = [place EXCEPT ![t] = Writes(w)]
        /\ UNCHANGED <<pending, loads, written>>
    BY <2>1, <1>3 DEF PutResult, Move, Writes, manager, IInv, TypeOK
  <2>3. Range(writes'[w]) = Range(writes[w]) \union {t} /\ \A v \in Workers : v # w => writes'[v] = writes[v]
    <3>1. writes'[w] = Append(writes[w], t) /\ \A v \in Workers : v # w => writes'[v] = writes[v]
      BY <2>2 DEF IInv, TypeOK
    <3>2. Range(Append(writes[w], t)) = Range(writes[w]) \union {t}
      BY ONLY <1>1, <2>1, RangeAppend
    <3>3. QED BY <3>1, <3>2
  <2>4. place'[t] = Writes(w) => FoundAt(t)'
    BY <2>3 DEF FoundAt
  <2>5. \A v \in Workers : Range(writes[v]) \subseteq Range(writes'[v]) \union {t}
    BY <2>3
  <2>6. QED BY <2>1, <2>2, <2>4, <2>5, OneMoved
<1>4. QED BY <1>2, <1>3

LEMMA FoundGet ==
  ASSUME IInv, Found, NEW w \in Workers, ComputeGet(w) \/ WriterGet(w)
  PROVE  Found'
<1>1. loads[w] \in Seq(Tiles \union {End}) /\ writes[w] \in Seq(Tiles \union {End})
  BY QueueTypes DEF IInv
<1>2. ASSUME ComputeGet(w) PROVE Found'
  <2>0. loads[w] # <<>> /\ Head(loads[w]) \in Tiles
    BY <1>1, <1>2 DEF ComputeGet
  <2>1. PICK t \in Tiles : t = Head(loads[w])
    BY <2>0
  <2>2. /\ loads' = [loads EXCEPT ![w] = Tail(loads[w])] /\ place' = [place EXCEPT ![t] = <<w, "compute">>]
        /\ UNCHANGED <<pending, writes, written>>
    BY <2>1, <1>2 DEF ComputeGet, Move, manager, IInv, TypeOK
  <2>3. \A v \in Workers : Range(loads[v]) \subseteq Range(loads'[v]) \union {t}
    <3>1. loads'[w] = Tail(loads[w]) /\ \A v \in Workers : v # w => loads'[v] = loads[v]
      BY <2>2 DEF IInv, TypeOK
    <3>2. Range(loads[w]) = Range(Tail(loads[w])) \union {t}
      BY <1>1, <2>0, <2>1, RangeTail
    <3>3. QED BY <3>1, <3>2
  <2>4. place'[t] = <<w, "compute">> => FoundAt(t)'
    <3>1. <<w, "compute">> \in Threads
      BY PlaceFacts DEF Role
    <3>2. QED BY <3>1 DEF FoundAt
  <2>5. QED BY <2>1, <2>2, <2>3, <2>4, OneMoved
<1>3. ASSUME WriterGet(w) PROVE Found'
  <2>0. writes[w] # <<>> /\ Head(writes[w]) \in Tiles
    BY <1>1, <1>3 DEF WriterGet
  <2>1. PICK t \in Tiles : t = Head(writes[w])
    BY <2>0
  <2>2. /\ writes' = [writes EXCEPT ![w] = Tail(writes[w])] /\ place' = [place EXCEPT ![t] = <<w, "writer">>]
        /\ UNCHANGED <<pending, loads, written>>
    BY <2>1, <1>3 DEF WriterGet, Move, manager, IInv, TypeOK
  <2>3. \A v \in Workers : Range(writes[v]) \subseteq Range(writes'[v]) \union {t}
    <3>1. writes'[w] = Tail(writes[w]) /\ \A v \in Workers : v # w => writes'[v] = writes[v]
      BY <2>2 DEF IInv, TypeOK
    <3>2. Range(writes[w]) = Range(Tail(writes[w])) \union {t}
      BY <1>1, <2>0, <2>1, RangeTail
    <3>3. QED BY <3>1, <3>2
  <2>4. place'[t] = <<w, "writer">> => FoundAt(t)'
    <3>1. <<w, "writer">> \in Threads
      BY PlaceFacts DEF Role
    <3>2. QED BY <3>1 DEF FoundAt
  <2>5. QED BY <2>1, <2>2, <2>3, <2>4, OneMoved
<1>4. QED BY <1>2, <1>3

\* A tile leaves a thread for the store, the shared queue, the list of failed
\* tiles or for good.
LEMMA FoundHandedIn ==
  ASSUME IInv, Found, NEW w \in Workers, NEW r \in Role,
         \/ r = "prefetch" /\ PrefetchDies(w)
         \/ r = "compute" /\ ComputeRaises(w)
         \/ Write(w, r) \/ Requeue(w, r)
  PROVE  Found'
<1>0. Tile(w, r) \in Tiles
  BY HeldTile, PlaceFacts DEF PrefetchDies, ComputeRaises, Write, Requeue, At, Busy, Tile
<1>1. PICK t \in Tiles : t = Tile(w, r)
  BY <1>0
<1>2. PICK p : /\ place' = [place EXCEPT ![t] = p]
               /\ \/ p = GoneAway /\ UNCHANGED <<pending, written>>
                  \/ p = Done /\ written' = written \union {t} /\ UNCHANGED pending
                  \/ p = Queued /\ pending' = Append(pending, t) /\ UNCHANGED written
                  \/ p = Failed /\ UNCHANGED <<pending, written>>
  BY <1>1 DEF PrefetchDies, ComputeRaises, Write, Requeue, Move, GoneAway, Done, Queued, Failed, manager
<1>3. UNCHANGED <<loads, writes>>
  BY DEF PrefetchDies, ComputeRaises, Write, Requeue
<1>4. Range(Append(pending, t)) = Range(pending) \union {t}
  <2>1. pending \in Seq(Tiles) BY DEF IInv, TypeOK
  <2>2. QED BY ONLY <1>1, <2>1, RangeAppend
<1>5. Range(pending) \subseteq Range(pending') \union {t} /\ written \subseteq written'
  BY <1>2, <1>4
<1>6. place'[t] = p => FoundAt(t)'
  BY <1>2, <1>4 DEF FoundAt
<1>7. QED BY <1>1, <1>2, <1>3, <1>5, <1>6, OneMoved

\* The tiles of a process that ends are lost.
LEMMA FoundVanish ==
  ASSUME IInv, Found, NEW w \in Workers, NEW step, NEW zombies, Vanish(w, step, zombies)
  PROVE  Found'
<1>1. ASSUME NEW t \in Tiles PROVE FoundAt(t)'
  <2>1. CASE place[t][1] = w
    BY <2>1 DEF Vanish, FoundAt, GoneAway
  <2>2. CASE place[t][1] # w
    <3>1. /\ place'[t] = place[t] /\ UNCHANGED <<pending, written>>
          /\ \A v \in Workers : v # w => loads'[v] = loads[v] /\ writes'[v] = writes[v]
      BY <2>2 DEF Vanish, manager, IInv, TypeOK
    <3>2. \A v \in Workers : place[t] = Loads(v) \/ place[t] = Writes(v) => v # w
      BY <2>2 DEF Loads, Writes
    <3>3. QED BY <3>1, <3>2 DEF Found, FoundAt
  <2>3. QED BY <2>1, <2>2
<1>2. QED BY <1>1 DEF Found

LEMMA SnapStep ==
  ASSUME IInv, SnapWritten, Next PROVE SnapWritten'
<1>1. written \subseteq written' /\ (snap' = snap \/ \E w \in Workers : snap' = [snap EXCEPT ![w] = written])
  <2>1. CASE Joined
    BY <2>1 DEF Joined, vars, manager
  <2>2. ASSUME NEW w \in Workers, Prefetch(w) PROVE written \subseteq written' /\ snap' = snap
    BY <2>2 DEF manager, Prefetch, PrefetchTake, PrefetchSkip, PrefetchDrained, PrefetchLoad, PrefetchPut, PrefetchEnd, TakeNext
  <2>3. ASSUME NEW w \in Workers, Report(w, "compute") \/ Report(w, "writer")
        PROVE  written \subseteq written' /\ snap' = snap
    BY <2>3 DEF Report, Acquire, Count, Requeue, Release
  <2>4. ASSUME NEW w \in Workers, Compute(w), ~Report(w, "compute"), ~Start(w)
        PROVE  written \subseteq written' /\ snap' = snap
    BY <2>4 DEF manager, Compute, ComputeGet, ComputeEnd, Solve, SolveFails, PutResult, Close, Join, SyncTake,
                SyncDrained, Write, WriteFails, Leave, TakeNext, Vanish
  <2>5. ASSUME NEW w \in Workers, Start(w) PROVE written \subseteq written' /\ snap' = [snap EXCEPT ![w] = written]
    BY <2>5 DEF Start, manager
  <2>6. ASSUME NEW w \in Workers, Writer(w), ~Report(w, "writer") PROVE written \subseteq written' /\ snap' = snap
    BY <2>6 DEF Writer, WriterGet, WriterEnd, Write, WriteFails
  <2>7. ASSUME NEW w \in Workers, Fault(w) PROVE written \subseteq written' /\ snap' = snap
    BY <2>7 DEF Fault, PrefetchDies, ComputeRaises, Kill, ZombieAcquire, Vanish
  <2>8. QED BY <2>1, <2>2, <2>3, <2>4, <2>5, <2>6, <2>7 DEF Next
<1>2. QED BY <1>1 DEF SnapWritten, IInv, TypeOK

LEMMA FoundStep ==
  ASSUME IInv, Found, SnapWritten, Next PROVE Found'
<1>1. CASE Joined
  BY <1>1, NoneMoved DEF Joined, vars, manager
<1>2. ASSUME NEW w \in Workers, Prefetch(w) \/ Compute(w) \/ Writer(w) \/ Fault(w) PROVE Found'
  <2>1. {"prefetch", "compute", "writer"} = Role
    BY DEF Role
  <2>2. CASE Prefetch(w)
    BY <2>1, <2>2, FoundQuiet, FoundEnds, FoundNext, FoundPut DEF Prefetch, PrefetchTake
  <2>3. CASE Compute(w)
    BY <2>1, <2>3, FoundQuiet, FoundEnds, FoundNext, FoundPut, FoundGet, FoundHandedIn, FoundVanish
       DEF Compute, Report, SyncTake, Leave
  <2>4. CASE Writer(w)
    BY <2>1, <2>4, FoundQuiet, FoundEnds, FoundGet, FoundHandedIn DEF Writer, Report
  <2>5. CASE Fault(w)
    <3>1. CASE Kill(w)
      BY <3>1, FoundVanish DEF Kill
    <3>2. CASE PrefetchDies(w) \/ ComputeRaises(w)
      BY <2>1, <3>2, FoundHandedIn
    <3>3. CASE \E r \in {"compute", "writer"} : ZombieAcquire(w, r)
      BY <3>3, FoundQuiet
    <3>4. QED BY <2>5, <3>1, <3>2, <3>3 DEF Fault
  <2>6. QED BY <1>2, <2>2, <2>3, <2>4, <2>5
<1>3. QED BY <1>1, <1>2 DEF Next

-----------------------------------------------------------------------------
(***************************************************************************)
(* The End marks, as long as nothing raises outside a try.  The prefetcher *)
(* puts one, as the last element of loads; the compute loop gets it once   *)
(* loads is empty, and puts one as the last of writes.                     *)
(***************************************************************************)
EndFree(s)  == \A i \in 1 .. Len(s) : s[i] # End
EndsWith(s) == s # <<>> /\ \A i \in 1 .. Len(s) : (s[i] = End) <=> (i = Len(s))

Stopped == {"killed", "zombie"}

\* The compute loop has got the mark.
Closed(w) == At(w, "compute") \in {"close", "join", "sync", "write", "leave", "exit"} \/ InSyncPass(w)

Phases(w) ==
  /\ At(w, "prefetch") \in {"new", "next", "load", "put", "end", "done", "exit", "killed"}
  /\ At(w, "compute") \in {"new", "get", "solve", "put", "report", "record", "requeue", "release", "close", "join",
                           "sync", "write", "leave", "exit", "killed", "zombie"}
  /\ At(w, "writer") \in {"new", "get", "write", "report", "record", "requeue", "release", "done", "exit",
                          "killed", "zombie"}
  /\ \A step \in {"new", "exit"} : (\E r \in Role : At(w, r) = step) => \A r \in Role : At(w, r) = step
  /\ (\E r \in Role : At(w, r) \in Stopped) => \A r \in Role : At(w, r) \in Stopped
  /\ InSyncPass(w) => At(w, "compute") \notin {"get", "put", "close"}
  /\ At(w, "compute") \in {"sync", "write", "leave"} => InSyncPass(w)
  /\ Closed(w) => At(w, "prefetch") \in {"done", "exit"}

LoadsMarked(w) ==
  /\ Closed(w) => loads[w] = <<>>
  /\ ~Closed(w) /\ At(w, "prefetch") = "done" => EndsWith(loads[w])
  /\ ~Closed(w) /\ At(w, "prefetch") # "done" => EndFree(loads[w])

WritesMarked(w) ==
  /\ InSyncPass(w) \/ At(w, "compute") = "exit" => writes[w] = <<>>
  /\ ~InSyncPass(w) /\ At(w, "compute") = "join" => EndsWith(writes[w])
  /\ ~InSyncPass(w) /\ At(w, "compute") # "join" => EndFree(writes[w])

Orderly(w) == Phases(w) /\ LoadsMarked(w) /\ WritesMarked(w)
Protocol   == ~LogMayFail => raised = {} /\ \A w \in Workers : Orderly(w)

LEMMA EndFreeFacts ==
  ASSUME NEW s \in Seq(Tiles \union {End}), EndFree(s)
  PROVE  /\ EndsWith(Append(s, End))
         /\ \A t \in Tiles : EndFree(Append(s, t))
         /\ s # <<>> => Head(s) # End /\ EndFree(Tail(s))
<1>1. EndsWith(Append(s, End))
  <2>1. /\ Len(Append(s, End)) = Len(s) + 1 /\ Append(s, End)[Len(s) + 1] = End /\ Len(s) \in Nat
        /\ Append(s, End) # <<>> /\ \A i \in 1 .. Len(s) : Append(s, End)[i] = s[i]
    OBVIOUS
  <2>2. QED BY <2>1 DEF EndsWith, EndFree
<1>2. ASSUME NEW t \in Tiles PROVE EndFree(Append(s, t))
  <2>1. /\ Len(Append(s, t)) = Len(s) + 1 /\ Append(s, t)[Len(s) + 1] = t /\ Len(s) \in Nat
        /\ \A i \in 1 .. Len(s) : Append(s, t)[i] = s[i]
    OBVIOUS
  <2>2. QED BY <2>1, MarksAssumption DEF EndFree
<1>3. ASSUME s # <<>> PROVE Head(s) # End /\ EndFree(Tail(s))
  <2>1. /\ Len(s) \in Nat \ {0} /\ Head(s) = s[1] /\ Len(Tail(s)) = Len(s) - 1
        /\ \A i \in 1 .. Len(s) - 1 : Tail(s)[i] = s[i + 1]
    BY <1>3
  <2>2. QED BY <2>1 DEF EndFree
<1>4. QED BY <1>1, <1>2, <1>3

LEMMA EmptySeq == ASSUME NEW S, NEW s \in Seq(S), Len(s) = 0 PROVE s = <<>>
  OBVIOUS

LEMMA EndsWithFacts ==
  ASSUME NEW s \in Seq(Tiles \union {End}), EndsWith(s)
  PROVE  /\ s # <<>>
         /\ Head(s) # End => EndsWith(Tail(s))
         /\ Head(s) = End => Tail(s) = <<>>
<1>1. s # <<>> /\ \A i \in 1 .. Len(s) : (s[i] = End) <=> (i = Len(s))
  BY DEF EndsWith
<1>2. /\ Len(s) \in Nat /\ Len(s) # 0 /\ Head(s) = s[1]
      /\ Len(Tail(s)) = Len(s) - 1 /\ Tail(s) \in Seq(Tiles \union {End})
      /\ \A i \in 1 .. Len(s) - 1 : Tail(s)[i] = s[i + 1]
  BY <1>1
<1>3. (Head(s) = End) <=> (Len(s) = 1)
  <2>1. 1 \in 1 .. Len(s)
    BY <1>2
  <2>2. (s[1] = End) <=> (1 = Len(s))
    BY <1>1, <2>1
  <2>3. QED BY <1>2, <2>2
<1>4. ASSUME Head(s) # End PROVE EndsWith(Tail(s))
  <2>1. Len(s) # 1
    BY <1>3, <1>4
  <2>2. Tail(s) # <<>>
    <3>1. Len(Tail(s)) # 0
      BY <1>2, <2>1
    <3>2. Len(<<>>) = 0
      OBVIOUS
    <3>3. QED BY ONLY <3>1, <3>2, Zenon
  <2>3. ASSUME NEW i \in 1 .. Len(Tail(s)) PROVE (Tail(s)[i] = End) <=> (i = Len(Tail(s)))
    <3>1. i \in 1 .. Len(s) - 1 /\ i + 1 \in 1 .. Len(s)
      BY <1>2
    <3>2. (s[i + 1] = End) <=> (i + 1 = Len(s))
      BY <1>1, <3>1
    <3>3. Tail(s)[i] = s[i + 1]
      BY <1>2, <3>1
    <3>4. (i + 1 = Len(s)) <=> (i = Len(Tail(s)))
      BY <1>2, <3>1
    <3>5. QED BY ONLY <3>2, <3>3, <3>4
  <2>4. QED BY <2>2, <2>3 DEF EndsWith
<1>5. ASSUME Head(s) = End PROVE Tail(s) = <<>>
  BY <1>2, <1>3, <1>5, EmptySeq
<1>6. QED BY <1>1, <1>4, <1>5

LEMMA EmptyEndFree == EndFree(<<>>)
  BY DEF EndFree

LEMMA GotoFacts ==
  ASSUME IInv, NEW w \in Workers, NEW r \in Role, NEW step, Goto(w, r, step)
  PROVE  /\ At(w, r)' = step
         /\ \A q \in Role : q # r => At(w, q)' = At(w, q)
         /\ \A v \in Workers, q \in Role : v # w => At(v, q)' = At(v, q)
  BY PlaceFacts DEF Goto, At, IInv, TypeOK

\* What the steps of a worker leave alone in another.
LEMMA OthersOrderly ==
  ASSUME NEW v \in Workers, Orderly(v), \A r \in Role : At(v, r)' = At(v, r),
         loads'[v] = loads[v], writes'[v] = writes[v]
  PROVE  Orderly(v)'
  BY DEF Orderly, Phases, LoadsMarked, WritesMarked, Closed, InSyncPass, Role

-----------------------------------------------------------------------------
(***************************************************************************)
(* Every step of a worker keeps its phases and its marks in order.         *)
(***************************************************************************)
\* Steps that put nothing into the worker's queues and take nothing out.
LEMMA OrderlyQuiet ==
  ASSUME IInv, NEW w \in Workers, Orderly(w), NEW r \in Role, w \notin raised,
         \/ r = "prefetch" /\ (PrefetchTake(w) \/ PrefetchDrained(w) \/ PrefetchLoad(w))
         \/ r = "compute" /\ (Solve(w) \/ SolveFails(w) \/ Join(w) \/ SyncTake(w) \/ SyncDrained(w))
         \/ r \in {"compute", "writer"} /\ (Acquire(w, r) \/ Count(w, r) \/ Requeue(w, r) \/ Release(w, r))
         \/ r \in {"compute", "writer"} /\ (Write(w, r) \/ WriteFails(w, r) \/ ZombieAcquire(w, r))
  PROVE  Orderly(w)'
<1>1. \A step : Goto(w, r, step) => At(w, r)' = step /\ \A q \in Role : q # r => At(w, q)' = At(w, q)
  BY GotoFacts
<1>2. UNCHANGED <<loads, writes>>
  BY DEF PrefetchTake, PrefetchDrained, PrefetchLoad, Solve, SolveFails, Join, SyncTake, SyncDrained, Acquire, Count,
         Requeue, Release, Write, WriteFails, ZombieAcquire, TakeNext
<1>3. \A q \in Role : q # r => At(w, q)' = At(w, q)
  BY <1>1 DEF PrefetchTake, PrefetchDrained, PrefetchLoad, Solve, SolveFails, Join, SyncTake, SyncDrained, Acquire,
              Count, Requeue, Release, Write, WriteFails, ZombieAcquire, TakeNext
<1>4. \/ r = "prefetch" /\ At(w, r) \in {"next", "load"} /\ At(w, r)' \in {"load", "put", "end"}
      \/ r = "compute" /\ At(w, r) = "solve" /\ At(w, r)' = IF InSyncPass(w) THEN "write" ELSE "put"
      \/ r \in {"compute", "writer"} /\ At(w, r) \in {"solve", "write", "report", "record", "requeue"}
           /\ At(w, r)' \in {"report", "record", "requeue", "release"}
      \/ r = "compute" /\ At(w, r) = "join" /\ InSyncPass(w) /\ At(w, r)' = "sync"
      \/ r = "compute" /\ At(w, r) = "sync" /\ At(w, r)' \in {"solve", "leave"}
      \/ r \in {"compute", "writer"} /\ At(w, r) \in {"write", "release"} /\ At(w, r)' = Resume(w, r)
      \/ At(w, r) = "zombie" /\ At(w, r)' = "killed"
  <2>1. CASE r = "prefetch" /\ (PrefetchTake(w) \/ PrefetchDrained(w) \/ PrefetchLoad(w))
    BY <1>1, <2>1 DEF PrefetchTake, PrefetchDrained, PrefetchLoad, TakeNext
  <2>2. CASE r = "compute" /\ (Solve(w) \/ SolveFails(w) \/ Join(w) \/ SyncTake(w) \/ SyncDrained(w))
    BY <1>1, <2>2 DEF Solve, SolveFails, Join, SyncTake, SyncDrained, TakeNext, InSyncPass
  <2>3. CASE r \in {"compute", "writer"} /\ (Acquire(w, r) \/ Count(w, r) \/ Requeue(w, r) \/ Release(w, r))
    BY <1>1, <2>3 DEF Acquire, Count, Requeue, Release
  <2>4. CASE r \in {"compute", "writer"} /\ (Write(w, r) \/ WriteFails(w, r) \/ ZombieAcquire(w, r))
    BY <1>1, <2>4 DEF Write, WriteFails, ZombieAcquire
  <2>5. QED BY <2>1, <2>2, <2>3, <2>4
<1>5. QED BY <1>2, <1>3, <1>4 DEF Orderly, Phases, LoadsMarked, WritesMarked, Closed, InSyncPass, Role, Stopped, Resume

LEMMA OrderlyStart ==
  ASSUME IInv, NEW w \in Workers, Orderly(w), Start(w) PROVE Orderly(w)'
<1>1. /\ At(w, "prefetch")' = "next" /\ At(w, "compute")' = "get" /\ At(w, "writer")' = "get"
      /\ UNCHANGED <<loads, writes>>
  BY PlaceFacts DEF Start, At, Role, IInv, TypeOK
<1>2. \A r \in Role : At(w, r) = "new"
  BY DEF Start
<1>3. QED BY <1>1, <1>2 DEF Orderly, Phases, LoadsMarked, WritesMarked, Closed, InSyncPass, Role, Stopped

\* A process that ends has left its loop, or was killed.
LEMMA OrderlyVanish ==
  ASSUME IInv, NEW w \in Workers, Orderly(w), Leave(w) \/ Kill(w) PROVE Orderly(w)'
<1>1. \A r \in Role : <<w, r>> \in Threads
  BY PlaceFacts
<1>2. CASE Leave(w)
  <2>1. \A r \in Role : At(w, r)' = "exit"
    BY <1>1, <1>2 DEF Leave, Vanish, At
  <2>2. loads'[w] = <<>> /\ writes'[w] = <<>>
    BY <1>2 DEF Leave, Vanish, IInv, TypeOK
  <2>3. QED BY <2>1, <2>2, EmptyEndFree DEF Orderly, Phases, LoadsMarked, WritesMarked, Closed, InSyncPass, Role, Stopped
<1>3. CASE Kill(w)
  <2>1. PICK zombies \in SUBSET {th \in Threads : th[1] = w /\ pc[th] = "report"} : Vanish(w, "killed", zombies)
    BY <1>3 DEF Kill
  <2>2. \A r \in Role : At(w, r)' = IF <<w, r>> \in zombies THEN "zombie" ELSE "killed"
    BY <1>1, <2>1 DEF Vanish, At
  <2>3. loads'[w] = <<>> /\ writes'[w] = <<>>
    BY <2>1 DEF Vanish, IInv, TypeOK
  <2>4. <<w, "prefetch">> \notin zombies
    BY <2>1 DEF Orderly, Phases, At
  <2>5. QED BY <2>2, <2>3, <2>4, EmptyEndFree DEF Orderly, Phases, LoadsMarked, WritesMarked, Closed, InSyncPass, Role, Stopped
<1>4. QED BY <1>2, <1>3

\* A tile is put into a queue or got from it.
LEMMA OrderlyTiles ==
  ASSUME IInv, NEW w \in Workers, Orderly(w), ~LogMayFail,
         PrefetchPut(w) \/ ComputeGet(w) \/ PutResult(w) \/ WriterGet(w)
  PROVE  Orderly(w)'
<1>1. loads[w] \in Seq(Tiles \union {End}) /\ writes[w] \in Seq(Tiles \union {End})
  BY QueueTypes DEF IInv
<1>2. {"prefetch", "compute", "writer"} = Role
  BY DEF Role
<1>3. CASE PrefetchPut(w)
  <2>1. At(w, "prefetch") = "put" /\ At(w, "prefetch")' = "next" /\ \A q \in Role : q # "prefetch" => At(w, q)' = At(w, q)
    BY <1>2, <1>3, GotoFacts DEF PrefetchPut
  <2>2. ~Closed(w) /\ EndFree(loads[w])
    BY <2>1 DEF Orderly, Phases, LoadsMarked
  <2>3. Tile(w, "prefetch") \in Tiles
    BY <1>3, HeldTile, PlaceFacts DEF PrefetchPut, At, Busy, Role, Tile
  <2>4. EndFree(loads'[w]) /\ writes' = writes
    <3>1. loads'[w] = Append(loads[w], Tile(w, "prefetch")) /\ writes' = writes
      BY <1>3 DEF PrefetchPut, IInv, TypeOK
    <3>2. EndFree(Append(loads[w], Tile(w, "prefetch")))
      BY <1>1, <2>2, <2>3, EndFreeFacts
    <3>3. QED BY <3>1, <3>2
  <2>5. QED BY <2>1, <2>2, <2>4 DEF Orderly, Phases, LoadsMarked, WritesMarked, Closed, InSyncPass, Role, Stopped
<1>4. CASE ComputeGet(w)
  <2>1. At(w, "compute") = "get" /\ At(w, "compute")' = "solve" /\ \A q \in Role : q # "compute" => At(w, q)' = At(w, q)
    BY <1>2, <1>4, GotoFacts DEF ComputeGet
  <2>2. ~Closed(w) /\ loads[w] # <<>> /\ Head(loads[w]) # End
    BY <2>1, <1>4 DEF Orderly, Phases, Closed, ComputeGet
  <2>3. writes' = writes /\ loads'[w] = Tail(loads[w])
    BY <1>4 DEF ComputeGet, IInv, TypeOK
  <2>4. IF At(w, "prefetch") = "done" THEN EndsWith(loads'[w]) ELSE EndFree(loads'[w])
    <3>1. CASE At(w, "prefetch") = "done"
      BY <1>1, <2>2, <2>3, <3>1, EndsWithFacts DEF Orderly, LoadsMarked
    <3>2. CASE At(w, "prefetch") # "done"
      BY <1>1, <2>2, <2>3, <3>2, EndFreeFacts DEF Orderly, LoadsMarked
    <3>3. QED BY <3>1, <3>2
  <2>5. QED BY <2>1, <2>2, <2>3, <2>4 DEF Orderly, Phases, LoadsMarked, WritesMarked, Closed, InSyncPass, Role, Stopped
<1>5. CASE PutResult(w)
  <2>1. At(w, "compute") = "put" /\ At(w, "compute")' = "get" /\ \A q \in Role : q # "compute" => At(w, q)' = At(w, q)
    BY <1>2, <1>5, GotoFacts DEF PutResult, Logged
  <2>2. ~InSyncPass(w) /\ EndFree(writes[w])
    BY <2>1 DEF Orderly, Phases, WritesMarked
  <2>3. Tile(w, "compute") \in Tiles
    BY <1>5, HeldTile, PlaceFacts DEF PutResult, At, Busy, Role, Tile
  <2>4. EndFree(writes'[w]) /\ loads' = loads
    <3>1. writes'[w] = Append(writes[w], Tile(w, "compute")) /\ loads' = loads
      BY <1>5 DEF PutResult, IInv, TypeOK
    <3>2. EndFree(Append(writes[w], Tile(w, "compute")))
      BY <1>1, <2>2, <2>3, EndFreeFacts
    <3>3. QED BY <3>1, <3>2
  <2>5. QED BY <2>1, <2>2, <2>4 DEF Orderly, Phases, LoadsMarked, WritesMarked, Closed, InSyncPass, Role, Stopped
<1>6. CASE WriterGet(w)
  <2>1. At(w, "writer") = "get" /\ At(w, "writer")' = "write" /\ \A q \in Role : q # "writer" => At(w, q)' = At(w, q)
    BY <1>2, <1>6, GotoFacts DEF WriterGet
  <2>2. ~InSyncPass(w) /\ writes[w] # <<>> /\ Head(writes[w]) # End
    BY <2>1, <1>6 DEF InSyncPass, WriterGet
  <2>3. loads' = loads /\ writes'[w] = Tail(writes[w])
    BY <1>6 DEF WriterGet, IInv, TypeOK
  <2>4. IF At(w, "compute") = "join" THEN EndsWith(writes'[w]) ELSE EndFree(writes'[w])
    <3>1. CASE At(w, "compute") = "join"
      BY <1>1, <2>2, <2>3, <3>1, EndsWithFacts DEF Orderly, WritesMarked
    <3>2. CASE At(w, "compute") # "join"
      BY <1>1, <2>2, <2>3, <3>2, EndFreeFacts DEF Orderly, WritesMarked
    <3>3. QED BY <3>1, <3>2
  <2>5. QED BY <2>1, <2>2, <2>3, <2>4 DEF Orderly, Phases, LoadsMarked, WritesMarked, Closed, InSyncPass, Role, Stopped
<1>7. QED BY <1>3, <1>4, <1>5, <1>6

\* The mark is put into a queue, or got as its last element.
LEMMA OrderlyEnds ==
  ASSUME IInv, NEW w \in Workers, Orderly(w), ~LogMayFail,
         PrefetchEnd(w) \/ ComputeEnd(w) \/ Close(w) \/ WriterEnd(w)
  PROVE  Orderly(w)'
<1>1. loads[w] \in Seq(Tiles \union {End}) /\ writes[w] \in Seq(Tiles \union {End})
  BY QueueTypes DEF IInv
<1>2. {"prefetch", "compute", "writer"} = Role
  BY DEF Role
<1>3. CASE PrefetchEnd(w)
  <2>1. At(w, "prefetch") = "end" /\ At(w, "prefetch")' = "done" /\ \A q \in Role : q # "prefetch" => At(w, q)' = At(w, q)
    BY <1>2, <1>3, GotoFacts DEF PrefetchEnd
  <2>2. ~Closed(w) /\ EndFree(loads[w])
    BY <2>1 DEF Orderly, Phases, LoadsMarked
  <2>3. writes' = writes /\ loads'[w] = Append(loads[w], End)
    BY <1>3 DEF PrefetchEnd, IInv, TypeOK
  <2>4. EndsWith(loads'[w])
    BY <1>1, <2>2, <2>3, EndFreeFacts
  <2>5. QED BY <2>1, <2>2, <2>3, <2>4 DEF Orderly, Phases, LoadsMarked, WritesMarked, Closed, InSyncPass, Role, Stopped
<1>4. CASE ComputeEnd(w)
  <2>1. At(w, "compute") = "get" /\ At(w, "compute")' = "close" /\ \A q \in Role : q # "compute" => At(w, q)' = At(w, q)
    BY <1>2, <1>4, GotoFacts DEF ComputeEnd, Logged
  <2>2. ~Closed(w) /\ loads[w] # <<>> /\ Head(loads[w]) = End
    BY <2>1, <1>4 DEF Orderly, Phases, Closed, ComputeEnd
  <2>3. writes' = writes /\ loads'[w] = Tail(loads[w])
    BY <1>4 DEF ComputeEnd, IInv, TypeOK
  <2>4. At(w, "prefetch") = "done" /\ EndsWith(loads[w])
    BY <1>1, <2>2, EndFreeFacts DEF Orderly, LoadsMarked
  <2>5. loads'[w] = <<>>
    BY <1>1, <2>2, <2>3, <2>4, EndsWithFacts
  <2>6. QED BY <2>1, <2>2, <2>3, <2>4, <2>5 DEF Orderly, Phases, LoadsMarked, WritesMarked, Closed, InSyncPass, Role, Stopped
<1>5. CASE Close(w)
  <2>1. At(w, "compute") = "close" /\ At(w, "compute")' = "join" /\ \A q \in Role : q # "compute" => At(w, q)' = At(w, q)
    BY <1>2, <1>5, GotoFacts DEF Close
  <2>2. ~InSyncPass(w) /\ EndFree(writes[w])
    BY <2>1 DEF Orderly, Phases, WritesMarked
  <2>3. loads' = loads /\ writes'[w] = Append(writes[w], End)
    BY <1>5 DEF Close, IInv, TypeOK
  <2>4. EndsWith(writes'[w])
    BY <1>1, <2>2, <2>3, EndFreeFacts
  <2>5. QED BY <2>1, <2>2, <2>3, <2>4 DEF Orderly, Phases, LoadsMarked, WritesMarked, Closed, InSyncPass, Role, Stopped
<1>6. CASE WriterEnd(w)
  <2>1. At(w, "writer") = "get" /\ At(w, "writer")' = "done" /\ \A q \in Role : q # "writer" => At(w, q)' = At(w, q)
    BY <1>2, <1>6, GotoFacts DEF WriterEnd
  <2>2. ~InSyncPass(w) /\ writes[w] # <<>> /\ Head(writes[w]) = End
    BY <2>1, <1>6 DEF InSyncPass, WriterEnd
  <2>3. loads' = loads /\ writes'[w] = Tail(writes[w])
    BY <1>6 DEF WriterEnd, IInv, TypeOK
  <2>4. At(w, "compute") = "join" /\ EndsWith(writes[w])
    BY <1>1, <2>2, EndFreeFacts DEF Orderly, WritesMarked
  <2>5. writes'[w] = <<>>
    BY <1>1, <2>2, <2>3, <2>4, EndsWithFacts
  <2>6. QED BY <2>1, <2>2, <2>3, <2>4, <2>5 DEF Orderly, Phases, LoadsMarked, WritesMarked, Closed, InSyncPass, Role, Stopped
<1>7. QED BY <1>3, <1>4, <1>5, <1>6

\* A worker's step says nothing of the threads and the queues of another.
LEMMA OthersAlone ==
  ASSUME IInv, NEW w \in Workers, Prefetch(w) \/ Compute(w) \/ Writer(w) \/ Fault(w), NEW v \in Workers, v # w
  PROVE  /\ \A r \in Role : At(v, r)' = At(v, r)
         /\ loads'[v] = loads[v] /\ writes'[v] = writes[v]
<1>1. \/ \E r \in Role : \E step : Goto(w, r, step)
      \/ Start(w) \/ PrefetchSkip(w) \/ \E step, zombies : Vanish(w, step, zombies)
  <2>1. {"prefetch", "compute", "writer"} = Role
    BY DEF Role
  <2>2. CASE Prefetch(w)
    BY <2>1, <2>2 DEF Prefetch, PrefetchTake, PrefetchDrained, PrefetchLoad, PrefetchPut, PrefetchEnd, TakeNext
  <2>3. CASE Compute(w)
    BY <2>1, <2>3 DEF Compute, Report, ComputeGet, ComputeEnd, Solve, SolveFails, PutResult, Close, Join, SyncTake,
                      SyncDrained, Write, WriteFails, Leave, Acquire, Count, Requeue, Release, TakeNext, Logged
  <2>4. CASE Writer(w)
    BY <2>1, <2>4 DEF Writer, Report, WriterGet, WriterEnd, Write, WriteFails, Acquire, Count, Requeue, Release
  <2>5. CASE Fault(w)
    BY <2>1, <2>5 DEF Fault, PrefetchDies, ComputeRaises, Kill, ZombieAcquire
  <2>6. QED BY <2>2, <2>3, <2>4, <2>5
<1>2. \A r \in Role : At(v, r)' = At(v, r)
  <2>1. CASE \E r \in Role : \E step : Goto(w, r, step)
    BY <2>1, GotoFacts
  <2>2. CASE Start(w)
    <3>1. \A r \in Role : <<v, r>> \in Threads
      BY PlaceFacts
    <3>2. QED BY <2>2, <3>1 DEF Start, At, IInv, TypeOK
  <2>3. CASE PrefetchSkip(w)
    BY <2>3 DEF PrefetchSkip, At
  <2>4. CASE \E step, zombies : Vanish(w, step, zombies)
    <3>1. \A r \in Role : <<v, r>> \in Threads
      BY PlaceFacts
    <3>2. QED BY <2>4, <3>1 DEF Vanish, At
  <2>5. QED BY <1>1, <2>1, <2>2, <2>3, <2>4
<1>3. loads'[v] = loads[v] /\ writes'[v] = writes[v]
  BY DEF IInv, TypeOK, Prefetch, PrefetchTake, PrefetchSkip, PrefetchDrained, PrefetchLoad, PrefetchPut, PrefetchEnd,
         Compute, Report, Start, ComputeGet, ComputeEnd, Solve, SolveFails, PutResult, Close, Join, SyncTake, SyncDrained,
         Write, WriteFails, Leave, Acquire, Count, Requeue, Release, TakeNext, Vanish, Kill,
         Writer, WriterGet, WriterEnd, Fault, PrefetchDies, ComputeRaises, ZombieAcquire
<1>4. QED BY <1>2, <1>3

LEMMA ProtocolStep ==
  ASSUME IInv, Protocol, Next PROVE Protocol'
<1>1. SUFFICES ASSUME ~LogMayFail PROVE raised' = {} /\ \A v \in Workers : Orderly(v)'
  BY DEF Protocol
<1>2. raised = {} /\ \A v \in Workers : Orderly(v)
  BY <1>1 DEF Protocol
<1>3. CASE Joined
  BY <1>2, <1>3 DEF Joined, vars, manager, Orderly, Phases, LoadsMarked, WritesMarked, Closed, InSyncPass, At
<1>4. ASSUME NEW w \in Workers, Prefetch(w) \/ Compute(w) \/ Writer(w) \/ Fault(w)
      PROVE  raised' = {} /\ \A v \in Workers : Orderly(v)'
  <2>1. \A v \in Workers : v # w => Orderly(v)'
    BY <1>2, <1>4, OthersAlone, OthersOrderly
  <2>2. {"prefetch", "compute", "writer"} = Role
    BY DEF Role
  <2>3. CASE PrefetchSkip(w)
    <3>1. UNCHANGED <<pc, loads, writes, raised>>
      BY <2>3 DEF PrefetchSkip
    <3>2. Orderly(w)'
      BY <1>2, <3>1, OthersOrderly DEF At
    <3>3. QED BY <1>2, <2>1, <3>1, <3>2
  <2>4. CASE Start(w) \/ Leave(w) \/ Kill(w)
    BY <1>2, <2>1, <2>4, OrderlyStart, OrderlyVanish DEF Start, Leave, Kill, Vanish
  <2>5. CASE PrefetchPut(w) \/ ComputeGet(w) \/ PutResult(w) \/ WriterGet(w)
    BY <1>1, <1>2, <2>1, <2>5, OrderlyTiles DEF PrefetchPut, ComputeGet, PutResult, WriterGet, Logged
  <2>6. CASE PrefetchEnd(w) \/ ComputeEnd(w) \/ Close(w) \/ WriterEnd(w)
    BY <1>1, <1>2, <2>1, <2>6, OrderlyEnds DEF PrefetchEnd, ComputeEnd, Close, WriterEnd, Logged
  <2>7. ASSUME NEW r \in Role,
               \/ r = "prefetch" /\ (PrefetchTake(w) \/ PrefetchDrained(w) \/ PrefetchLoad(w))
               \/ r = "compute" /\ (Solve(w) \/ SolveFails(w) \/ Join(w) \/ SyncTake(w) \/ SyncDrained(w))
               \/ r \in {"compute", "writer"} /\ (Acquire(w, r) \/ Count(w, r) \/ Requeue(w, r) \/ Release(w, r))
               \/ r \in {"compute", "writer"} /\ (Write(w, r) \/ WriteFails(w, r) \/ ZombieAcquire(w, r))
        PROVE  raised' = {} /\ \A v \in Workers : Orderly(v)'
    <3>1. Orderly(w)'
      BY <1>2, <2>7, OrderlyQuiet
    <3>2. UNCHANGED raised
      BY <2>7 DEF PrefetchTake, PrefetchDrained, PrefetchLoad, Solve, SolveFails, Join, SyncTake, SyncDrained, Acquire,
                  Count, Requeue, Release, Write, WriteFails, ZombieAcquire, TakeNext
    <3>3. QED BY <1>2, <2>1, <3>1, <3>2
  <2>8. CASE PrefetchDies(w) \/ ComputeRaises(w)
    BY <1>1, <2>8 DEF PrefetchDies, ComputeRaises
  <2>9. QED BY <1>4, <2>2, <2>3, <2>4, <2>5, <2>6, <2>7, <2>8 DEF Prefetch, Compute, Writer, Fault, Report
<1>5. QED BY <1>3, <1>4 DEF Next

-----------------------------------------------------------------------------
(***************************************************************************)
(* No tile is dropped between the threads.                                 *)
(***************************************************************************)
Tracked == IInv /\ Found /\ SnapWritten /\ Protocol

LEMMA InitTracked == Init => Tracked
<1>1. SUFFICES ASSUME Init PROVE Tracked
  OBVIOUS
<1>2. IInv
  BY <1>1, InitIInv
<1>3. Found
  BY <1>1 DEF Init, Found, FoundAt, Queued, Tiles
<1>4. SnapWritten
  BY <1>1 DEF Init, SnapWritten
<1>5. ASSUME NEW w \in Workers PROVE Orderly(w)
  <2>1. \A r \in Role : At(w, r) = "new"
    BY <1>1, PlaceFacts DEF Init, At
  <2>2. loads[w] = <<>> /\ writes[w] = <<>>
    BY <1>1 DEF Init
  <2>3. QED BY <2>1, <2>2, EmptyEndFree DEF Orderly, Phases, LoadsMarked, WritesMarked, Closed, InSyncPass, Role, Stopped
<1>6. QED BY <1>1, <1>2, <1>3, <1>4, <1>5 DEF Init, Tracked, Protocol

LEMMA StepTracked == Tracked /\ [Next]_vars => Tracked'
<1>1. CASE Next
  BY <1>1, StepIInv, FoundStep, SnapStep, ProtocolStep DEF Tracked
<1>2. ASSUME Tracked, UNCHANGED vars PROVE Tracked'
  <2>1. IInv'
    BY <1>2, StepIInv DEF Tracked
  <2>2. Found' /\ SnapWritten'
    BY <1>2 DEF Tracked, Found, FoundAt, SnapWritten, vars, manager
  <2>3. Protocol'
    BY <1>2 DEF Tracked, Protocol, Orderly, Phases, LoadsMarked, WritesMarked, Closed, InSyncPass, At, vars, manager
  <2>4. QED BY <2>1, <2>2, <2>3 DEF Tracked
<1>3. QED BY <1>1, <1>2

\* Every tile is where its history says, the End marks stand where the loops
\* expect them, and what a worker skips is stored.
THEOREM TrackedAlways == Spec => []Tracked
  BY InitTracked, StepTracked, PTL DEF Spec

\* A tile that no queue and no thread holds is stored, was reported as failed
\* or went with a worker, for any interleaving, retries, kills and log faults.
THEOREM AccountedCorrect == Spec => []Accounted
<1>1. ASSUME IInv, Found, NEW t \in Tiles, Holders(t) = {}
      PROVE  t \in written \union Range(failed) \union Lost
  <2>1. CASE place[t] = Queued /\ t \in Range(pending)
    <3>1. PICK i \in DOMAIN pending : pending[i] = t
      BY <2>1 DEF Range
    <3>2. <<None, "queue", i>> \in InQueue(t)
      BY <3>1 DEF InQueue
    <3>3. QED BY <1>1, <3>2 DEF Holders
  <2>2. CASE place[t] = Done /\ t \in written
    BY <2>2
  <2>3. CASE place[t] = Failed
    <3>1. failed \in Seq(Tiles) /\ DOMAIN failed = 1 .. Len(failed)
      BY <1>1 DEF IInv, TypeOK
    <3>2. PICK i \in 1 .. Len(failed) : failed[i] = t
      BY <1>1, <2>3 DEF IInv, FailedPlaced
    <3>3. QED BY <3>1, <3>2 DEF Range
  <2>4. CASE place[t] = GoneAway
    BY <2>4 DEF GoneAway, Lost
  <2>5. CASE place[t] \in Threads
    <3>1. hand[place[t]] = t
      BY <1>1, <2>5 DEF IInv, HandPlaced
    <3>2. <<place[t][1], place[t][2], 0>> \in InHands(t)
      BY <2>5, <3>1 DEF InHands
    <3>3. QED BY <1>1, <3>2 DEF Holders
  <2>6. ASSUME NEW w \in Workers, t \in Range(loads[w]) PROVE FALSE
    <3>1. PICK i \in DOMAIN loads[w] : loads[w][i] = t
      BY <2>6 DEF Range
    <3>2. <<w, "loads", i>> \in {<<w, "loads", k>> : k \in {j \in DOMAIN loads[w] : loads[w][j] = t}}
      BY <3>1
    <3>3. <<w, "loads", i>> \in InLoads(t)
      BY <3>2 DEF InLoads
    <3>4. QED BY <1>1, <3>3 DEF Holders
  <2>7. ASSUME NEW w \in Workers, t \in Range(writes[w]) PROVE FALSE
    <3>1. PICK i \in DOMAIN writes[w] : writes[w][i] = t
      BY <2>7 DEF Range
    <3>2. <<w, "writes", i>> \in {<<w, "writes", k>> : k \in {j \in DOMAIN writes[w] : writes[w][j] = t}}
      BY <3>1
    <3>3. <<w, "writes", i>> \in InWrites(t)
      BY <3>2 DEF InWrites
    <3>4. QED BY <1>1, <3>3 DEF Holders
  <2>8. QED BY <1>1, <2>1, <2>2, <2>3, <2>4, <2>5, <2>6, <2>7 DEF Found, FoundAt
<1>2. Tracked => Accounted
  BY <1>1 DEF Accounted, Tracked
<1>3. QED BY <1>2, TrackedAlways, PTL

-----------------------------------------------------------------------------
(***************************************************************************)
(* What one worker can hold.                                               *)
(***************************************************************************)
LEMMA RangeBounded ==
  ASSUME NEW S, NEW s \in Seq(S)
  PROVE  IsFiniteSet(Range(s)) /\ Cardinality(Range(s)) <= Len(s)
<1>1. Len(s) \in Nat /\ s \in [1 .. Len(s) -> S] /\ DOMAIN s = 1 .. Len(s)
  OBVIOUS
<1>2. s \in Surjection(1 .. Len(s), Range(s))
  BY <1>1 DEF Surjection, Range
<1>3. IsFiniteSet(1 .. Len(s)) /\ Cardinality(1 .. Len(s)) = Len(s)
  BY <1>1, FS_Interval
<1>4. QED BY <1>2, <1>3, FS_Surjection

LEMMA RoleBounded ==
  /\ IsFiniteSet(Role) /\ Cardinality(Role) = 3
  /\ Cardinality({"prefetch", "compute"}) = 2 /\ IsFiniteSet({"prefetch", "compute"})
<1>1. IsFiniteSet({"prefetch"}) /\ Cardinality({"prefetch"}) = 1
  BY FS_Singleton
<1>2. {"prefetch", "compute"} = {"prefetch"} \union {"compute"}
  OBVIOUS
<1>3. IsFiniteSet({"prefetch", "compute"}) /\ Cardinality({"prefetch", "compute"}) = 2
  <2>1. "compute" \notin {"prefetch"}
    OBVIOUS
  <2>2. QED BY <1>1, <1>2, <2>1, FS_AddElement
<1>4. Role = {"prefetch", "compute"} \union {"writer"} /\ "writer" \notin {"prefetch", "compute"}
  BY DEF Role
<1>5. QED BY <1>3, <1>4, FS_AddElement

\* A worker holds at most prefetch_depth + 2 bricks in memory: the ones in its
\* loads queue, the one being read or waiting to be put, the one being solved.
THEOREM BricksBoundedCorrect == Spec => []BricksBounded
<1>1. ASSUME TypeOK, NEW w \in Workers PROVE Bricks(w) <= Depth + 2
  <2>1. loads[w] \in Seq(Tiles \union {End}) /\ Len(loads[w]) \in Nat /\ Len(loads[w]) <= Depth /\ Depth \in Nat
    BY <1>1, QueueTypes, BoundsAssumption DEF TypeOK
  <2>2. IsFiniteSet(Range(loads[w])) /\ Cardinality(Range(loads[w])) <= Len(loads[w]) /\ Cardinality(Range(loads[w])) \in Nat
    BY <2>1, RangeBounded, FS_CardinalityType
  <2>3. /\ Cardinality(Range(loads[w]) \ {End}) <= Cardinality(Range(loads[w]))
        /\ Cardinality(Range(loads[w]) \ {End}) \in Nat
    <3>1. Range(loads[w]) \ {End} \in SUBSET Range(loads[w])
      OBVIOUS
    <3>2. QED BY <2>2, <3>1, FS_Subset, FS_CardinalityType
  <2>4. /\ Cardinality({r \in {"prefetch", "compute"} : Tile(w, r) # None}) <= 2
        /\ Cardinality({r \in {"prefetch", "compute"} : Tile(w, r) # None}) \in Nat
    <3>1. {r \in {"prefetch", "compute"} : Tile(w, r) # None} \in SUBSET {"prefetch", "compute"}
      OBVIOUS
    <3>2. QED BY <3>1, RoleBounded, FS_Subset, FS_CardinalityType
  <2>5. QED BY <2>1, <2>2, <2>3, <2>4 DEF Bricks
<1>2. TypeOK => BricksBounded
  BY <1>1 DEF BricksBounded
<1>3. QED BY <1>2, TypeCorrect, PTL

-----------------------------------------------------------------------------
(***************************************************************************)
(* Which steps lose tiles.                                                 *)
(***************************************************************************)
\* A compute loop that leaves in order leaves no tile behind it.
LEMMA Emptied ==
  ASSUME IInv, Found, NEW w \in Workers, Orderly(w), At(w, "compute") \in {"leave", "exit"}, NEW t \in Tiles
  PROVE  place[t][1] # w
<1>1. SUFFICES ASSUME place[t][1] = w PROVE FALSE
  OBVIOUS
<1>2. None # w
  BY MarksAssumption
<1>3. loads[w] = <<>> /\ writes[w] = <<>>
  BY DEF Orderly, Phases, LoadsMarked, WritesMarked, Closed
<1>4. Range(<<>>) = {}
  BY DEF Range
<1>5. CASE place[t] \in Threads
  <2>1. PICK r \in Role : place[t] = <<w, r>>
    BY <1>1, <1>5 DEF Threads
  <2>2. hand[<<w, r>>] = t /\ t # None
    BY <1>5, <2>1, MarksAssumption DEF IInv, HandPlaced
  <2>3. At(w, r) \in Busy
    BY <1>5, <2>1, <2>2 DEF IInv, HandsFull, At
  <2>4. At(w, r) \in {"leave", "done", "exit"}
    BY DEF Orderly, Phases, Closed, InSyncPass, Role
  <2>5. QED BY <2>3, <2>4 DEF Busy
<1>6. QED BY <1>1, <1>2, <1>3, <1>4, <1>5 DEF Found, FoundAt, Queued, Done, Failed, GoneAway, Loads, Writes

\* A tile that goes from one place to another is not lost.
LEMMA NoneLost ==
  ASSUME TypeOK, NEW t \in Tiles, NEW who, NEW slot, Move(t, who, slot), place[t][2] # "lost", slot # "lost"
  PROVE  Lost' = Lost
  BY DEF TypeOK, Lost, Move

LEMMA NoneLostTaken ==
  ASSUME IInv, NEW w \in Workers, NEW r \in Role, NEW step, TakeNext(w, r, step) \/ PrefetchSkip(w)
  PROVE  Lost' = Lost
<1>1. pending \in Seq(Tiles \union {End}) /\ pending # <<>> /\ Head(pending) # End
  BY QueueTypes, MarksAssumption DEF IInv, TypeOK, TakeNext, PrefetchSkip
<1>2. Head(pending) \in Tiles /\ place[Head(pending)] = Queued
  BY <1>1, HeadFacts DEF IInv, QueuePlaced
<1>3. PICK t \in Tiles : t = Head(pending)
  BY <1>2
<1>4. Move(t, w, r) \/ Move(t, None, "done")
  BY <1>3 DEF TakeNext, PrefetchSkip
<1>5. place[t][2] # "lost" /\ r # "lost" /\ TypeOK
  BY <1>2, <1>3 DEF Role, Queued, IInv
<1>6. QED BY <1>4, <1>5, NoneLost

LEMMA NoneLostHeld ==
  ASSUME IInv, NEW w \in Workers, NEW r \in Role, At(w, r) \in Busy, NEW who, NEW slot, slot # "lost",
         Move(Tile(w, r), who, slot)
  PROVE  Lost' = Lost
<1>1. Tile(w, r) \in Tiles /\ place[Tile(w, r)] = <<w, r>>
  BY HeldTile, PlaceFacts DEF At, Tile
<1>2. PICK t \in Tiles : t = Tile(w, r)
  BY <1>1
<1>3. place[t][2] # "lost" /\ Move(t, who, slot) /\ TypeOK
  BY <1>1, <1>2 DEF Role, IInv
<1>4. QED BY <1>3, NoneLost

LEMMA NoneLostGot ==
  ASSUME IInv, NEW w \in Workers, ComputeGet(w) \/ WriterGet(w)
  PROVE  Lost' = Lost
<1>1. loads[w] \in Seq(Tiles \union {End}) /\ writes[w] \in Seq(Tiles \union {End})
  BY QueueTypes DEF IInv
<1>2. CASE ComputeGet(w)
  <2>1. Head(loads[w]) \in Tiles /\ place[Head(loads[w])] = Loads(w)
    BY <1>1, <1>2, HeadFacts DEF ComputeGet, IInv, LoadsPlaced
  <2>2. PICK t \in Tiles : t = Head(loads[w])
    BY <2>1
  <2>3. Move(t, w, "compute") /\ place[t][2] # "lost" /\ TypeOK
    BY <1>2, <2>1, <2>2 DEF ComputeGet, Loads, IInv
  <2>4. QED BY <2>3, NoneLost
<1>3. CASE WriterGet(w)
  <2>1. Head(writes[w]) \in Tiles /\ place[Head(writes[w])] = Writes(w)
    BY <1>1, <1>3, HeadFacts DEF WriterGet, IInv, WritesPlaced
  <2>2. PICK t \in Tiles : t = Head(writes[w])
    BY <2>1
  <2>3. Move(t, w, "writer") /\ place[t][2] # "lost" /\ TypeOK
    BY <1>3, <2>1, <2>2 DEF WriterGet, Writes, IInv
  <2>4. QED BY <2>3, NoneLost
<1>4. QED BY <1>2, <1>3

\* Without log faults, nothing but a kill loses tiles.
LEMMA OnlyKillsLose ==
  ASSUME Tracked, ~LogMayFail, Next, ~ \E w \in Workers : Kill(w)
  PROVE  Lost' = Lost
<1>1. IInv /\ Found /\ \A w \in Workers : Orderly(w)
  BY DEF Tracked, Protocol
<1>2. CASE Joined
  BY <1>2 DEF Joined, vars, Lost
<1>3. ASSUME NEW w \in Workers, Prefetch(w) \/ Compute(w) \/ Writer(w) \/ Fault(w) PROVE Lost' = Lost
  <2>1. "prefetch" \in Role /\ "compute" \in Role /\ "writer" \in Role
    BY DEF Role
  <2>2. CASE UNCHANGED place
    BY <2>2 DEF Lost
  <2>3. CASE Leave(w)
    <3>1. \A t \in Tiles : place[t][1] # w
      BY <1>1, <2>3, Emptied DEF Leave
    <3>2. \A t \in Tiles : place'[t] = place[t]
      BY <2>3, <3>1 DEF Leave, Vanish
    <3>3. QED BY <3>2 DEF Lost
  <2>4. CASE PrefetchTake(w) \/ PrefetchSkip(w) \/ SyncTake(w)
    BY <1>1, <2>1, <2>4, NoneLostTaken DEF PrefetchTake, SyncTake
  <2>5. CASE PrefetchPut(w) \/ PutResult(w)
    BY <1>1, <2>1, <2>5, NoneLostHeld DEF PrefetchPut, PutResult, Busy
  <2>6. CASE ComputeGet(w) \/ WriterGet(w)
    BY <1>1, <2>6, NoneLostGot
  <2>7. ASSUME NEW r \in {"compute", "writer"}, Write(w, r) \/ Requeue(w, r) PROVE Lost' = Lost
    BY <1>1, <2>1, <2>7, NoneLostHeld DEF Write, Requeue, Busy
  <2>8. CASE PrefetchDies(w) \/ ComputeRaises(w) \/ Kill(w)
    BY <2>8 DEF PrefetchDies, ComputeRaises
  <2>9. QED
    BY <1>3, <2>2, <2>3, <2>4, <2>5, <2>6, <2>7, <2>8
    DEF Prefetch, PrefetchDrained, PrefetchLoad, PrefetchEnd, Compute, Report, Start, ComputeEnd, Solve, SolveFails,
        Close, Join, SyncDrained, WriteFails, Acquire, Count, Release, Writer, WriterEnd, Fault, ZombieAcquire
<1>4. QED BY <1>2, <1>3 DEF Next

\* Whatever a kill takes was in the worker's queues or in its threads' hands.
LEMMA KillLoses ==
  ASSUME IInv, Found, NEW w \in Workers, Kill(w)
  PROVE  /\ kills' = kills + 1
         /\ Lost' \ Lost \subseteq (Range(loads[w]) \union Range(writes[w])) \union Range([r \in Role |-> hand[<<w, r>>]])
<1>1. kills' = kills + 1
  BY DEF Kill
<1>2. \A t \in Tiles : place'[t] = IF place[t][1] = w THEN GoneAway ELSE place[t]
  BY DEF Kill, Vanish, GoneAway
<1>3. ASSUME NEW t \in Tiles, place[t][1] = w
      PROVE  t \in (Range(loads[w]) \union Range(writes[w])) \union Range([r \in Role |-> hand[<<w, r>>]])
  <2>1. None # w
    BY MarksAssumption
  <2>2. CASE place[t] \in Threads
    <3>1. PICK r \in Role : place[t] = <<w, r>>
      BY <1>3, <2>2 DEF Threads
    <3>2. hand[<<w, r>>] = t
      BY <2>2, <3>1 DEF IInv, HandPlaced
    <3>3. QED BY <3>1, <3>2 DEF Range
  <2>3. QED BY <1>3, <2>1, <2>2 DEF Found, FoundAt, Queued, Done, Failed, GoneAway, Loads, Writes
<1>4. ASSUME NEW t \in Lost' \ Lost PROVE t \in Tiles /\ place[t][1] = w
  BY <1>2, <1>4 DEF Lost
<1>5. QED BY <1>1, <1>3, <1>4

LEMMA KillLosesFew ==
  ASSUME IInv, Found, NEW w \in Workers, Kill(w)
  PROVE  Cardinality(Lost' \ Lost) <= Depth + WriteDepth + Cardinality(Role)
<1>1. /\ loads[w] \in Seq(Tiles \union {End}) /\ writes[w] \in Seq(Tiles \union {End})
      /\ Len(loads[w]) <= Depth /\ Len(writes[w]) <= WriteDepth
      /\ Depth \in Nat /\ WriteDepth \in Nat /\ Len(loads[w]) \in Nat /\ Len(writes[w]) \in Nat
  BY QueueTypes, BoundsAssumption DEF IInv, TypeOK, WriteDepth
<1> DEFINE L == Range(loads[w])
           W == Range(writes[w])
           f == [r \in Role |-> hand[<<w, r>>]]
           H == Range(f)
<1>2. IsFiniteSet(L) /\ Cardinality(L) <= Len(loads[w]) /\ Cardinality(L) \in Nat
  BY <1>1, RangeBounded, FS_CardinalityType
<1>3. IsFiniteSet(W) /\ Cardinality(W) <= Len(writes[w]) /\ Cardinality(W) \in Nat
  BY <1>1, RangeBounded, FS_CardinalityType
<1>4. IsFiniteSet(H) /\ Cardinality(H) <= Cardinality(Role) /\ Cardinality(H) \in Nat
  <2>1. f \in Surjection(Role, H)
    BY DEF Surjection, Range
  <2>2. IsFiniteSet(H) /\ Cardinality(H) <= Cardinality(Role)
    BY <2>1, RoleBounded, FS_Surjection
  <2>3. QED BY <2>2, FS_CardinalityType
<1>5. IsFiniteSet(L \union W) /\ Cardinality(L \union W) <= Cardinality(L) + Cardinality(W) /\ Cardinality(L \union W) \in Nat
  <2>1. IsFiniteSet(L \intersect W)
    BY <1>2, FS_Intersection
  <2>2. Cardinality(L \intersect W) \in Nat
    BY <2>1, FS_CardinalityType
  <2>3. IsFiniteSet(L \union W) /\ Cardinality(L \union W) = Cardinality(L) + Cardinality(W) - Cardinality(L \intersect W)
    BY <1>2, <1>3, FS_Union
  <2>4. Cardinality(L \union W) \in Nat
    BY <2>3, FS_CardinalityType
  <2>5. QED BY <1>2, <1>3, <2>2, <2>3, <2>4
<1>6. /\ IsFiniteSet((L \union W) \union H) /\ Cardinality((L \union W) \union H) \in Nat
      /\ Cardinality((L \union W) \union H) <= Cardinality(L \union W) + Cardinality(H)
  <2>1. IsFiniteSet((L \union W) \intersect H)
    BY <1>5, FS_Intersection
  <2>2. Cardinality((L \union W) \intersect H) \in Nat
    BY <2>1, FS_CardinalityType
  <2>3. /\ IsFiniteSet((L \union W) \union H)
        /\ Cardinality((L \union W) \union H)
             = Cardinality(L \union W) + Cardinality(H) - Cardinality((L \union W) \intersect H)
    BY <1>4, <1>5, FS_Union
  <2>4. Cardinality((L \union W) \union H) \in Nat
    BY <2>3, FS_CardinalityType
  <2>5. QED BY <1>4, <1>5, <2>2, <2>3, <2>4
<1>7. Lost' \ Lost \in SUBSET ((L \union W) \union H)
  BY KillLoses
<1>8. Cardinality(Lost' \ Lost) <= Cardinality((L \union W) \union H) /\ Cardinality(Lost' \ Lost) \in Nat
  BY <1>6, <1>7, FS_Subset, FS_CardinalityType
<1>9. Cardinality(Role) \in Nat
  BY RoleBounded
<1> HIDE DEF L, W, f, H
<1>10. QED BY <1>1, <1>2, <1>3, <1>4, <1>5, <1>6, <1>8, <1>9

\* Without log faults only a kill loses tiles, and at most what one worker can
\* hold: both its queues full and one tile in each thread.
THEOREM CrashLossCorrect == Spec => CrashLoss
<1>1. Tracked /\ [Next]_vars =>
        [~LogMayFail /\ Lost' # Lost =>
           kills' = kills + 1 /\ Cardinality(Lost' \ Lost) <= Depth + WriteDepth + Cardinality(Role)]_vars
  <2>1. SUFFICES ASSUME Tracked, Next, ~LogMayFail, Lost' # Lost
                 PROVE  kills' = kills + 1 /\ Cardinality(Lost' \ Lost) <= Depth + WriteDepth + Cardinality(Role)
    OBVIOUS
  <2>2. PICK w \in Workers : Kill(w)
    BY <2>1, OnlyKillsLose
  <2>3. QED BY <2>1, <2>2, KillLoses, KillLosesFew DEF Tracked
<1>2. QED BY <1>1, TrackedAlways, PTL DEF Spec, CrashLoss

-----------------------------------------------------------------------------
(***************************************************************************)
(* A run without faults.                                                   *)
(***************************************************************************)
\* Nothing was killed or lost, and no compute loop leaves the synchronous pass
\* with tiles queued unless another is still there to take them.
Undisturbed ==
  ~LogMayFail /\ kills = 0 =>
    /\ \A w \in Workers, r \in Role : At(w, r) \notin Stopped
    /\ Lost = {}
    /\ (\A w \in Workers : At(w, "compute") \in {"leave", "exit"}) => pending = <<>>

\* When a compute loop may come to leave, and who may add to the shared queue.
LEMMA LateSteps ==
  ASSUME IInv, raised = {}, ~LogMayFail, NEW w \in Workers, Prefetch(w) \/ Compute(w) \/ Writer(w) \/ Fault(w),
         kills' = kills, kills \in Nat, \A r \in Role : At(w, r) \notin Stopped
  PROVE  /\ \/ pending' = pending \/ pending # <<>>
            \/ At(w, "writer") = "requeue"
            \/ At(w, "compute")' = "release"
         /\ At(w, "compute")' \notin Stopped
         /\ At(w, "compute")' \in {"leave", "exit"} =>
              At(w, "compute") \in {"leave", "exit"} \/ (pending = <<>> /\ pending' = <<>>)
<1>1. \A r \in Role : \A step : Goto(w, r, step) => At(w, r)' = step /\ \A q \in Role : q # r => At(w, q)' = At(w, q)
  BY GotoFacts
<1>2. "prefetch" \in Role /\ "compute" \in Role /\ "writer" \in Role
  BY DEF Role
<1>3. ~Kill(w) /\ ~PrefetchDies(w) /\ ~ComputeRaises(w)
  BY DEF Kill, PrefetchDies, ComputeRaises
<1>4. CASE Prefetch(w)
  BY <1>1, <1>2, <1>4 DEF Prefetch, PrefetchTake, PrefetchSkip, PrefetchDrained, PrefetchLoad, PrefetchPut, PrefetchEnd,
                          TakeNext, At, manager
<1>5. CASE Writer(w)
  BY <1>1, <1>2, <1>5 DEF Writer, Report, WriterGet, WriterEnd, Write, WriteFails, Acquire, Count, Requeue, Release, manager
<1>6. CASE Fault(w)
  BY <1>1, <1>2, <1>3, <1>6 DEF Fault, ZombieAcquire, Stopped
<1>7. CASE Compute(w)
  <2>1. CASE Start(w)
    <3>1. At(w, "compute")' = "get" /\ pending' = pending
      BY <1>2, <2>1, PlaceFacts DEF Start, At, IInv, TypeOK, manager
    <3>2. QED BY <3>1 DEF Stopped
  <2>2. CASE Leave(w)
    <3>1. At(w, "compute") = "leave" /\ At(w, "compute")' = "exit" /\ pending' = pending
      BY <1>2, <2>2, PlaceFacts DEF Leave, Vanish, At, manager
    <3>2. QED BY <3>1 DEF Stopped
  <2>3. CASE SyncTake(w) \/ ComputeGet(w) \/ ComputeEnd(w) \/ PutResult(w) \/ Close(w)
    BY <1>1, <1>2, <2>3 DEF SyncTake, TakeNext, ComputeGet, ComputeEnd, PutResult, Close, Logged, Stopped, manager
  <2>4. CASE Solve(w) \/ SolveFails(w) \/ Join(w) \/ SyncDrained(w)
    BY <1>1, <1>2, <2>4 DEF Solve, SolveFails, Join, SyncDrained, Stopped, manager
  <2>5. CASE Report(w, "compute") \/ Write(w, "compute") \/ WriteFails(w, "compute")
    BY <1>1, <1>2, <2>5 DEF Report, Write, WriteFails, Acquire, Count, Requeue, Release, Resume, Stopped, manager
  <2>6. QED BY <1>7, <2>1, <2>2, <2>3, <2>4, <2>5 DEF Compute
<1>8. QED BY <1>4, <1>5, <1>6, <1>7

LEMMA StepUndisturbed == Tracked /\ Tracked' /\ Undisturbed /\ [Next]_vars => Undisturbed'
<1>1. CASE UNCHANGED vars
  BY <1>1 DEF Undisturbed, At, Lost, vars, manager
<1>2. ASSUME Tracked, Tracked', Undisturbed, Next, ~LogMayFail, kills' = 0
      PROVE  /\ \A w \in Workers, r \in Role : At(w, r)' \notin Stopped
             /\ Lost' = {}
             /\ (\A w \in Workers : At(w, "compute")' \in {"leave", "exit"}) => pending' = <<>>
  <2>1. kills \in Nat /\ IInv /\ raised = {} /\ (\A w \in Workers : Orderly(w)) /\ \A w \in Workers : Orderly(w)'
    BY <1>2, BoundsAssumption DEF Tracked, Protocol, IInv, TypeOK
  <2>2. ~ \E w \in Workers : Kill(w)
    BY <1>2, <2>1 DEF Kill
  <2>3. kills = 0
    <3>1. CASE Joined
      BY <1>2, <3>1 DEF Joined, vars
    <3>2. ASSUME NEW w \in Workers, Prefetch(w) PROVE kills' = kills
      BY <3>2 DEF Prefetch, PrefetchTake, PrefetchSkip, PrefetchDrained, PrefetchLoad, PrefetchPut, PrefetchEnd, TakeNext
    <3>3. ASSUME NEW w \in Workers, Report(w, "compute") \/ Report(w, "writer") PROVE kills' = kills
      BY <3>3 DEF Report, Acquire, Count, Requeue, Release
    <3>4. ASSUME NEW w \in Workers, Compute(w), ~Report(w, "compute") PROVE kills' = kills
      BY <3>4 DEF Compute, Start, ComputeGet, ComputeEnd, Solve, SolveFails, PutResult, Close, Join, SyncTake,
                  SyncDrained, Write, WriteFails, Leave, TakeNext
    <3>5. ASSUME NEW w \in Workers, Writer(w), ~Report(w, "writer") PROVE kills' = kills
      BY <3>5 DEF Writer, WriterGet, WriterEnd, Write, WriteFails
    <3>6. ASSUME NEW w \in Workers, Fault(w), ~Kill(w) PROVE kills' = kills
      BY <3>6 DEF Fault, PrefetchDies, ComputeRaises, ZombieAcquire
    <3>7. QED BY <1>2, <2>2, <3>1, <3>2, <3>3, <3>4, <3>5, <3>6 DEF Next
  <2>4. /\ \A w \in Workers, r \in Role : At(w, r) \notin Stopped
        /\ Lost = {}
        /\ (\A w \in Workers : At(w, "compute") \in {"leave", "exit"}) => pending = <<>>
    BY <1>2, <2>3 DEF Undisturbed
  <2>5. Lost' = {}
    BY <1>2, <2>2, <2>4, OnlyKillsLose
  <2>6. CASE Joined
    BY <2>4, <2>5, <2>6 DEF Joined, vars, manager, At
  <2>7. ASSUME NEW w \in Workers, Prefetch(w) \/ Compute(w) \/ Writer(w) \/ Fault(w)
        PROVE  /\ \A v \in Workers, r \in Role : At(v, r)' \notin Stopped
               /\ (\A v \in Workers : At(v, "compute")' \in {"leave", "exit"}) => pending' = <<>>
    <3>1. /\ \/ pending' = pending \/ pending # <<>>
             \/ At(w, "writer") = "requeue"
             \/ At(w, "compute")' = "release"
          /\ At(w, "compute")' \notin Stopped
          /\ At(w, "compute")' \in {"leave", "exit"} =>
               At(w, "compute") \in {"leave", "exit"} \/ (pending = <<>> /\ pending' = <<>>)
      BY <1>2, <2>1, <2>3, <2>4, <2>7, LateSteps
    <3>2. \A v \in Workers, r \in Role : v # w => At(v, r)' = At(v, r)
      BY <2>1, <2>7, OthersAlone
    <3>3. \A r \in Role : At(w, r)' \notin Stopped
      BY <2>1, <3>1 DEF Orderly, Phases, Role
    <3>4. At(w, "compute") \in {"leave", "exit"} => At(w, "writer") # "requeue"
      BY <2>1 DEF Orderly, Phases, InSyncPass, Role
    <3>5. ASSUME \A v \in Workers : At(v, "compute")' \in {"leave", "exit"} PROVE pending' = <<>>
      <4>1. CASE At(w, "compute") \notin {"leave", "exit"}
        BY <3>1, <3>5, <4>1
      <4>2. CASE At(w, "compute") \in {"leave", "exit"}
        <5>1. \A v \in Workers : At(v, "compute") \in {"leave", "exit"}
          BY <3>2, <3>5, <4>2 DEF Role
        <5>2. QED BY <2>4, <3>1, <3>4, <3>5, <4>2, <5>1
      <4>3. QED BY <4>1, <4>2
    <3>6. QED BY <2>4, <3>2, <3>3, <3>5
  <2>8. QED BY <1>2, <2>5, <2>6, <2>7 DEF Next
<1>3. QED BY <1>1, <1>2 DEF Undisturbed

LEMMA InitUndisturbed == Init => Undisturbed
<1>1. SUFFICES ASSUME Init PROVE Undisturbed
  OBVIOUS
<1>2. \A w \in Workers, r \in Role : At(w, r) = "new"
  BY <1>1, PlaceFacts DEF Init, At
<1>3. Lost = {}
  BY <1>1 DEF Init, Lost
<1>4. Workers # {} /\ "compute" \in Role
  BY WorkersAssumption DEF Role
<1>5. QED BY <1>2, <1>3, <1>4 DEF Undisturbed, Stopped

\* When every worker of a run has left and nothing was killed or raised outside
\* a try, each tile is stored or given up: also the ones that another worker put
\* back after this worker's prefetcher had seen the queue empty.
THEOREM CompleteCorrect == Spec => []Complete
<1>1. ASSUME Tracked, Undisturbed, AllGone, kills = 0, ~LogMayFail, NEW t \in Tiles
      PROVE  t \in written \union Range(failed)
  <2>1. \A w \in Workers : Orderly(w) /\ At(w, "compute") = "exit"
    BY <1>1 DEF Tracked, Protocol, Undisturbed, AllGone, Gone, Stopped, Role
  <2>2. pending = <<>> /\ Lost = {}
    BY <1>1, <2>1 DEF Undisturbed
  <2>3. \A w \in Workers : place[t][1] # w
    BY <1>1, <2>1, Emptied DEF Tracked
  <2>4. CASE place[t] = Queued /\ t \in Range(pending)
    BY <2>2, <2>4 DEF Range
  <2>5. CASE place[t] = Done /\ t \in written
    BY <2>5
  <2>6. CASE place[t] = Failed
    <3>1. failed \in Seq(Tiles) /\ DOMAIN failed = 1 .. Len(failed)
      BY <1>1 DEF Tracked, IInv, TypeOK
    <3>2. PICK i \in 1 .. Len(failed) : failed[i] = t
      BY <1>1, <2>6 DEF Tracked, IInv, FailedPlaced
    <3>3. QED BY <3>1, <3>2 DEF Range
  <2>7. CASE place[t] = GoneAway
    BY <2>2, <2>7 DEF GoneAway, Lost
  <2>8. \A th \in Threads : th[1] \in Workers
    BY DEF Threads
  <2>9. QED BY <1>1, <2>3, <2>4, <2>5, <2>6, <2>7, <2>8 DEF Tracked, Found, FoundAt, Loads, Writes
<1>2. Tracked /\ Undisturbed => Complete
  BY <1>1 DEF Complete
<1>3. Tracked /\ Undisturbed /\ [Next]_vars => Tracked' /\ Undisturbed'
  BY StepTracked, StepUndisturbed
<1>4. QED BY <1>2, <1>3, InitTracked, InitUndisturbed, PTL DEF Spec

-----------------------------------------------------------------------------
(***************************************************************************)
(* TilePipeline implements TileLedger: whatever the three threads of each  *)
(* worker do, a tile is taken, stored, tried again, given up and lost as   *)
(* the ledger says.                                                        *)
(*                                                                         *)
(* The ledger's fate, owner and tries are functions of place, attempts and *)
(* pc.  A failure is counted in the ledger when the tile is put back or    *)
(* given up, one step after the table of attempts is, so that tries is     *)
(* attempts less one while the tile's holder is between the two.           *)
(***************************************************************************)
FateAt(p) == IF p[1] # None THEN "taken" ELSE IF p[2] = "queue" THEN "queued" ELSE p[2]

\* The ledger's variables, as TilePipeline substitutes them.
Fate  == [t \in Tiles |-> IF place[t][1] # None THEN "taken"
                          ELSE IF place[t][2] = "queue" THEN "queued" ELSE place[t][2]]
Owner == [t \in Tiles |-> place[t][1]]
Tries == [t \in Tiles |-> IF Recording(t) THEN attempts[t] - 1 ELSE attempts[t]]

-----------------------------------------------------------------------------
(***************************************************************************)
(* The steps of the ledger, in these terms.                                *)
(***************************************************************************)
LEMMA LedgerStutters ==
  ASSUME UNCHANGED <<Fate, Owner, Tries, written>>
  PROVE  UNCHANGED Ledger!vars
  BY DEF Fate, Owner, Tries, Ledger!vars

LEMMA LedgerTake ==
  ASSUME NEW w \in Workers, NEW t \in Tiles, Fate[t] = "queued",
         Fate' = [Fate EXCEPT ![t] = "taken"], Owner' = [Owner EXCEPT ![t] = w], UNCHANGED <<Tries, written>>
  PROVE  Ledger!Next
<1>1. Ledger!Take(w, t)
  BY DEF Fate, Owner, Tries, Ledger!Take, Ledger!Becomes
<1>2. QED BY <1>1 DEF Ledger!Next

LEMMA LedgerSkip ==
  ASSUME NEW t \in Tiles, Fate[t] = "queued", t \in written,
         Fate' = [Fate EXCEPT ![t] = "done"], Owner' = [Owner EXCEPT ![t] = None], UNCHANGED <<Tries, written>>
  PROVE  Ledger!Next
<1>1. Ledger!Skip(t)
  BY DEF Fate, Owner, Tries, Ledger!Skip, Ledger!Becomes
<1>2. QED BY <1>1 DEF Ledger!Next

LEMMA LedgerStore ==
  ASSUME NEW w \in Workers, NEW t \in Tiles, Fate[t] = "taken", Owner[t] = w, written' = written \union {t},
         \/ Fate' = [Fate EXCEPT ![t] = "done"] /\ Owner' = [Owner EXCEPT ![t] = None]
         \/ UNCHANGED <<Fate, Owner>>,
         UNCHANGED Tries
  PROVE  Ledger!Next
<1>1. Ledger!Store(w, t)
  BY DEF Fate, Owner, Tries, Ledger!Store, Ledger!Becomes
<1>2. QED BY <1>1 DEF Ledger!Next

LEMMA LedgerFail ==
  ASSUME NEW w \in Workers, NEW t \in Tiles, Fate[t] = "taken", Owner[t] = w,
         Tries' = [Tries EXCEPT ![t] = Tries[t] + 1],
         Fate' = [Fate EXCEPT ![t] = IF Tries[t] < Retries THEN "queued" ELSE "failed"],
         Owner' = [Owner EXCEPT ![t] = None], UNCHANGED written
  PROVE  Ledger!Next
<1>1. Ledger!Fail(w, t)
  BY DEF Fate, Owner, Tries, Ledger!Fail, Ledger!Becomes
<1>2. QED BY <1>1 DEF Ledger!Next

LEMMA LedgerLose ==
  ASSUME NEW w \in Workers, NEW T \in SUBSET Tiles, \A t \in T : Fate[t] = "taken" /\ Owner[t] = w,
         Fate' = [t \in Tiles |-> IF t \in T THEN "lost" ELSE Fate[t]],
         Owner' = [t \in Tiles |-> IF t \in T THEN None ELSE Owner[t]],
         NEW C \in SUBSET T, Tries' = [t \in Tiles |-> IF t \in C THEN Tries[t] + 1 ELSE Tries[t]], UNCHANGED written
  PROVE  Ledger!Next
<1>1. Ledger!Lose(w, T)
  BY DEF Fate, Owner, Tries, Ledger!Lose
<1>2. QED BY <1>1 DEF Ledger!Next

-----------------------------------------------------------------------------
(***************************************************************************)
(* What the steps of the threads do to the ledger's variables.             *)
(***************************************************************************)
LEMMA MoveFacts ==
  ASSUME TypeOK, NEW t \in Tiles, NEW who, NEW slot, Move(t, who, slot)
  PROVE  /\ Fate' = [Fate EXCEPT ![t] = FateAt(<<who, slot>>)]
         /\ Owner' = [Owner EXCEPT ![t] = who]
         /\ Fate[t] = FateAt(place[t]) /\ Owner[t] = place[t][1]
<1>1. place' = [place EXCEPT ![t] = <<who, slot>>] /\ place \in [Tiles -> Place]
  BY DEF TypeOK, Move
<1>2. \A u \in Tiles : place'[u] = IF u = t THEN <<who, slot>> ELSE place[u]
  BY <1>1
<1>3. Fate' = [u \in Tiles |-> IF u = t THEN FateAt(<<who, slot>>) ELSE Fate[u]]
  <2>1. \A u \in Tiles : Fate[u] = FateAt(place[u])
    BY DEF Fate, FateAt
  <2>2. Fate' = [u \in Tiles |-> FateAt(place'[u])]
    BY DEF Fate, FateAt
  <2>3. \A u \in Tiles : FateAt(place'[u]) = IF u = t THEN FateAt(<<who, slot>>) ELSE Fate[u]
    BY <1>2, <2>1
  <2>4. QED BY <2>2, <2>3
<1>4. Owner' = [u \in Tiles |-> IF u = t THEN who ELSE Owner[u]]
  BY <1>2 DEF Owner
<1>5. DOMAIN Fate = Tiles /\ DOMAIN Owner = Tiles /\ Fate[t] = FateAt(place[t]) /\ Owner[t] = place[t][1]
  BY DEF Fate, Owner, FateAt
<1>6. Fate' = [Fate EXCEPT ![t] = FateAt(<<who, slot>>)]
  BY <1>3, <1>5
<1>7. Owner' = [Owner EXCEPT ![t] = who]
  BY <1>4, <1>5
<1>8. QED BY <1>5, <1>6, <1>7

\* The holder of t has counted its failure and not yet acted on it.
InRequeue(t) == place[t] \in Threads /\ pc[place[t]] = "requeue"

LEMMA RecordingPlace == ASSUME IInv PROVE \A t \in Tiles : Recording(t) <=> InRequeue(t)
  BY DEF IInv, HandPlaced, Recording, InRequeue

LEMMA SameTries ==
  ASSUME IInv, IInv', UNCHANGED attempts, \A t \in Tiles : InRequeue(t)' <=> InRequeue(t)
  PROVE  Tries' = Tries
<1>1. \A t \in Tiles : Recording(t)' <=> Recording(t)
  <2>1. \A t \in Tiles : Recording(t)' <=> InRequeue(t)'
    BY DEF IInv, HandPlaced, Recording, InRequeue
  <2>2. QED BY <2>1, RecordingPlace
<1>2. QED BY <1>1 DEF Tries

\* A step of a thread that is not at the list of failures, with the tile t
\* coming to it or from it, or going between places that are no thread's.
LEMMA MovedTries ==
  ASSUME IInv, IInv', UNCHANGED attempts, NEW w \in Workers, NEW r \in Role, NEW step,
         Goto(w, r, step), At(w, r) # "requeue", step # "requeue",
         NEW t \in Tiles, NEW who, NEW slot, Move(t, who, slot) \/ UNCHANGED place,
         place[t] \in Threads => place[t] = <<w, r>>, <<who, slot>> \in Threads => <<who, slot>> = <<w, r>>
  PROVE  Tries' = Tries
<1>1. <<w, r>> \in Threads /\ place \in [Tiles -> Place] /\ pc \in [Threads -> Step]
  BY PlaceFacts DEF IInv, TypeOK
<1>2. \A th \in Threads : pc'[th] = IF th = <<w, r>> THEN step ELSE pc[th]
  BY <1>1 DEF Goto
<1>3. ASSUME NEW u \in Tiles PROVE InRequeue(u)' <=> InRequeue(u)
  <2>1. CASE place'[u] = place[u]
    BY <1>1, <1>2, <2>1 DEF InRequeue, At
  <2>2. CASE place'[u] # place[u]
    <3>1. u = t /\ place'[t] = <<who, slot>>
      BY <1>1, <2>2 DEF Move
    <3>2. QED BY <1>1, <1>2, <3>1 DEF InRequeue, At
  <2>3. QED BY <2>1, <2>2
<1>4. QED BY <1>3, SameTries

LEMMA FateValues ==
  /\ \A w \in Workers : \A slot : FateAt(<<w, slot>>) = "taken"
  /\ FateAt(Queued) = "queued" /\ FateAt(Done) = "done" /\ FateAt(Failed) = "failed" /\ FateAt(GoneAway) = "lost"
<1>1. \A w \in Workers : w # None
  BY MarksAssumption
<1>2. QED BY <1>1 DEF FateAt, Queued, Done, Failed, GoneAway

\* No tile changes its place, and the list of failures is not touched.
LEMMA QuietStutters ==
  ASSUME IInv, IInv', NEW w \in Workers, NEW r \in Role, NEW step, Goto(w, r, step),
         At(w, r) # "requeue", step # "requeue", UNCHANGED <<attempts, place>>
  PROVE  UNCHANGED <<Fate, Owner, Tries>>
<1>1. UNCHANGED <<Fate, Owner>>
  BY DEF Fate, Owner
<1>2. \A t \in Tiles : InRequeue(t)' <=> InRequeue(t)
  <2>1. <<w, r>> \in Threads /\ pc \in [Threads -> Step]
    BY PlaceFacts DEF IInv, TypeOK
  <2>2. QED BY <2>1 DEF InRequeue, Goto, At
<1>3. Tries' = Tries
  BY <1>2, SameTries
<1>4. QED BY <1>1, <1>3

LEMMA MapsQuiet ==
  ASSUME IInv, IInv', NEW w \in Workers, NEW r \in Role,
         \/ r = "prefetch" /\ (PrefetchDrained(w) \/ PrefetchLoad(w) \/ PrefetchEnd(w))
         \/ r = "compute" /\ (ComputeEnd(w) \/ Solve(w) \/ SolveFails(w) \/ Close(w) \/ Join(w) \/ SyncDrained(w))
         \/ r = "writer" /\ WriterEnd(w)
         \/ Acquire(w, r) \/ Release(w, r) \/ ZombieAcquire(w, r)
  PROVE  UNCHANGED Ledger!vars
<1>1. At(w, r) # "requeue" /\ \E step : step # "requeue" /\ Goto(w, r, step)
  BY DEF PrefetchDrained, PrefetchLoad, PrefetchEnd, ComputeEnd, Solve, SolveFails, Close, Join, SyncDrained, WriterEnd,
         Acquire, Release, ZombieAcquire, Logged, Resume
<1>2. UNCHANGED <<attempts, place, written>>
  BY DEF PrefetchDrained, PrefetchLoad, PrefetchEnd, ComputeEnd, Solve, SolveFails, Close, Join, SyncDrained, WriterEnd,
         Acquire, Release, ZombieAcquire, manager
<1>3. QED BY <1>1, <1>2, QuietStutters, LedgerStutters

LEMMA MapsStart ==
  ASSUME IInv, IInv', NEW w \in Workers, Start(w) PROVE UNCHANGED Ledger!vars
<1>1. UNCHANGED <<attempts, place, written>>
  BY DEF Start, manager
<1>2. \A th \in Threads : pc'[th] = "requeue" <=> pc[th] = "requeue"
  <2>1. ASSUME NEW th \in Threads, th[1] = w PROVE pc[th] = "new" /\ pc'[th] # "requeue"
    <3>1. PICK r \in Role : th = <<w, r>>
      BY <2>1 DEF Threads
    <3>2. pc[<<w, r>>] = "new" /\ pc'[<<w, r>>] \in {"next", "get"}
      BY PlaceFacts DEF Start, At, Role, IInv, TypeOK
    <3>3. QED BY <3>1, <3>2
  <2>2. \A th \in Threads : th[1] # w => pc'[th] = pc[th]
    BY DEF Start, IInv, TypeOK
  <2>3. QED BY <2>1, <2>2
<1>3. \A t \in Tiles : InRequeue(t)' <=> InRequeue(t)
  BY <1>1, <1>2 DEF InRequeue
<1>4. Tries' = Tries /\ UNCHANGED <<Fate, Owner>>
  BY <1>1, <1>3, SameTries DEF Fate, Owner
<1>5. QED BY <1>1, <1>4, LedgerStutters

\* The table of attempts counts a failure that the ledger does not yet.
LEMMA MapsCount ==
  ASSUME IInv, IInv', NEW w \in Workers, NEW r \in Role, Count(w, r) PROVE UNCHANGED Ledger!vars
<1>1. /\ UNCHANGED <<place, written, hand>> /\ At(w, r) = "record" /\ Goto(w, r, "requeue")
      /\ attempts' = [attempts EXCEPT ![Tile(w, r)] = attempts[Tile(w, r)] + 1]
  BY DEF Count
<1>2. /\ <<w, r>> \in Threads /\ Tile(w, r) \in Tiles /\ place[Tile(w, r)] = <<w, r>>
      /\ pc \in [Threads -> Step] /\ attempts \in [Tiles -> 0 .. Retries + 1]
  BY <1>1, HeldTile, PlaceFacts DEF At, Tile, Busy, IInv, TypeOK
<1>3. PICK t \in Tiles : t = Tile(w, r)
  BY <1>2
<1>4. \A u \in Tiles : u # t => place[u] # <<w, r>>
  BY <1>1, <1>2, <1>3 DEF IInv, HandPlaced, Tile
<1>5. \A u \in Tiles : u # t => (InRequeue(u)' <=> InRequeue(u))
  BY <1>1, <1>2, <1>4 DEF InRequeue, Goto
<1>6. InRequeue(t)' /\ ~InRequeue(t)
  BY <1>1, <1>2, <1>3 DEF InRequeue, Goto, At
<1>7. (\A u \in Tiles : Recording(u) <=> InRequeue(u)) /\ \A u \in Tiles : Recording(u)' <=> InRequeue(u)'
  BY DEF IInv, HandPlaced, Recording, InRequeue
<1>8. \A u \in Tiles : (IF Recording(u)' THEN attempts'[u] - 1 ELSE attempts'[u]) = IF Recording(u) THEN attempts[u] - 1 ELSE attempts[u]
  <2>1. attempts[t] \in Int /\ attempts'[t] = attempts[t] + 1 /\ \A u \in Tiles : u # t => attempts'[u] = attempts[u]
    BY <1>1, <1>2, <1>3
  <2>2. QED BY <1>5, <1>6, <1>7, <2>1
<1>9. Tries' = Tries
  BY <1>8 DEF Tries
<1>10. UNCHANGED <<Fate, Owner>>
  BY <1>1 DEF Fate, Owner
<1>11. QED BY <1>1, <1>9, <1>10, LedgerStutters

LEMMA MapsRequeue ==
  ASSUME IInv, IInv', NEW w \in Workers, NEW r \in Role, Requeue(w, r) PROVE Ledger!Next
<1>1. At(w, r) = "requeue" /\ Goto(w, r, "release") /\ UNCHANGED <<attempts, written>>
  BY DEF Requeue
<1>2. /\ <<w, r>> \in Threads /\ Tile(w, r) \in Tiles /\ place[Tile(w, r)] = <<w, r>>
      /\ pc \in [Threads -> Step] /\ attempts \in [Tiles -> 0 .. Retries + 1] /\ place \in [Tiles -> Place]
  BY <1>1, HeldTile, PlaceFacts DEF At, Tile, Busy, IInv, TypeOK
<1>3. PICK t \in Tiles : t = Tile(w, r)
  BY <1>2
<1>4. \A u \in Tiles : u # t => place[u] # <<w, r>>
  BY <1>1, <1>2, <1>3 DEF IInv, HandPlaced, Tile
<1>5. PICK slot \in {"queue", "failed"} : /\ Move(t, None, slot)
                                         /\ slot = IF attempts[t] <= Retries THEN "queue" ELSE "failed"
  BY <1>2, <1>3, BoundsAssumption DEF Requeue
<1>6. \A u \in Tiles : u # t => (InRequeue(u)' <=> InRequeue(u))
  BY <1>1, <1>2, <1>4, <1>5 DEF InRequeue, Goto, Move
<1>7. InRequeue(t) /\ ~InRequeue(t)'
  <2>1. place'[t] = <<None, slot>> /\ <<None, slot>> \notin Threads
    BY <1>2, <1>5, PlaceFacts DEF Move, Queued, Failed
  <2>2. QED BY <1>1, <1>2, <1>3, <2>1 DEF InRequeue, At
<1>8. (\A u \in Tiles : Recording(u) <=> InRequeue(u)) /\ \A u \in Tiles : Recording(u)' <=> InRequeue(u)'
  BY DEF IInv, HandPlaced, Recording, InRequeue
<1>9. Tries[t] = attempts[t] - 1 /\ Tries' = [Tries EXCEPT ![t] = Tries[t] + 1]
  <2>1. attempts[t] \in Int /\ Tries[t] = attempts[t] - 1
    BY <1>2, <1>7, <1>8 DEF Tries
  <2>2. \A u \in Tiles : (IF Recording(u)' THEN attempts'[u] - 1 ELSE attempts'[u]) = IF u = t THEN Tries[t] + 1 ELSE Tries[u]
    BY <1>1, <1>6, <1>7, <1>8, <2>1 DEF Tries
  <2>3. Tries' = [u \in Tiles |-> IF u = t THEN Tries[t] + 1 ELSE Tries[u]]
    BY <2>2 DEF Tries
  <2>4. DOMAIN Tries = Tiles
    BY DEF Tries
  <2>5. QED BY <2>1, <2>3, <2>4
<1>10. slot = "queue" <=> Tries[t] < Retries
  BY <1>2, <1>5, <1>9, BoundsAssumption
<1>11. FateAt(<<None, slot>>) = IF Tries[t] < Retries THEN "queued" ELSE "failed"
  BY <1>5, <1>10, FateValues DEF Queued, Failed
<1>12. /\ Fate' = [Fate EXCEPT ![t] = FateAt(<<None, slot>>)] /\ Owner' = [Owner EXCEPT ![t] = None]
       /\ Fate[t] = "taken" /\ Owner[t] = w
  BY <1>2, <1>3, <1>5, MoveFacts, FateValues DEF IInv
<1>13. QED BY <1>1, <1>9, <1>11, <1>12, LedgerFail

\* The head of the shared queue goes to a thread, or is passed over.
LEMMA MapsTake ==
  ASSUME IInv, IInv', NEW w \in Workers, NEW r \in Role, NEW step, TakeNext(w, r, step),
         At(w, r) # "requeue", step # "requeue"
  PROVE  Ledger!Next
<1>1. pending \in Seq(Tiles \union {End}) /\ pending # <<>> /\ Head(pending) # End
  BY QueueTypes, MarksAssumption DEF IInv, TypeOK, TakeNext
<1>2. Head(pending) \in Tiles /\ place[Head(pending)] = Queued
  BY <1>1, HeadFacts DEF IInv, QueuePlaced
<1>3. PICK t \in Tiles : t = Head(pending)
  BY <1>2
<1>4. Move(t, w, r) /\ Goto(w, r, step) /\ UNCHANGED <<attempts, written>> /\ TypeOK
  BY <1>3 DEF TakeNext, IInv
<1>5. /\ Fate' = [Fate EXCEPT ![t] = "taken"] /\ Owner' = [Owner EXCEPT ![t] = w] /\ Fate[t] = "queued"
  <2>1. /\ Fate' = [Fate EXCEPT ![t] = FateAt(<<w, r>>)] /\ Owner' = [Owner EXCEPT ![t] = w]
        /\ Fate[t] = FateAt(Queued)
    BY <1>2, <1>3, <1>4, MoveFacts
  <2>2. QED BY <2>1, FateValues
<1>6. place[t] \notin Threads
  BY <1>2, <1>3, PlaceFacts
<1>7. Tries' = Tries
  BY <1>4, <1>6, MovedTries
<1>8. QED BY <1>4, <1>5, <1>7, LedgerTake

LEMMA MapsSkip ==
  ASSUME IInv, IInv', SnapWritten, NEW w \in Workers, PrefetchSkip(w) PROVE Ledger!Next
<1>1. pending \in Seq(Tiles \union {End}) /\ pending # <<>> /\ Head(pending) # End
  BY QueueTypes, MarksAssumption DEF IInv, TypeOK, PrefetchSkip
<1>2. Head(pending) \in Tiles /\ place[Head(pending)] = Queued
  BY <1>1, HeadFacts DEF IInv, QueuePlaced
<1>3. PICK t \in Tiles : t = Head(pending)
  BY <1>2
<1>4. Move(t, None, "done") /\ UNCHANGED <<attempts, written, pc>> /\ TypeOK /\ t \in written
  BY <1>3 DEF PrefetchSkip, SnapWritten, IInv
<1>5. /\ Fate' = [Fate EXCEPT ![t] = "done"] /\ Owner' = [Owner EXCEPT ![t] = None] /\ Fate[t] = "queued"
  <2>1. /\ Fate' = [Fate EXCEPT ![t] = FateAt(Done)] /\ Owner' = [Owner EXCEPT ![t] = None] /\ Fate[t] = FateAt(Queued)
    BY <1>2, <1>3, <1>4, MoveFacts DEF Done
  <2>2. QED BY <2>1, FateValues
<1>6. ASSUME NEW u \in Tiles PROVE InRequeue(u)' <=> InRequeue(u)
  <2>1. CASE u # t
    BY <1>4, <2>1 DEF InRequeue, Move, TypeOK
  <2>2. CASE u = t
    <3>1. place[t] \notin Threads
      BY <1>2, <1>3, PlaceFacts
    <3>2. place'[t] = Done /\ Done \notin Threads
      BY <1>4, MarksAssumption DEF Move, TypeOK, Done, Threads
    <3>3. QED BY <2>2, <3>1, <3>2 DEF InRequeue
  <2>3. QED BY <2>1, <2>2
<1>7. Tries' = Tries
  BY <1>4, <1>6, SameTries
<1>8. QED BY <1>4, <1>5, <1>7, LedgerSkip

\* A tile goes from a thread to a queue of its worker, or back.
LEMMA MapsWithin ==
  ASSUME IInv, IInv', NEW w \in Workers, PrefetchPut(w) \/ ComputeGet(w) \/ PutResult(w) \/ WriterGet(w)
  PROVE  UNCHANGED Ledger!vars
<1>1. loads[w] \in Seq(Tiles \union {End}) /\ writes[w] \in Seq(Tiles \union {End}) /\ TypeOK
  BY QueueTypes DEF IInv
<1>2. "prefetch" \in Role /\ "compute" \in Role /\ "writer" \in Role
  BY DEF Role
<1>3. ASSUME NEW t \in Tiles, NEW r \in Role, NEW step, Goto(w, r, step), At(w, r) # "requeue", step # "requeue",
             NEW slot, Move(t, w, slot), place[t][1] = w, UNCHANGED <<attempts, written>>,
             place[t] \in Threads => place[t] = <<w, r>>, <<w, slot>> \in Threads => <<w, slot>> = <<w, r>>
      PROVE  UNCHANGED Ledger!vars
  <2>1. Tries' = Tries
    BY <1>3, MovedTries
  <2>2. /\ Fate' = [Fate EXCEPT ![t] = FateAt(<<w, slot>>)] /\ Owner' = [Owner EXCEPT ![t] = w]
        /\ Fate[t] = FateAt(place[t]) /\ Owner[t] = place[t][1]
    BY <1>1, <1>3, MoveFacts
  <2>3. FateAt(place[t]) = FateAt(<<w, slot>>)
    BY <1>3, MarksAssumption DEF FateAt
  <2>4. UNCHANGED <<Fate, Owner>>
    <3>1. Fate' = [Fate EXCEPT ![t] = Fate[t]] /\ Owner' = [Owner EXCEPT ![t] = Owner[t]]
      BY <1>3, <2>2, <2>3
    <3>2. Fate = [u \in Tiles |-> Fate[u]] /\ Owner = [u \in Tiles |-> Owner[u]]
      BY DEF Fate, Owner
    <3>3. QED BY ONLY <3>1, <3>2
  <2>5. QED BY <1>3, <2>1, <2>4, LedgerStutters
<1>4. CASE PrefetchPut(w)
  <2>1. Tile(w, "prefetch") \in Tiles /\ place[Tile(w, "prefetch")] = <<w, "prefetch">>
    BY <1>2, <1>4, HeldTile, PlaceFacts DEF PrefetchPut, At, Busy, Tile
  <2>2. PICK t \in Tiles : t = Tile(w, "prefetch")
    BY <2>1
  <2>3. Goto(w, "prefetch", "next") /\ At(w, "prefetch") = "put" /\ Move(t, w, "loads") /\ UNCHANGED <<attempts, written>>
    BY <1>4, <2>2 DEF PrefetchPut, manager
  <2>4. <<w, "loads">> \notin Threads
    BY DEF Threads, Role
  <2>5. QED BY <1>2, <1>3, <2>1, <2>2, <2>3, <2>4
<1>5. CASE PutResult(w)
  <2>1. Tile(w, "compute") \in Tiles /\ place[Tile(w, "compute")] = <<w, "compute">>
    BY <1>2, <1>5, HeldTile, PlaceFacts DEF PutResult, At, Busy, Tile
  <2>2. PICK t \in Tiles : t = Tile(w, "compute")
    BY <2>1
  <2>3. PICK step \in {"get", "close"} : Goto(w, "compute", step)
    BY <1>5 DEF PutResult, Logged
  <2>4. At(w, "compute") = "put" /\ Move(t, w, "writes") /\ UNCHANGED <<attempts, written>>
    BY <1>5, <2>2 DEF PutResult, manager
  <2>5. <<w, "writes">> \notin Threads
    BY DEF Threads, Role
  <2>6. QED BY <1>2, <1>3, <2>1, <2>2, <2>3, <2>4, <2>5
<1>6. CASE ComputeGet(w)
  <2>1. Head(loads[w]) \in Tiles /\ place[Head(loads[w])] = Loads(w)
    BY <1>1, <1>6, HeadFacts DEF ComputeGet, IInv, LoadsPlaced
  <2>2. PICK t \in Tiles : t = Head(loads[w])
    BY <2>1
  <2>3. Goto(w, "compute", "solve") /\ At(w, "compute") = "get" /\ Move(t, w, "compute") /\ UNCHANGED <<attempts, written>>
    BY <1>6, <2>2 DEF ComputeGet, manager
  <2>4. place[t] \notin Threads
    BY <2>1, <2>2, PlaceFacts
  <2>5. place[t][1] = w
    BY <2>1, <2>2 DEF Loads
  <2>6. QED BY <1>2, <1>3, <2>3, <2>4, <2>5
<1>7. CASE WriterGet(w)
  <2>1. Head(writes[w]) \in Tiles /\ place[Head(writes[w])] = Writes(w)
    BY <1>1, <1>7, HeadFacts DEF WriterGet, IInv, WritesPlaced
  <2>2. PICK t \in Tiles : t = Head(writes[w])
    BY <2>1
  <2>3. Goto(w, "writer", "write") /\ At(w, "writer") = "get" /\ Move(t, w, "writer") /\ UNCHANGED <<attempts, written>>
    BY <1>7, <2>2 DEF WriterGet, manager
  <2>4. place[t] \notin Threads
    BY <2>1, <2>2, PlaceFacts
  <2>5. place[t][1] = w
    BY <2>1, <2>2 DEF Writes
  <2>6. QED BY <1>2, <1>3, <2>3, <2>4, <2>5
<1>8. QED BY <1>4, <1>5, <1>6, <1>7

\* A tile leaves a thread for the store or for good.
LEMMA MapsHandedIn ==
  ASSUME IInv, IInv', NEW w \in Workers, NEW r \in Role,
         \/ Write(w, r)
         \/ r = "prefetch" /\ PrefetchDies(w)
         \/ r = "compute" /\ ComputeRaises(w)
  PROVE  Ledger!Next
<1>1. At(w, r) \in Busy \ {"requeue"} /\ UNCHANGED attempts
  BY DEF Write, PrefetchDies, ComputeRaises, Busy, manager
<1>2. Tile(w, r) \in Tiles /\ place[Tile(w, r)] = <<w, r>> /\ TypeOK
  BY <1>1, HeldTile, PlaceFacts DEF At, Tile, IInv
<1>3. PICK t \in Tiles : t = Tile(w, r)
  BY <1>2
<1>4. PICK step : step # "requeue" /\ Goto(w, r, step)
  BY DEF Write, PrefetchDies, ComputeRaises, Resume
<1>5. PICK slot \in {"done", "lost"} : /\ Move(t, None, slot)
                                       /\ slot = "done" => written' = written \union {t}
                                       /\ slot = "lost" => written' = written
  BY <1>3 DEF Write, PrefetchDies, ComputeRaises
<1>6. <<None, slot>> \notin Threads
  BY MarksAssumption DEF Threads
<1>7. Tries' = Tries
  BY <1>1, <1>2, <1>3, <1>4, <1>5, <1>6, MovedTries
<1>8. /\ Fate' = [Fate EXCEPT ![t] = FateAt(<<None, slot>>)] /\ Owner' = [Owner EXCEPT ![t] = None]
      /\ Fate[t] = "taken" /\ Owner[t] = w
  BY <1>2, <1>3, <1>5, MoveFacts, FateValues
<1>9. CASE slot = "done"
  BY <1>5, <1>7, <1>8, <1>9, FateValues, LedgerStore DEF Done
<1>10. CASE slot = "lost"
  <2>1. Fate' = [Fate EXCEPT ![t] = "lost"] /\ DOMAIN Fate = Tiles /\ DOMAIN Owner = Tiles
    BY <1>8, <1>10, FateValues DEF GoneAway, Fate, Owner
  <2>2. /\ Fate' = [u \in Tiles |-> IF u \in {t} THEN "lost" ELSE Fate[u]]
        /\ Owner' = [u \in Tiles |-> IF u \in {t} THEN None ELSE Owner[u]]
    BY <1>8, <2>1
  <2>3. Tries' = [u \in Tiles |-> IF u \in {} THEN Tries[u] + 1 ELSE Tries[u]]
    BY <1>7 DEF Tries
  <2>4. /\ {t} \in SUBSET Tiles /\ {} \in SUBSET {t} /\ UNCHANGED written
        /\ \A u \in {t} : Fate[u] = "taken" /\ Owner[u] = w
    BY <1>5, <1>8, <1>10
  <2>5. QED BY ONLY <2>2, <2>3, <2>4, LedgerLose
<1>11. QED BY <1>5, <1>9, <1>10

\* A write that raised may have stored the tile.
LEMMA MapsWriteFails ==
  ASSUME IInv, IInv', NEW w \in Workers, NEW r \in Role, WriteFails(w, r)
  PROVE  Ledger!Next \/ UNCHANGED Ledger!vars
<1>1. At(w, r) = "write" /\ Goto(w, r, "report") /\ UNCHANGED <<attempts, place>>
  BY DEF WriteFails, manager
<1>2. UNCHANGED <<Fate, Owner, Tries>>
  BY <1>1, QuietStutters
<1>3. Tile(w, r) \in Tiles /\ place[Tile(w, r)] = <<w, r>>
  BY <1>1, HeldTile, PlaceFacts DEF At, Tile, Busy
<1>4. PICK t \in Tiles : t = Tile(w, r)
  BY <1>3
<1>5. FateAt(place[t]) = "taken" /\ place[t][1] = w
  BY <1>3, <1>4, FateValues
<1>6. Fate[t] = "taken" /\ Owner[t] = w
  BY <1>5 DEF Fate, Owner, FateAt
<1>7. CASE written' = written
  BY <1>2, <1>7, LedgerStutters
<1>8. CASE written' = written \union {t}
  BY <1>2, <1>6, <1>8, LedgerStore
<1>9. QED BY <1>4, <1>7, <1>8 DEF WriteFails

\* A process that ends loses what it has; the failures it had counted stay.
LEMMA MapsVanish ==
  ASSUME IInv, IInv', NEW w \in Workers, NEW step, NEW zombies, Vanish(w, step, zombies)
  PROVE  Ledger!Next
<1> DEFINE T == {t \in Tiles : place[t][1] = w}
           C == {t \in T : InRequeue(t)}
<1>1. \A t \in Tiles : place'[t] = IF t \in T THEN GoneAway ELSE place[t]
  BY DEF Vanish, GoneAway
<1>2. /\ \A t \in Tiles : FateAt(place'[t]) = IF t \in T THEN "lost" ELSE FateAt(place[t])
      /\ \A t \in Tiles : place'[t][1] = IF t \in T THEN None ELSE place[t][1]
  <2>1. FateAt(GoneAway) = "lost" /\ GoneAway[1] = None
    BY FateValues DEF GoneAway
  <2>2. QED BY <1>1, <2>1
<1>3. Fate' = [t \in Tiles |-> IF t \in T THEN "lost" ELSE Fate[t]]
  <2>1. Fate' = [t \in Tiles |-> FateAt(place'[t])] /\ Fate = [t \in Tiles |-> FateAt(place[t])]
    BY DEF Fate, FateAt
  <2>2. QED BY <1>2, <2>1
<1>4. Owner' = [t \in Tiles |-> IF t \in T THEN None ELSE Owner[t]]
  BY <1>2 DEF Owner
<1>5. ASSUME NEW t \in T PROVE Fate[t] = "taken" /\ Owner[t] = w
  BY MarksAssumption DEF Fate, Owner
<1>6. \A t \in Tiles : InRequeue(t)' <=> InRequeue(t) /\ t \notin C
  <2>1. ASSUME NEW t \in Tiles PROVE InRequeue(t)' <=> InRequeue(t) /\ t \notin C
    <3>1. CASE t \in T
      <4>1. place'[t] = GoneAway /\ GoneAway \notin Threads
        BY <1>1, <3>1, PlaceFacts
      <4>2. QED BY <3>1, <4>1 DEF InRequeue
    <3>2. CASE t \notin T
      <4>1. place'[t] = place[t] /\ place[t][1] # w
        BY <1>1, <3>2
      <4>2. place[t] \in Threads => pc'[place[t]] = pc[place[t]]
        BY <4>1 DEF Vanish
      <4>3. QED BY <3>2, <4>1, <4>2 DEF InRequeue
    <3>3. QED BY <3>1, <3>2
  <2>2. QED BY <2>1
<1>7. (\A t \in Tiles : Recording(t) <=> InRequeue(t)) /\ \A t \in Tiles : Recording(t)' <=> InRequeue(t)'
  BY DEF IInv, HandPlaced, Recording, InRequeue
<1>8. UNCHANGED <<attempts, written>> /\ attempts \in [Tiles -> 0 .. Retries + 1]
  BY DEF Vanish, manager, IInv, TypeOK
<1>9. Tries' = [t \in Tiles |-> IF t \in C THEN Tries[t] + 1 ELSE Tries[t]]
  <2>1. ASSUME NEW t \in Tiles
        PROVE  (IF Recording(t)' THEN attempts'[t] - 1 ELSE attempts'[t]) = IF t \in C THEN Tries[t] + 1 ELSE Tries[t]
    <3>1. Tries[t] = (IF InRequeue(t) THEN attempts[t] - 1 ELSE attempts[t]) /\ attempts[t] \in Int
      BY <1>7, <1>8 DEF Tries
    <3>2. t \in C => InRequeue(t)
      OBVIOUS
    <3>3. Recording(t)' <=> InRequeue(t) /\ t \notin C
      BY <1>6, <1>7
    <3>4. attempts'[t] = attempts[t]
      BY <1>8
    <3>5. QED BY ONLY <3>1, <3>2, <3>3, <3>4
  <2>2. QED BY <2>1 DEF Tries
<1>10. T \in SUBSET Tiles /\ C \in SUBSET T
  OBVIOUS
<1> HIDE DEF T, C
<1>11. QED BY <1>3, <1>4, <1>5, <1>8, <1>9, <1>10, LedgerLose

LEMMA MapsStep ==
  ASSUME IInv, IInv', SnapWritten, Next PROVE Ledger!Next \/ UNCHANGED Ledger!vars
<1>1. CASE Joined
  <2>1. UNCHANGED <<Fate, Owner, Tries, written>>
    BY <1>1 DEF Joined, vars, manager, Fate, Owner, Tries, Recording
  <2>2. QED BY <2>1, LedgerStutters
<1>2. ASSUME NEW w \in Workers, Prefetch(w) \/ Compute(w) \/ Writer(w) \/ Fault(w)
      PROVE  Ledger!Next \/ UNCHANGED Ledger!vars
  <2>1. "prefetch" \in Role /\ "compute" \in Role /\ "writer" \in Role
    BY DEF Role
  <2>2. CASE PrefetchTake(w) \/ SyncTake(w)
    BY <2>1, <2>2, MapsTake DEF PrefetchTake, SyncTake, At
  <2>3. CASE PrefetchSkip(w)
    BY <2>3, MapsSkip
  <2>4. CASE Start(w)
    BY <2>4, MapsStart
  <2>5. CASE PrefetchPut(w) \/ ComputeGet(w) \/ PutResult(w) \/ WriterGet(w)
    BY <2>5, MapsWithin
  <2>6. CASE PrefetchDrained(w) \/ PrefetchLoad(w) \/ PrefetchEnd(w)
    BY <2>1, <2>6, MapsQuiet
  <2>7. CASE ComputeEnd(w) \/ Solve(w) \/ SolveFails(w) \/ Close(w) \/ Join(w) \/ SyncDrained(w)
    BY <2>1, <2>7, MapsQuiet
  <2>8. CASE WriterEnd(w)
    BY <2>1, <2>8, MapsQuiet
  <2>9. ASSUME NEW r \in Role, Report(w, r) \/ ZombieAcquire(w, r) \/ Write(w, r) \/ WriteFails(w, r)
        PROVE  Ledger!Next \/ UNCHANGED Ledger!vars
    BY <2>9, MapsQuiet, MapsCount, MapsRequeue, MapsHandedIn, MapsWriteFails DEF Report
  <2>10. CASE PrefetchDies(w) \/ ComputeRaises(w)
    BY <2>1, <2>10, MapsHandedIn
  <2>11. CASE Leave(w) \/ Kill(w)
    BY <2>11, MapsVanish DEF Leave, Kill
  <2>12. QED
    BY <1>2, <2>1, <2>2, <2>3, <2>4, <2>5, <2>6, <2>7, <2>8, <2>9, <2>10, <2>11 DEF Prefetch, Compute, Writer, Fault
<1>3. QED BY <1>1, <1>2 DEF Next

LEMMA MapsInit == Init => Ledger!Init
<1>1. SUFFICES ASSUME Init PROVE Ledger!Init
  OBVIOUS
<1>2. \A t \in Tiles : ~Recording(t)
  BY <1>1 DEF Init, Recording
<1>3. Tries = [t \in Tiles |-> 0]
  BY <1>1, <1>2 DEF Init, Tries
<1>4. Fate = [t \in Tiles |-> "queued"] /\ Owner = [t \in Tiles |-> None]
  BY <1>1 DEF Init, Fate, Owner
<1>5. written \in SUBSET Tiles
  BY <1>1, ResumedAssumption DEF Init
<1>6. QED BY <1>3, <1>4, <1>5 DEF Fate, Owner, Tries, Ledger!Init

\* Every behaviour of the workers is one of the ledger: a tile is done only when
\* the store has it, fails only after Retries + 1 counted failures, and is lost
\* only with the worker that has it.
THEOREM Refinement == Spec => ImplementsLedger
<1>1. Tracked /\ Tracked' /\ [Next]_vars => [Ledger!Next]_(Ledger!vars)
  <2>1. ASSUME Tracked, Tracked', Next PROVE Ledger!Next \/ UNCHANGED Ledger!vars
    BY <2>1, MapsStep DEF Tracked
  <2>2. ASSUME UNCHANGED vars PROVE UNCHANGED Ledger!vars
    <3>1. UNCHANGED <<Fate, Owner, Tries, written>>
      BY <2>2 DEF vars, manager, Fate, Owner, Tries, Recording
    <3>2. QED BY <3>1, LedgerStutters
  <2>3. QED BY <2>1, <2>2
<1>2. Init => Ledger!Init
  BY MapsInit
<1>3. QED BY <1>1, <1>2, TrackedAlways, PTL DEF Spec, ImplementsLedger, Ledger!Spec
=============================================================================
