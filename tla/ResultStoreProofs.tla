-------------------------- MODULE ResultStoreProofs --------------------------
(***************************************************************************)
(* Theorems about ResultStore, for any tiles, workers, values and numbers  *)
(* of runs and kills: a tile that counts as written was written by one run *)
(* and is never written again, no complete cell is hidden, and what a full *)
(* finalize exports is complete.                                           *)
(*                                                                         *)
(* The argument is about the last chunk of a tile.  It is written when the *)
(* same worker has written all others, so a tile that has it is whole; and *)
(* a worker that may be writing to a tile that has it wrote the same       *)
(* chunks before, for the run listed every tile that was whole earlier.    *)
(***************************************************************************)
EXTENDS ResultStore, TLAPS

Complete == {c \in Cells : \A a \in Range(Required) : c \in OnDisk(a)}

\* The cell and the array of a tile's p-th chunk, as NextCell and NextArray.
CellAt(t, p) == t[(p \div Len(Order)) + 1]
ArrayAt(p)   == Order[(p % Len(Order)) + 1]
Last(t)      == Len(t) * Len(Order)

\* The type of the state.
TypeOK ==
  /\ disk \in [Cells -> [Arrays -> Values \union {None}]]
  /\ value \in Values \union {None} /\ todo \in SUBSET Tiles
  /\ step \in [Workers -> {"off", "list", "take", "write"}] /\ at \in [Workers -> Nat]
  /\ seen \in [Workers -> SUBSET Cells] /\ DOMAIN tile = Workers

\* Presence is rebuilt from what is on disk, and deferred while a run writes.
Present ==
  /\ presence = Deferred \/ presence = [a \in Arrays |-> OnDisk(a)]
  /\ value # None => presence = Deferred
  /\ \A w \in Workers : step[w] # "off" => value # None

\* What a worker has listed is on disk, in the arrays it has come to.
Listing ==
  \A w \in Workers :
    /\ step[w] = "list" => /\ at[w] \in DOMAIN Required
                           /\ \A i \in 1 .. at[w] - 1 : seen[w] \subseteq OnDisk(Required[i])
    /\ step[w] \in {"take", "write"} => seen[w] \subseteq Complete

\* A worker has written its tile from the first chunk to where it is.
Writing ==
  \A w \in Workers : step[w] = "write" =>
    /\ tile[w] \in Tiles /\ ~(Range(tile[w]) \subseteq seen[w])
    /\ at[w] \in 0 .. Last(tile[w])
    /\ \A p \in 0 .. at[w] - 1 : disk[CellAt(tile[w], p)][ArrayAt(p)] = value

Whole(t, v) == \A c \in Range(t), a \in Arrays : disk[c][a] = v
Ended(t)    == disk[t[Len(t)]]["status"] # None

\* A tile with its last chunk is whole, and if it is not this run's, its
\* workers have seen it.
Wholes ==
  \A t \in Tiles : Ended(t) =>
    /\ \E v \in Values : Whole(t, v)
    /\ \A w \in Workers : step[w] # "off" => Whole(t, value) \/ Range(t) \subseteq seen[w]

IInv == TypeOK /\ Present /\ Listing /\ Writing /\ Wholes /\ FullExport

(***************************************************************************)
(* The chunks of a tile.                                                   *)
(***************************************************************************)
LEMMA ArraysAre ==
  /\ Len(Order) = 4 /\ Len(Required) = 3 /\ DOMAIN Required = 1 .. 3
  /\ Arrays = {"vertices", "params", "displacement_sd", "status"}
  /\ Range(Required) = {"vertices", "params", "status"}
  /\ \A i \in 1 .. 3 : Required[i] \in Arrays
<1>1. DOMAIN Order = 1 .. 4 /\ DOMAIN Required = 1 .. 3 /\ Len(Order) = 4 /\ Len(Required) = 3
  BY DEF Order, Required
<1>2. Arrays = {Order[1], Order[2], Order[3], Order[4]}
  BY <1>1 DEF Arrays, Range
<1>3. Range(Required) = {Required[1], Required[2], Required[3]}
  BY <1>1 DEF Range
<1> QED
  BY <1>1, <1>2, <1>3 DEF Order, Required

\* A tile is a sequence without repetition of some of the cells.
LEMMA TileSeq ==
  ASSUME NEW t \in Tiles
  PROVE  /\ Len(t) \in Nat \ {0} /\ DOMAIN t = 1 .. Len(t) /\ Last(t) = 4 * Len(t)
         /\ Range(t) \subseteq Cells
         /\ \A i \in 1 .. Len(t) : t[i] \in Range(t)
         /\ \A c \in Range(t) : \E i \in 1 .. Len(t) : t[i] = c
         /\ \A i, j \in 1 .. Len(t) : t[i] = t[j] => i = j
<1>1. t \in Seq(Range(t)) /\ IsInjective(t) /\ t # <<>>
  BY TilesDisjoint
<1>2. Len(t) \in Nat \ {0} /\ DOMAIN t = 1 .. Len(t)
  BY <1>1
<1>3. Last(t) = 4 * Len(t)
  BY <1>2, ArraysAre DEF Last
<1>4. Range(t) \subseteq Cells
  BY DEF Cells
<1> QED
  BY <1>1, <1>2, <1>3, <1>4 DEF Range, IsInjective

\* A position stands for one array of one cell, and the last for status.
LEMMA Positions ==
  ASSUME NEW t \in Tiles
  PROVE  /\ \A p \in 0 .. Last(t) - 1 : CellAt(t, p) \in Range(t) /\ ArrayAt(p) \in Arrays
         /\ \A c \in Range(t), a \in Arrays :
              \E p \in 0 .. Last(t) - 1 : CellAt(t, p) = c /\ ArrayAt(p) = a
         /\ \A p \in 0 .. Last(t) - 1 :
              CellAt(t, p) = t[Len(t)] /\ ArrayAt(p) = "status" => p = Last(t) - 1
<1>1. \A p \in 0 .. Last(t) - 1 : /\ p \div 4 + 1 \in 1 .. Len(t) /\ (p % 4) + 1 \in 1 .. 4
                                 /\ p = 4 * (p \div 4) + (p % 4)
  BY TileSeq
<1>2. \A p : CellAt(t, p) = t[p \div 4 + 1] /\ ArrayAt(p) = Order[(p % 4) + 1]
  BY ArraysAre DEF CellAt, ArrayAt
<1>3. \A i \in 1 .. 4 : Order[i] \in Arrays /\ (Order[i] = "status" => i = 4)
  BY ArraysAre DEF Order
<1>4. \A p \in 0 .. Last(t) - 1 : CellAt(t, p) \in Range(t) /\ ArrayAt(p) \in Arrays
  BY <1>1, <1>2, <1>3, TileSeq
<1>5. ASSUME NEW c \in Range(t), NEW a \in Arrays
      PROVE  \E p \in 0 .. Last(t) - 1 : CellAt(t, p) = c /\ ArrayAt(p) = a
  <2>1. PICK i \in 1 .. Len(t) : t[i] = c
    BY TileSeq
  <2>2. PICK j \in 1 .. 4 : Order[j] = a
    BY ArraysAre DEF Order
  <2> DEFINE p == 4 * (i - 1) + (j - 1)
  <2>3. p \in 0 .. Last(t) - 1 /\ p \div 4 = i - 1 /\ p % 4 = j - 1
    BY TileSeq
  <2> QED
    BY <1>2, <2>1, <2>2, <2>3
<1>6. ASSUME NEW p \in 0 .. Last(t) - 1, CellAt(t, p) = t[Len(t)], ArrayAt(p) = "status"
      PROVE  p = Last(t) - 1
  <2>1. (p % 4) + 1 = 4
    BY <1>1, <1>2, <1>3, <1>6
  <2>2. p \div 4 + 1 = Len(t)
    BY <1>1, <1>2, <1>6, TileSeq
  <2>3. p = 4 * (p \div 4) + (p % 4) /\ p \div 4 \in Int /\ p % 4 \in Int
    BY <1>1, TileSeq
  <2>4. Len(t) \in Int /\ Last(t) = 4 * Len(t)
    BY TileSeq
  <2> QED
    BY ONLY <2>1, <2>2, <2>3, <2>4
<1> QED
  BY <1>4, <1>5, <1>6

(***************************************************************************)
(* What the invariant says of the tiles that count.                        *)
(***************************************************************************)
LEMMA CountedComplete == Present => Counted = Complete
<1> SUFFICES ASSUME Present
             PROVE  Counted = Complete
  OBVIOUS
<1>1. \A a \in Arrays : Listed(a) = OnDisk(a)
  BY DEF Present, Listed
<1> QED
  BY <1>1, ArraysAre DEF Counted, Complete

LEMMA EndedWhole ==
  ASSUME TypeOK, Wholes, NEW t \in Tiles
  PROVE  (Range(t) \subseteq Complete) <=> Ended(t)
<1>1. t[Len(t)] \in Range(t) /\ Range(t) \subseteq Cells
  BY TileSeq
<1>2. ASSUME Range(t) \subseteq Complete
      PROVE  Ended(t)
  BY <1>1, <1>2, ArraysAre DEF Ended, Complete, OnDisk
<1>3. ASSUME Ended(t)
      PROVE  Range(t) \subseteq Complete
  BY <1>1, <1>3, ArraysAre, ValuesAssumption DEF Wholes, Whole, Complete, OnDisk
<1> QED
  BY <1>2, <1>3

LEMMA WholeUniform ==
  ASSUME Wholes, NEW t \in Tiles, Ended(t)
  PROVE  Uniform(disk, Range(t))
BY DEF Wholes, Whole, Uniform, Solved

(***************************************************************************)
(* Writing a chunk.                                                        *)
(***************************************************************************)
LEMMA WriteChunkFacts ==
  ASSUME IInv, NEW w \in Workers, WriteChunk(w)
  PROVE  /\ tile[w] \in Tiles /\ at[w] \in 0 .. Last(tile[w]) - 1 /\ value \in Values
         /\ CellAt(tile[w], at[w]) \in Range(tile[w]) /\ ArrayAt(at[w]) \in Arrays
         /\ disk' = [disk EXCEPT ![CellAt(tile[w], at[w])][ArrayAt(at[w])] = value]
         /\ at' = [at EXCEPT ![w] = @ + 1] /\ presence = Deferred
<1>1. step[w] = "write" /\ at[w] < Last(tile[w])
  BY DEF WriteChunk, Chunks, Last
<1>2. tile[w] \in Tiles /\ at[w] \in 0 .. Last(tile[w])
  BY <1>1 DEF IInv, Writing
<1>3. at[w] \in 0 .. Last(tile[w]) - 1
  BY <1>1, <1>2, TileSeq
<1>4. value \in Values /\ presence = Deferred
  BY <1>1 DEF IInv, TypeOK, Present
<1> QED
  BY <1>2, <1>3, <1>4, Positions DEF WriteChunk, NextCell, NextArray, CellAt, ArrayAt

\* What is written stays or becomes the run's value, and is there after.
LEMMA ChunkEffect ==
  ASSUME IInv, NEW w \in Workers, WriteChunk(w)
  PROVE  /\ disk' \in [Cells -> [Arrays -> Values \union {None}]]
         /\ \A c \in Cells, a \in Arrays : disk'[c][a] = disk[c][a] \/ disk'[c][a] = value
         /\ disk'[CellAt(tile[w], at[w])][ArrayAt(at[w])] = value
         /\ \A c \in Cells : c # CellAt(tile[w], at[w]) => disk'[c] = disk[c]
         /\ \A c \in Cells, a \in Arrays : a # ArrayAt(at[w]) => disk'[c][a] = disk[c][a]
<1>1. CellAt(tile[w], at[w]) \in Cells /\ ArrayAt(at[w]) \in Arrays /\ value \in Values
      /\ disk' = [disk EXCEPT ![CellAt(tile[w], at[w])][ArrayAt(at[w])] = value]
  BY WriteChunkFacts, TileSeq
<1>2. disk \in [Cells -> [Arrays -> Values \union {None}]]
  BY DEF IInv, TypeOK
<1> DEFINE k == CellAt(tile[w], at[w])
           b == ArrayAt(at[w])
<1>3. disk' = [disk EXCEPT ![k][b] = value] /\ k \in Cells /\ b \in Arrays /\ value \in Values
  BY <1>1
<1> HIDE DEF k, b
<1>4. /\ disk' \in [Cells -> [Arrays -> Values \union {None}]]
      /\ \A c \in Cells, a \in Arrays : disk'[c][a] = disk[c][a] \/ disk'[c][a] = value
      /\ disk'[k][b] = value
      /\ \A c \in Cells : c # k => disk'[c] = disk[c]
      /\ \A c \in Cells, a \in Arrays : a # b => disk'[c][a] = disk[c][a]
  BY ONLY <1>2, <1>3
<1> QED
  BY <1>4 DEF k, b

\* A whole tile is written again only by a worker of the same run, which
\* changes nothing.
LEMMA EndedKept ==
  ASSUME IInv, NEW w \in Workers, WriteChunk(w), NEW u \in Tiles, Ended(u)
  PROVE  \A c \in Range(u) : disk'[c] = disk[c]
<1>1. CASE u # tile[w]
  <2>1. CellAt(tile[w], at[w]) \notin Range(u)
    BY <1>1, WriteChunkFacts, TilesDisjoint
  <2> QED
    BY <2>1, ChunkEffect, TileSeq
<1>2. CASE u = tile[w]
  <2>1. Whole(u, value)
    BY <1>2 DEF IInv, Wholes, Writing, WriteChunk
  <2>2. \A c \in Range(u), a \in Arrays : disk'[c][a] = disk[c][a]
    BY <2>1, ChunkEffect, TileSeq DEF Whole
  <2>3. \A c \in Range(u) : disk[c] \in [Arrays -> Values \union {None}] /\ disk'[c] \in [Arrays -> Values \union {None}]
    BY ChunkEffect, TileSeq DEF IInv, TypeOK
  <2>4. ASSUME NEW c \in Range(u)
        PROVE  disk'[c] = disk[c]
    <3>1. disk[c] = [a \in Arrays |-> disk[c][a]] /\ disk'[c] = [a \in Arrays |-> disk'[c][a]]
      BY <2>3
    <3> QED
      BY <2>2, <3>1
  <2> QED
    BY <2>4
<1> QED
  BY <1>1, <1>2

\* The last chunk is written by a worker that has written all others.
LEMMA NewlyEnded ==
  ASSUME IInv, NEW w \in Workers, WriteChunk(w), NEW u \in Tiles, ~Ended(u), Ended(u)'
  PROVE  Whole(u, value)'
<1> DEFINE t == tile[w]
           p == at[w]
<1>1. t \in Tiles /\ p \in 0 .. Last(t) - 1
  BY WriteChunkFacts
<1>2. u[Len(u)] \in Range(u) /\ u[Len(u)] \in Cells /\ "status" \in Arrays
  BY TileSeq, ArraysAre
<1>3. u[Len(u)] = CellAt(t, p) /\ ArrayAt(p) = "status"
  BY <1>2, ChunkEffect DEF Ended
<1>4. u = t
  <2>1. CellAt(t, p) \in Range(t) /\ CellAt(t, p) \in Range(u)
    BY <1>2, <1>3, WriteChunkFacts
  <2> QED
    BY <1>1, <2>1, TilesDisjoint
<1>5. p = Last(t) - 1
  BY <1>1, <1>3, <1>4, Positions
<1>6. \A q \in 0 .. p - 1 : disk[CellAt(t, q)][ArrayAt(q)] = value
  BY DEF IInv, Writing, WriteChunk
<1>7. \A q \in 0 .. Last(t) - 1 : disk'[CellAt(t, q)][ArrayAt(q)] = value
  <2> TAKE q \in 0 .. Last(t) - 1
  <2>1. CellAt(t, q) \in Cells /\ ArrayAt(q) \in Arrays
    BY <1>1, Positions, TileSeq
  <2>2. q \in 0 .. p - 1 \/ q = p
    BY <1>1, <1>5, TileSeq
  <2> QED
    BY <1>6, <2>1, <2>2, ChunkEffect
<1>8. \A c \in Range(t), a \in Arrays : disk'[c][a] = value
  BY <1>1, <1>7, Positions
<1>9. value' = value
  BY DEF WriteChunk
<1> QED
  BY <1>4, <1>8, <1>9 DEF Whole

LEMMA WriteChunkIInv ==
  ASSUME IInv, NEW w \in Workers, WriteChunk(w)
  PROVE  IInv'
<1>1. /\ step[w] = "write" /\ UNCHANGED <<presence, value, todo, step, seen, tile, runs, kills, export>>
      /\ at' = [at EXCEPT ![w] = @ + 1]
  BY DEF WriteChunk
<1>2. TypeOK'
  BY <1>1, ChunkEffect DEF IInv, TypeOK
<1>3. Present'
  BY <1>1, WriteChunkFacts DEF IInv, Present
<1>4. \A a \in Arrays : OnDisk(a) \subseteq OnDisk(a)'
  BY ChunkEffect, WriteChunkFacts, ValuesAssumption DEF OnDisk
<1>5. Listing'
  <2> SUFFICES ASSUME NEW x \in Workers
               PROVE  /\ step'[x] = "list" => /\ at'[x] \in DOMAIN Required
                                              /\ \A i \in 1 .. at'[x] - 1 : seen'[x] \subseteq OnDisk(Required[i])'
                      /\ step'[x] \in {"take", "write"} => seen'[x] \subseteq Complete'
    BY DEF Listing
  <2>1. ASSUME step'[x] = "list"
        PROVE  at'[x] \in DOMAIN Required /\ \A i \in 1 .. at'[x] - 1 : seen'[x] \subseteq OnDisk(Required[i])'
    <3>1. at'[x] = at[x] /\ seen'[x] = seen[x] /\ at[x] \in DOMAIN Required
          /\ \A i \in 1 .. at[x] - 1 : seen[x] \subseteq OnDisk(Required[i])
      BY <1>1, <2>1 DEF IInv, TypeOK, Listing
    <3> QED
      BY <1>4, <3>1, ArraysAre
  <2>2. ASSUME step'[x] \in {"take", "write"}
        PROVE  seen'[x] \subseteq Complete'
    <3>1. seen[x] \subseteq Complete
      BY <1>1, <2>2 DEF IInv, Listing
    <3> QED
      BY <1>1, <1>4, <3>1, ArraysAre DEF Complete
  <2> QED
    BY <2>1, <2>2
<1>6. Writing'
  <2> SUFFICES ASSUME NEW x \in Workers, step[x] = "write"
               PROVE  /\ at'[x] \in 0 .. Last(tile[x])
                      /\ \A q \in 0 .. at'[x] - 1 : disk'[CellAt(tile[x], q)][ArrayAt(q)] = value
    BY <1>1 DEF IInv, Writing
  <2>1. /\ tile[x] \in Tiles /\ at[x] \in 0 .. Last(tile[x])
        /\ \A q \in 0 .. at[x] - 1 : disk[CellAt(tile[x], q)][ArrayAt(q)] = value
    BY DEF IInv, Writing
  <2>2. \A q \in 0 .. Last(tile[x]) - 1 : CellAt(tile[x], q) \in Cells /\ ArrayAt(q) \in Arrays
    BY <2>1, Positions, TileSeq
  <2>3. \A q \in 0 .. at[x] - 1 : disk'[CellAt(tile[x], q)][ArrayAt(q)] = value
    BY <2>1, <2>2, ChunkEffect, TileSeq
  <2>4. CASE x # w
    BY <1>1, <2>1, <2>3, <2>4 DEF IInv, TypeOK
  <2>5. CASE x = w
    <3>1. at'[x] = at[x] + 1 /\ at[x] \in 0 .. Last(tile[x]) - 1
      BY <1>1, <2>5, WriteChunkFacts DEF IInv, TypeOK
    <3>2. disk'[CellAt(tile[x], at[x])][ArrayAt(at[x])] = value
      BY <2>5, ChunkEffect
    <3>3. Last(tile[x]) \in Nat
      BY <2>1, TileSeq
    <3>4. \A q \in 0 .. at'[x] - 1 : q \in 0 .. at[x] - 1 \/ q = at[x]
      BY <3>1
    <3> QED
      BY <2>3, <3>1, <3>2, <3>3, <3>4
  <2> QED
    BY <2>4, <2>5
<1>7. Wholes'
  <2> SUFFICES ASSUME NEW u \in Tiles, Ended(u)'
               PROVE  /\ \E v \in Values : Whole(u, v)'
                      /\ \A x \in Workers : step[x] # "off" => Whole(u, value)' \/ Range(u) \subseteq seen[x]
    BY <1>1 DEF Wholes
  <2>1. CASE Ended(u)
    <3>1. \A v : Whole(u, v) => Whole(u, v)'
      BY <2>1, EndedKept DEF Whole
    <3> QED
      BY <1>1, <2>1, <3>1 DEF IInv, Wholes, Whole
  <2>2. CASE ~Ended(u)
    BY <1>1, <2>2, NewlyEnded, WriteChunkFacts DEF Whole
  <2> QED
    BY <2>1, <2>2
<1>8. FullExport'
  BY <1>1 DEF IInv, FullExport, Uniform
<1> QED
  BY <1>2, <1>3, <1>5, <1>6, <1>7, <1>8 DEF IInv

(***************************************************************************)
(* The other steps leave the chunks alone.                                 *)
(***************************************************************************)
LEMMA StartRunIInv ==
  ASSUME IInv, NEW v \in Values, StartRun(v)
  PROVE  IInv'
<1>1. /\ UNCHANGED disk /\ value = None /\ value' = v /\ presence' = Deferred /\ todo' = Tiles
      /\ step' = [w \in Workers |-> "list"] /\ at' = [w \in Workers |-> 1]
      /\ seen' = [w \in Workers |-> Cells] /\ tile' = [w \in Workers |-> <<>>] /\ export' = NotFinal
  BY DEF StartRun
<1>2. TypeOK'
  BY <1>1 DEF IInv, TypeOK
<1>3. Present'
  BY <1>1, ValuesAssumption DEF Present
<1>4. Listing'
  BY <1>1, ArraysAre DEF Listing
<1>5. Writing'
  BY <1>1 DEF Writing
<1>6. Wholes'
  <2>1. \A t \in Tiles : Range(t) \subseteq Cells
    BY TileSeq
  <2> QED
    BY <1>1, <2>1 DEF IInv, Wholes, Ended, Whole
<1>7. FullExport'
  BY <1>1 DEF FullExport, NotFinal
<1> QED
  BY <1>2, <1>3, <1>4, <1>5, <1>6, <1>7 DEF IInv

LEMMA ListIInv ==
  ASSUME IInv, NEW w \in Workers, List(w)
  PROVE  IInv'
<1> DEFINE a == Required[at[w]]
<1>1. /\ step[w] = "list" /\ seen' = [seen EXCEPT ![w] = @ \cap Listed(a)]
      /\ UNCHANGED <<disk, presence, value, todo, tile, export>>
  BY DEF List, store
<1>2. /\ at[w] \in 1 .. 3 /\ a \in Arrays /\ value # None /\ presence = Deferred
      /\ \A i \in 1 .. at[w] - 1 : seen[w] \subseteq OnDisk(Required[i])
  BY <1>1, ArraysAre DEF IInv, Listing, Present
<1>3. seen'[w] = seen[w] \cap OnDisk(a) /\ \A x \in Workers : x # w => seen'[x] = seen[x]
  BY <1>1, <1>2 DEF IInv, TypeOK, Listed
<1>4. \/ at[w] < 3 /\ at' = [at EXCEPT ![w] = @ + 1] /\ step' = step
      \/ at[w] = 3 /\ at' = [at EXCEPT ![w] = 1] /\ step' = [step EXCEPT ![w] = "take"]
  BY <1>2, ArraysAre DEF List
<1>5. TypeOK'
  BY <1>1, <1>2, <1>3, <1>4 DEF IInv, TypeOK
<1>6. Present'
  BY <1>1, <1>2, <1>4 DEF IInv, TypeOK, Present, OnDisk
<1>7. Listing'
  <2> SUFFICES ASSUME NEW x \in Workers
               PROVE  /\ step'[x] = "list" => /\ at'[x] \in DOMAIN Required
                                              /\ \A i \in 1 .. at'[x] - 1 : seen'[x] \subseteq OnDisk(Required[i])
                      /\ step'[x] \in {"take", "write"} => seen'[x] \subseteq Complete
    BY <1>1 DEF Listing, Complete, OnDisk
  <2>1. CASE x # w
    BY <1>3, <1>4, <2>1 DEF IInv, TypeOK, Listing
  <2>2. CASE x = w /\ at[w] < 3
    <3>1. step'[w] = "list" /\ at'[w] = at[w] + 1
      BY <1>1, <1>4, <2>2 DEF IInv, TypeOK
    <3>2. \A i \in 1 .. at[w] : i \in 1 .. at[w] - 1 \/ i = at[w]
      BY <1>2
    <3> QED
      BY <1>2, <1>3, <2>2, <3>1, <3>2, ArraysAre
  <2>3. CASE x = w /\ at[w] = 3
    <3>1. step'[w] = "take"
      BY <1>4, <2>3 DEF IInv, TypeOK
    <3>2. \A i \in 1 .. 3 : seen'[w] \subseteq OnDisk(Required[i])
      <4>1. \A i \in 1 .. 3 : i \in 1 .. at[w] - 1 \/ i = at[w]
        BY <2>3
      <4> QED
        BY <1>2, <1>3, <4>1
    <3>3. seen'[w] \subseteq Cells
      BY <1>3 DEF IInv, TypeOK
    <3>4. \A b \in Range(Required) : \E i \in 1 .. 3 : Required[i] = b
      BY ArraysAre DEF Range
    <3>5. \A b \in Range(Required) : seen'[w] \subseteq OnDisk(b)
      BY <3>2, <3>4
    <3> QED
      BY <2>3, <3>1, <3>3, <3>5 DEF Complete
  <2> QED
    BY <1>2, <2>1, <2>2, <2>3
<1>8. Writing'
  <2> SUFFICES ASSUME NEW x \in Workers, step'[x] = "write"
               PROVE  x # w /\ step[x] = "write" /\ at'[x] = at[x] /\ seen'[x] = seen[x]
    BY <1>1 DEF IInv, Writing
  <2> QED
    BY <1>1, <1>3, <1>4 DEF IInv, TypeOK
<1>9. Wholes'
  <2> SUFFICES ASSUME NEW t \in Tiles, Ended(t), NEW x \in Workers, step'[x] # "off"
               PROVE  Whole(t, value) \/ Range(t) \subseteq seen'[x]
    BY <1>1 DEF IInv, Wholes, Ended, Whole
  <2>1. step[x] # "off"
    BY <1>1, <1>4 DEF IInv, TypeOK
  <2>2. Range(t) \subseteq OnDisk(a)
    <3>1. Range(t) \subseteq Complete /\ a \in Range(Required)
      BY <1>2, EndedWhole, ArraysAre DEF IInv, Range
    <3> QED
      BY <3>1 DEF Complete
  <2> QED
    BY <1>3, <2>1, <2>2 DEF IInv, Wholes
<1>10. FullExport'
  BY <1>1 DEF IInv, FullExport, Uniform
<1> QED
  BY <1>5, <1>6, <1>7, <1>8, <1>9, <1>10 DEF IInv

LEMMA SkipIInv ==
  ASSUME IInv, NEW w \in Workers, Skip(w)
  PROVE  IInv'
<1>1. UNCHANGED <<disk, presence, value, step, at, seen, tile, export>> /\ todo' \in SUBSET Tiles
  BY DEF IInv, TypeOK, Skip, store, worker
<1>2. TypeOK' /\ Present' /\ Listing'
  BY <1>1 DEF IInv, TypeOK, Present, Listing, OnDisk, Complete
<1>3. Writing'
  BY <1>1 DEF IInv, Writing
<1>4. Wholes'
  BY <1>1 DEF IInv, Wholes, Ended, Whole
<1>5. FullExport'
  BY <1>1 DEF IInv, FullExport, Uniform
<1> QED
  BY <1>2, <1>3, <1>4, <1>5 DEF IInv

LEMMA TakeIInv ==
  ASSUME IInv, NEW w \in Workers, Take(w)
  PROVE  IInv'
<1>1. PICK t \in todo : ~(Range(t) \subseteq seen[w]) /\ tile' = [tile EXCEPT ![w] = t] /\ todo' = todo \ {t}
  BY DEF Take, Written, ToWrite
<1>2. /\ step[w] = "take" /\ step' = [step EXCEPT ![w] = "write"] /\ at' = [at EXCEPT ![w] = 0]
      /\ UNCHANGED <<disk, presence, value, seen, export>>
  BY DEF Take, store
<1>3. t \in Tiles /\ Last(t) \in Nat
  BY TileSeq DEF IInv, TypeOK
<1>4. TypeOK'
  BY <1>1, <1>2 DEF IInv, TypeOK
<1>5. Present' /\ Listing' /\ Wholes' /\ FullExport'
  <2>1. \A x \in Workers : /\ step'[x] # "off" => step[x] # "off"
                           /\ step'[x] = "list" => step[x] = "list" /\ at'[x] = at[x]
                           /\ step'[x] \in {"take", "write"} => step[x] \in {"take", "write"}
    BY <1>2 DEF IInv, TypeOK
  <2> QED
    BY <1>2, <2>1 DEF IInv, Present, Listing, Wholes, FullExport, OnDisk, Complete, Ended, Whole, Uniform
<1>6. Writing'
  <2> SUFFICES ASSUME NEW x \in Workers, step'[x] = "write"
               PROVE  /\ tile'[x] \in Tiles /\ ~(Range(tile'[x]) \subseteq seen[x])
                      /\ at'[x] \in 0 .. Last(tile'[x])
                      /\ \A p \in 0 .. at'[x] - 1 : disk[CellAt(tile'[x], p)][ArrayAt(p)] = value
    BY <1>2 DEF Writing
  <2>1. CASE x = w
    <3>1. tile'[w] = t /\ at'[w] = 0
      BY <1>1, <1>2 DEF IInv, TypeOK
    <3> QED
      BY <1>1, <1>3, <2>1, <3>1
  <2>2. CASE x # w
    <3>1. tile'[x] = tile[x] /\ at'[x] = at[x] /\ step[x] = "write"
      BY <1>1, <1>2, <2>2 DEF IInv, TypeOK
    <3> QED
      BY <3>1 DEF IInv, Writing
  <2> QED
    BY <2>1, <2>2
<1> QED
  BY <1>4, <1>5, <1>6 DEF IInv

\* A worker that ends a tile, or ends: what it listed stays true.
LEMMA IdleIInv ==
  ASSUME IInv, NEW w \in Workers, NEW next \in {"take", "off"}, Idle(w, next),
         next = "take" => step[w] \in {"take", "write"},
         UNCHANGED <<disk, presence, value, seen, export>>, todo' \in SUBSET Tiles,
         step[w] # "off"
  PROVE  IInv'
<1>1. \A x \in Workers : x # w => step'[x] = step[x] /\ at'[x] = at[x] /\ tile'[x] = tile[x]
  BY DEF IInv, TypeOK, Idle
<1>2. step'[w] = next /\ at'[w] = 1
  BY DEF IInv, TypeOK, Idle
<1>3. TypeOK'
  BY DEF IInv, TypeOK, Idle
<1>4. Present' /\ Listing' /\ Wholes' /\ FullExport'
  <2>1. \A x \in Workers : /\ step'[x] # "off" => step[x] # "off"
                           /\ step'[x] = "list" => step[x] = "list" /\ at'[x] = at[x]
                           /\ step'[x] \in {"take", "write"} => step[x] \in {"take", "write"}
    BY <1>1, <1>2
  <2> QED
    BY <2>1 DEF IInv, Present, Listing, Wholes, FullExport, OnDisk, Complete, Ended, Whole, Uniform
<1>5. Writing'
  <2> SUFFICES ASSUME NEW x \in Workers, step'[x] = "write"
               PROVE  /\ tile'[x] \in Tiles /\ ~(Range(tile'[x]) \subseteq seen[x])
                      /\ at'[x] \in 0 .. Last(tile'[x])
                      /\ \A p \in 0 .. at'[x] - 1 : disk[CellAt(tile'[x], p)][ArrayAt(p)] = value
    BY DEF Writing
  <2>1. tile'[x] = tile[x] /\ at'[x] = at[x] /\ step[x] = "write"
    BY <1>1, <1>2
  <2> QED
    BY <2>1 DEF IInv, Writing
<1> QED
  BY <1>3, <1>4, <1>5 DEF IInv

LEMMA RunEndsIInv == IInv /\ RunEnds => IInv'
<1> SUFFICES ASSUME IInv, RunEnds
             PROVE  IInv'
  OBVIOUS
<1>1. /\ UNCHANGED <<disk, presence, step, at, seen, tile, export>> /\ value' = None /\ todo' = {}
      /\ \A w \in Workers : step[w] = "off"
  BY DEF RunEnds, store, worker
<1> QED
  BY <1>1 DEF IInv, TypeOK, Present, Listing, Writing, Wholes, FullExport, OnDisk, Complete, Ended, Whole, Uniform

LEMMA FinalizeIInv ==
  ASSUME IInv, NEW partial \in BOOLEAN, Finalize(partial)
  PROVE  IInv'
<1>1. /\ UNCHANGED <<disk, value, todo, step, at, seen, tile>> /\ value = None
      /\ presence' = [a \in Arrays |-> OnDisk(a)]
      /\ Counted = Cells \/ partial
      /\ export' = [full |-> ~partial, rows |-> [c \in Counted |-> disk[c]]]
  BY DEF Finalize, worker
<1>2. TypeOK' /\ Listing' /\ Writing' /\ Wholes'
  <2>1. TypeOK' /\ Listing'
    BY <1>1 DEF IInv, TypeOK, Listing, OnDisk, Complete
  <2>2. Writing'
    BY <1>1 DEF IInv, Writing
  <2>3. Wholes'
    BY <1>1 DEF IInv, Wholes, Ended, Whole
  <2> QED
    BY <2>1, <2>2, <2>3
<1>3. Present'
  BY <1>1 DEF IInv, Present, OnDisk
<1>4. FullExport'
  <2> SUFFICES ASSUME ~partial, NEW t \in Tiles
               PROVE  DOMAIN export'.rows = Cells /\ Uniform(export'.rows, Range(t))
    BY <1>1 DEF FullExport, Uniform
  <2>1. Counted = Cells /\ export'.rows = [c \in Cells |-> disk[c]] /\ Counted = Complete
    BY <1>1, CountedComplete DEF IInv
  <2>2. Range(t) \subseteq Cells
    BY TileSeq
  <2>3. Uniform(disk, Range(t))
    BY <2>1, <2>2, EndedWhole, WholeUniform DEF IInv
  <2> QED
    BY <2>1, <2>2, <2>3 DEF Uniform
<1> QED
  BY <1>2, <1>3, <1>4 DEF IInv

(***************************************************************************)
(* The theorems.                                                           *)
(***************************************************************************)
LEMMA InitIInv == Init => IInv
<1> SUFFICES ASSUME Init
             PROVE  IInv
  OBVIOUS
<1>1. \A c \in Cells, a \in Arrays : disk[c][a] = None
  BY DEF Init, Blank
<1>2. TypeOK
  BY DEF Init, TypeOK, Blank
<1>3. Present /\ Listing /\ Writing /\ FullExport
  BY DEF Init, Present, Listing, Writing, FullExport, NotFinal
<1>4. Wholes
  BY <1>1, TileSeq, ArraysAre DEF Wholes, Ended
<1> QED
  BY <1>2, <1>3, <1>4 DEF IInv

LEMMA NextIInv == IInv /\ [Next]_vars => IInv'
<1> SUFFICES ASSUME IInv, [Next]_vars
             PROVE  IInv'
  OBVIOUS
<1>1. ASSUME NEW v \in Values, StartRun(v)
      PROVE  IInv'
  BY <1>1, StartRunIInv
<1>2. ASSUME NEW w \in Workers, List(w)
      PROVE  IInv'
  BY <1>2, ListIInv
<1>3. ASSUME NEW w \in Workers, Skip(w)
      PROVE  IInv'
  BY <1>3, SkipIInv
<1>4. ASSUME NEW w \in Workers, Take(w)
      PROVE  IInv'
  BY <1>4, TakeIInv
<1>5. ASSUME NEW w \in Workers, WriteChunk(w)
      PROVE  IInv'
  BY <1>5, WriteChunkIInv
<1>6. ASSUME NEW w \in Workers, TileDone(w)
      PROVE  IInv'
  BY <1>6, IdleIInv DEF IInv, TypeOK, TileDone, store
<1>7. ASSUME NEW w \in Workers, WriteFails(w)
      PROVE  IInv'
  <2>1. todo' \in SUBSET Tiles
    BY <1>7 DEF IInv, TypeOK, WriteFails
  <2> QED
    BY <1>7, <2>1, IdleIInv DEF WriteFails, store
<1>8. ASSUME NEW w \in Workers, Exit(w)
      PROVE  IInv'
  BY <1>8, IdleIInv DEF IInv, TypeOK, Exit, store
<1>9. ASSUME NEW w \in Workers, Kill(w)
      PROVE  IInv'
  BY <1>9, IdleIInv DEF IInv, TypeOK, Kill, store
<1>10. ASSUME NEW partial \in BOOLEAN, Finalize(partial)
       PROVE  IInv'
  BY <1>10, FinalizeIInv
<1>11. CASE UNCHANGED vars
  BY <1>11 DEF vars, store, worker, IInv, TypeOK, Present, Listing, Writing, Wholes, FullExport, OnDisk, Complete,
               Ended, Whole, Uniform
<1> QED
  BY <1>1, <1>2, <1>3, <1>4, <1>5, <1>6, <1>7, <1>8, <1>9, <1>10, <1>11, RunEndsIInv DEF Next

\* The invariant above, of every reachable state.
THEOREM Invariance == Spec => []IInv
BY InitIInv, NextIInv, PTL DEF Spec

\* OneRunPerTile: a tile that counts as written is the work of one run, and
\* what a worker lists as written counts, whichever workers were killed.
THEOREM OneRunPerTileCorrect == Spec => []OneRunPerTile
<1>1. IInv => OneRunPerTile
  <2> SUFFICES ASSUME IInv
               PROVE  OneRunPerTile
    OBVIOUS
  <2>1. Counted = Complete
    BY CountedComplete DEF IInv
  <2>2. \A t \in Tiles : Range(t) \subseteq Counted => Uniform(disk, Range(t))
    BY <2>1, EndedWhole, WholeUniform DEF IInv
  <2> QED
    BY <2>1, <2>2 DEF IInv, Listing, OneRunPerTile
<1> QED
  BY <1>1, Invariance, PTL

\* NothingHidden: while a worker writes, every complete cell counts, whatever
\* presence an earlier finalize recorded.
THEOREM NothingHiddenCorrect == Spec => []NothingHidden
<1>1. IInv => NothingHidden
  BY CountedComplete DEF IInv, NothingHidden, Complete
<1> QED
  BY <1>1, Invariance, PTL

\* FullExport: a full finalize exported every cell, each tile as one run
\* solved it.
THEOREM FullExportCorrect == Spec => []FullExport
<1>1. IInv => FullExport
  BY DEF IInv
<1> QED
  BY <1>1, Invariance, PTL

\* DoneTilesKept: no step of a run or of finalize changes a tile that counts.
THEOREM DoneTilesKeptCorrect == Spec => DoneTilesKept
<1> DEFINE Kept == \A t \in Tiles : Range(t) \subseteq Counted => \A c \in Range(t) : c \in Counted' /\ disk'[c] = disk[c]
<1>1. IInv /\ IInv' /\ [Next]_vars => Kept
  <2> SUFFICES ASSUME IInv, IInv', [Next]_vars, NEW t \in Tiles, Range(t) \subseteq Counted, NEW c \in Range(t)
               PROVE  c \in Counted' /\ disk'[c] = disk[c]
    OBVIOUS
  <2>1. Counted = Complete
    BY CountedComplete DEF IInv
  <2>2. Counted' = Complete'
    <3>1. \A a \in Arrays : Listed(a)' = OnDisk(a)'
      BY DEF IInv, Present, Listed
    <3> QED
      BY <3>1, ArraysAre DEF Counted, Complete
  <2>3. disk'[c] = disk[c]
    <3>1. ASSUME NEW w \in Workers, WriteChunk(w)
          PROVE  disk'[c] = disk[c]
      BY <2>1, <3>1, EndedWhole, EndedKept DEF IInv
    <3>2. CASE ~ \E w \in Workers : WriteChunk(w)
      <4>1. UNCHANGED disk
        BY <3>2 DEF Next, vars, store, StartRun, List, Skip, Take, TileDone, WriteFails, Exit, Kill, RunEnds, Finalize
      <4> QED
        BY <4>1
    <3> QED
      BY <3>1, <3>2
  <2>4. c \in Complete'
    BY <2>1, <2>3 DEF Complete, OnDisk
  <2> QED
    BY <2>2, <2>3, <2>4
<1> QED
  BY <1>1, Invariance, PTL DEF Spec, DoneTilesKept

=============================================================================
