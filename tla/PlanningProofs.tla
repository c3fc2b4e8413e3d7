--------------------------- MODULE PlanningProofs ---------------------------
(***************************************************************************)
(* What Planning guarantees, for every file, volume, plan and number of    *)
(* nodes: every point is stored once, bricks hold all that their points    *)
(* read, shares have every tile once, the results of a row are those of    *)
(* its point, and what is not written is listed.                           *)
(***************************************************************************)
EXTENDS Planning, OrdersProofs

(***************************************************************************)
(* The points of a file, and the cells they are imported into.             *)
(***************************************************************************)
LEMMA PointsFacts ==
  ASSUME NEW lines \in Roi
  PROVE  LET P == Points(lines) IN
         Len(P) \in Nat /\ DOMAIN P = 1 .. Len(P) /\ P \in Seq(Range(P)) /\ \A i \in DOMAIN P : P[i].id \in Int
<1> DEFINE I == {i \in DOMAIN lines : lines[i].kind = "point"}
           P == At(lines, I)
<1>1. DOMAIN lines = 1 .. Len(lines) /\ Len(lines) \in Nat
  BY RoiAssumption
<1>2. I \in SUBSET Int /\ IsFiniteSet(I)
  <2>1. IsFiniteSet(DOMAIN lines)
    BY <1>1, FS_Interval
  <2> QED
    BY <1>1, <2>1, FS_Subset
<1>3. /\ Cardinality(I) \in Nat /\ Len(P) = Cardinality(I) /\ DOMAIN P = 1 .. Cardinality(I)
      /\ \A j \in DOMAIN P : P[j] = lines[Ascending(I)[j]] /\ Ascending(I)[j] \in I
      /\ \A S : (\A i \in I : lines[i] \in S) => P \in Seq(S)
  <2> HIDE DEF I
  <2> QED
    BY <1>2, AtFacts
<1>4. ASSUME NEW j \in DOMAIN P
      PROVE  P[j].id \in Int
  <2>1. P[j] = lines[Ascending(I)[j]] /\ Ascending(I)[j] \in I
    BY <1>3
  <2> QED
    BY <2>1, RoiAssumption
<1>5. P = [j \in 1 .. Len(P) |-> P[j]]
  BY <1>3 DEF At
<1>6. P \in Seq(Range(P))
  <2>1. Len(P) \in Nat /\ \A j \in 1 .. Len(P) : P[j] \in Range(P)
    BY <1>3 DEF Range
  <2> HIDE DEF P
  <2> QED
    BY <1>5, <2>1
<1>7. Points(lines) = P
  BY DEF Points
<1> HIDE DEF P
<1> QED
  BY <1>3, <1>4, <1>6, <1>7

BinOrder(P, c) == Sorted(InCell(P, c), [i \in InCell(P, c) |-> BinIndex(P[i].x, c)])

\* Points that can be imported.
Good(P) ==
  /\ Len(P) \in Nat /\ DOMAIN P = 1 .. Len(P) /\ P \in Seq(Range(P))
  /\ P # <<>> /\ UniqueIds(P)
  /\ \A i \in DOMAIN P : P[i].id \in Int /\ P[i].x \in 0 .. Length

LEMMA GoodPoints ==
  ASSUME roi \in Roi, Importable(Points(roi))
  PROVE  Good(Points(roi))
BY PointsFacts DEF Good, Importable

LEMMA IndexFacts ==
  ASSUME NEW x \in Int, NEW c \in Int
  PROVE  BinIndex(x, c) \in Int /\ BinsPerCell \in Nat /\ BinIndex(x, c) <= BinsPerCell - 1
<1>1. CellSize \in Nat \ {0} /\ BinSize \in Nat \ {0}
  BY SizesAssumption
<1> DEFINE a == (x - c * CellSize) \div BinSize
           b == BinsPerCell - 1
<1>2. a \in Int
  <2>1. c * CellSize \in Int
    BY <1>1
  <2> QED
    BY <1>1, <2>1
<1>3. BinsPerCell \in Nat
  BY <1>1 DEF BinsPerCell
<1> HIDE DEF a
<1>4. b \in Int /\ Min({a, b}) = IF a <= b THEN a ELSE b
  BY <1>2, <1>3, MinOfTwo
<1>5. BinIndex(x, c) = Min({a, b})
  BY DEF BinIndex, a
<1> QED
  BY <1>2, <1>3, <1>4, <1>5

LEMMA CellOfFacts ==
  ASSUME NEW P, Good(P)
  PROVE  \A i \in DOMAIN P : CellOf(P[i].x) \in Int /\ P[i].x \in Int
<1> SUFFICES ASSUME NEW i \in DOMAIN P
             PROVE  CellOf(P[i].x) \in Int /\ P[i].x \in Int
  OBVIOUS
<1>1. P[i].x \in Int
  BY ReachAssumption DEF Good
<1> QED
  BY <1>1, SizesAssumption DEF CellOf

LEMMA InCellFacts ==
  ASSUME NEW P, Good(P), NEW c
  PROVE  InCell(P, c) \in SUBSET Int /\ IsFiniteSet(InCell(P, c)) /\ InCell(P, c) \subseteq DOMAIN P
         /\ (c \in Int => Keys(InCell(P, c), [i \in InCell(P, c) |-> BinIndex(P[i].x, c)]))
<1>1. IsFiniteSet(DOMAIN P) /\ DOMAIN P \subseteq Int
  BY FS_Interval DEF Good
<1>2. InCell(P, c) \subseteq DOMAIN P
  BY DEF InCell
<1>3. IsFiniteSet(InCell(P, c)) /\ InCell(P, c) \in SUBSET Int
  BY <1>1, <1>2, FS_Subset
<1>4. ASSUME c \in Int
      PROVE  \A i \in InCell(P, c) : BinIndex(P[i].x, c) \in Int
  BY <1>2, <1>4, CellOfFacts, IndexFacts
<1> QED
  BY <1>2, <1>3, <1>4 DEF Keys

\* The rows of a cell are its points, each once, in the order of their bins.
LEMMA RowsFacts ==
  ASSUME NEW P, Good(P), NEW c \in Int
  PROVE  LET rows == InBinOrder(P, c)
             I == InCell(P, c)
             o == BinOrder(P, c) IN
         /\ Cardinality(I) \in Nat /\ Len(rows) = Cardinality(I) /\ DOMAIN rows = 1 .. Cardinality(I)
         /\ DOMAIN o = DOMAIN rows /\ Range(o) = I
         /\ \A j \in DOMAIN rows : rows[j] = P[o[j]] /\ o[j] \in I
         /\ rows \in Seq(Range(P))
         /\ Range(rows) = {P[i] : i \in I}
         /\ \A i, j \in DOMAIN rows : i < j => BinIndex(rows[i].x, c) <= BinIndex(rows[j].x, c)
<1> DEFINE I == InCell(P, c)
           key == [i \in I |-> BinIndex(P[i].x, c)]
           o == Sorted(I, key)
           rows == [j \in DOMAIN o |-> P[o[j]]]
<1>1. Keys(I, key) /\ I \subseteq DOMAIN P
  BY InCellFacts
<1>2. /\ Cardinality(I) \in Nat /\ Len(o) = Cardinality(I) /\ o \in Seq(I) /\ DOMAIN o = 1 .. Cardinality(I)
      /\ \A i, j \in DOMAIN o : i < j <=> Less(key, o[i], o[j])
      /\ \A p \in I : \E i \in DOMAIN o : o[i] = p
      /\ Range(o) = I
  <2> HIDE DEF I, key
  <2> QED
    BY <1>1, SortedFacts
<1>3. InBinOrder(P, c) = rows /\ BinOrder(P, c) = o
  BY DEF InBinOrder, BinOrder
<1>4. \A j \in DOMAIN o : o[j] \in I
  BY <1>2
<1>5. DOMAIN rows = 1 .. Cardinality(I) /\ Len(rows) = Cardinality(I) /\ \A j \in DOMAIN rows : rows[j] = P[o[j]]
  <2> HIDE DEF o, I
  <2> QED
    BY <1>2
<1>6. rows \in Seq(Range(P))
  <2>1. \A j \in 1 .. Cardinality(I) : rows[j] \in Range(P)
    <3>1. \A i \in I : P[i] \in Range(P)
      BY <1>1 DEF Range
    <3> HIDE DEF o, I, rows
    <3> QED
      BY <1>2, <1>4, <1>5, <3>1
  <2>2. rows = [j \in 1 .. Cardinality(I) |-> rows[j]]
    <3> HIDE DEF o, I
    <3> QED
      BY <1>2
  <2> HIDE DEF rows, I
  <2> QED
    BY <1>2, <2>1, <2>2
<1>7. Range(rows) = {P[i] : i \in I}
  <2>1. \A j \in DOMAIN rows : rows[j] \in {P[i] : i \in I}
    <3> HIDE DEF o, rows, I
    <3> QED
      BY <1>2, <1>4, <1>5
  <2>2. \A i \in I : \E j \in DOMAIN rows : rows[j] = P[i]
    <3> HIDE DEF o, rows, I
    <3> QED
      BY <1>2, <1>5
  <2>3. Range(rows) = {rows[j] : j \in DOMAIN rows}
    BY DEF Range
  <2> HIDE DEF o, rows, I
  <2> QED
    BY <2>1, <2>2, <2>3
<1>8. ASSUME NEW i \in DOMAIN rows, NEW j \in DOMAIN rows, i < j
      PROVE  BinIndex(rows[i].x, c) <= BinIndex(rows[j].x, c)
  <2>1. i \in DOMAIN o /\ j \in DOMAIN o
    BY <1>2, <1>5
  <2>2. Less(key, o[i], o[j]) /\ o[i] \in I /\ o[j] \in I
    BY <1>2, <1>4, <1>8, <2>1
  <2>3. key[o[i]] <= key[o[j]]
    <3>1. key[o[i]] \in Int /\ key[o[j]] \in Int
      <4> HIDE DEF key, I, o
      <4> QED
        BY <1>1, <2>2 DEF Keys
    <3> HIDE DEF key, I, o
    <3> QED
      BY <2>2, <3>1 DEF Less
  <2>4. key[o[i]] = BinIndex(P[o[i]].x, c) /\ key[o[j]] = BinIndex(P[o[j]].x, c)
    <3> HIDE DEF I, o
    <3> QED
      BY <2>2
  <2>5. rows[i] = P[o[i]] /\ rows[j] = P[o[j]]
    BY <1>5
  <2> HIDE DEF rows, key, o
  <2> QED
    BY <2>3, <2>4, <2>5
<1> HIDE DEF rows, o, I
<1> QED
  BY <1>2, <1>3, <1>4, <1>5, <1>6, <1>7, <1>8 DEF I

(***************************************************************************)
(* What is read back.                                                      *)
(***************************************************************************)
Imported == roi \in Roi /\ Importable(Points(roi)) /\ store = Cells(Points(roi))

LEMMA StoreFacts ==
  ASSUME Imported
  PROVE  /\ Good(Points(roi))
         /\ DOMAIN store = {CellOf(Points(roi)[i].x) : i \in DOMAIN Points(roi)}
         /\ DOMAIN store \in SUBSET Int /\ IsFiniteSet(DOMAIN store) /\ DOMAIN store # {}
         /\ \A c \in DOMAIN store :
              /\ store[c].rows = InBinOrder(Points(roi), c)
              /\ store[c].offsets = BinOffsets(InBinOrder(Points(roi), c), c)
              /\ store[c].rows \in Seq(Range(Points(roi))) /\ Len(store[c].rows) \in Nat
<1> DEFINE P == Points(roi)
           f == [i \in DOMAIN P |-> CellOf(P[i].x)]
<1>1. Good(P)
  BY GoodPoints DEF Imported
<1>2. DOMAIN store = {CellOf(P[i].x) : i \in DOMAIN P}
  BY DEF Imported, Cells
<1>3. DOMAIN store \in SUBSET Int
  <2> HIDE DEF P
  <2> QED
    BY <1>1, <1>2, CellOfFacts
<1>4. IsFiniteSet(DOMAIN store)
  <2>1. IsFiniteSet(DOMAIN P)
    <3> HIDE DEF P
    <3> QED
      BY <1>1, FS_Interval DEF Good
  <2>2. DOMAIN store = {f[i] : i \in DOMAIN P}
    BY <1>2
  <2> HIDE DEF P, f
  <2> QED
    BY <2>1, <2>2, ImageFinite
<1>5. DOMAIN store # {}
  <2>1. 1 \in DOMAIN P
    <3> HIDE DEF P
    <3> QED
      BY <1>1 DEF Good
  <2> QED
    BY <1>2, <2>1
<1>6. ASSUME NEW c \in DOMAIN store
      PROVE  /\ store[c].rows = InBinOrder(P, c)
             /\ store[c].offsets = BinOffsets(InBinOrder(P, c), c)
             /\ store[c].rows \in Seq(Range(P)) /\ Len(store[c].rows) \in Nat
  <2>1. store[c].rows = InBinOrder(P, c) /\ store[c].offsets = BinOffsets(InBinOrder(P, c), c)
    BY <1>2 DEF Imported, Cells
  <2>2. InBinOrder(P, c) \in Seq(Range(P))
    <3> HIDE DEF P
    <3> QED
      BY <1>1, <1>3, RowsFacts
  <2> QED
    BY <2>1, <2>2
<1> HIDE DEF P
<1> QED
  BY <1>1, <1>2, <1>3, <1>4, <1>5, <1>6 DEF P

\* The rows of each cell of a sequence of cells.
RowsOf(cells) == [i \in DOMAIN cells |-> store[cells[i]].rows]

\* What is read of the first m cells, for each m.
Reading(cells, f) ==
  /\ f \in [0 .. Len(cells) -> Seq(Range(Points(roi)))]
  /\ Joins(f, RowsOf(cells), Len(cells))
  /\ \A m \in 0 .. Len(cells) : ReadTile(SubSeq(cells, 1, m)) = f[m]
  /\ ReadTile(cells) = f[Len(cells)]

LEMMA ReadFacts ==
  ASSUME Imported, NEW cells \in Seq(DOMAIN store)
  PROVE  \E f : Reading(cells, f)
<1> DEFINE S == Range(Points(roi))
           N == Len(cells)
           seqs == RowsOf(cells)
<1>1. N \in Nat /\ DOMAIN cells = 1 .. N /\ \A i \in 1 .. N : cells[i] \in DOMAIN store
  OBVIOUS
<1>2. Len(seqs) = N /\ DOMAIN seqs = 1 .. N /\ \A i \in 1 .. N : seqs[i] = store[cells[i]].rows
  BY <1>1 DEF RowsOf
<1>3. \A i \in 1 .. N : seqs[i] \in Seq(S)
  <2> SUFFICES ASSUME NEW i \in 1 .. N
               PROVE  seqs[i] \in Seq(S)
    OBVIOUS
  <2> HIDE DEF seqs, S, N
  <2> QED
    BY <1>1, <1>2, StoreFacts DEF S
<1>4. PICK f \in [0 .. N -> Seq(S)] : Joins(f, seqs, N)
  <2> HIDE DEF seqs, S, N
  <2> QED
    BY <1>1, <1>3, JoinsExist
<1>5. ASSUME NEW m \in 0 .. N, NEW part \in Seq(DOMAIN store), Len(part) = m, \A i \in 1 .. m : part[i] = cells[i]
      PROVE  ReadTile(part) = f[m]
  <2> DEFINE g == [i \in 0 .. m |-> f[i]]
             some == RowsOf(part)
  <2>1. DOMAIN part = 1 .. m
    BY <1>5
  <2>2. Len(some) = m /\ DOMAIN some = 1 .. m /\ \A i \in 1 .. m : some[i] = seqs[i]
    <3>1. DOMAIN some = 1 .. m /\ \A i \in 1 .. m : some[i] = store[part[i]].rows
      BY <2>1 DEF RowsOf
    <3>2. \A i \in 1 .. m : i \in 1 .. N
      BY <1>1
    <3>3. Len(some) = m
      BY <2>1, <1>1 DEF RowsOf
    <3> HIDE DEF some, seqs, N
    <3> QED
      BY <1>2, <1>5, <3>1, <3>2, <3>3
  <2>3. g \in [0 .. m -> Seq(S)] /\ m \in Nat
    BY <1>1
  <2>4. Joins(g, some, m)
    <3>1. g[0] = <<>>
      BY <1>4, <2>3 DEF Joins
    <3>2. ASSUME NEW i \in 1 .. m
          PROVE  g[i] = g[i - 1] \o some[i]
      <4>1. g[i] = f[i] /\ g[i - 1] = f[i - 1] /\ some[i] = seqs[i] /\ i \in 1 .. N
        BY <1>1, <2>2, <2>3
      <4> HIDE DEF g, some, seqs
      <4> QED
        BY <1>4, <4>1 DEF Joins
    <3> QED
      BY <3>1, <3>2 DEF Joins
  <2>5. m = 0 => some = <<>>
    BY <2>1 DEF RowsOf
  <2>6. \A i \in 1 .. m : some[i] \in Seq(S)
    <3>1. \A i \in 1 .. m : i \in 1 .. N
      BY <1>1
    <3> HIDE DEF some, seqs, S, N
    <3> QED
      BY <1>3, <2>2, <3>1
  <2>7. FlattenSeq(some) = g[m]
    <3> HIDE DEF some, g, S
    <3> QED
      BY <2>2, <2>3, <2>4, <2>5, <2>6, FlattenJoins
  <2>8. g[m] = f[m]
    BY <2>3
  <2>9. ReadTile(part) = FlattenSeq(some)
    BY DEF ReadTile, RowsOf
  <2> QED
    BY <2>7, <2>8, <2>9
<1>6. ASSUME NEW m \in 0 .. N
      PROVE  ReadTile(SubSeq(cells, 1, m)) = f[m]
  <2>1. SubSeq(cells, 1, m) \in Seq(DOMAIN store) /\ Len(SubSeq(cells, 1, m)) = m
        /\ \A i \in 1 .. m : SubSeq(cells, 1, m)[i] = cells[i]
    BY <1>1
  <2> QED
    BY <1>5, <2>1
<1>7. ReadTile(cells) = f[N]
  <2>1. N \in 0 .. N
    BY <1>1
  <2> QED
    BY <1>5, <2>1
<1> QED
  BY <1>4, <1>6, <1>7 DEF Reading

\* Row y of what is read is row x of the cell it comes from.
RowsAt(cells, f, j) ==
  /\ Len(store[cells[j]].rows) \in Nat
  /\ Len(f[j]) = Len(f[j - 1]) + Len(store[cells[j]].rows)
  /\ Len(f[j]) <= Len(f[Len(cells)])
  /\ \A x \in 1 .. Len(store[cells[j]].rows) : f[Len(cells)][Len(f[j - 1]) + x] = store[cells[j]].rows[x]

RowFrom(cells, f, y) ==
  \E j \in 1 .. Len(cells) : \E x \in 1 .. Len(store[cells[j]].rows) : y = Len(f[j - 1]) + x

LEMMA ReadRows ==
  ASSUME Imported, NEW cells \in Seq(DOMAIN store), NEW f, Reading(cells, f)
  PROVE  /\ Len(cells) \in Nat /\ Len(f[0]) = 0
         /\ ReadTile(cells) = f[Len(cells)] /\ f[Len(cells)] \in Seq(Range(Points(roi)))
         /\ \A j \in 0 .. Len(cells) : Len(f[j]) \in Nat
         /\ \A j \in 1 .. Len(cells) : RowsAt(cells, f, j)
         /\ \A y \in 1 .. Len(f[Len(cells)]) : RowFrom(cells, f, y)
<1> DEFINE S == Range(Points(roi))
           N == Len(cells)
           seqs == RowsOf(cells)
<1>1. N \in Nat /\ DOMAIN cells = 1 .. N /\ \A i \in 1 .. N : cells[i] \in DOMAIN store
  OBVIOUS
<1>2. f \in [0 .. N -> Seq(S)] /\ Joins(f, seqs, N) /\ ReadTile(cells) = f[N]
  BY DEF Reading
<1>3. \A i \in 1 .. N : seqs[i] = store[cells[i]].rows
  BY <1>1 DEF RowsOf
<1>4. \A i \in 1 .. N : store[cells[i]].rows \in Seq(S) /\ Len(store[cells[i]].rows) \in Nat
  <2> HIDE DEF N, S
  <2> QED
    BY <1>1, StoreFacts DEF S
<1>5. \A i \in 1 .. N : seqs[i] \in Seq(S)
  <2> HIDE DEF seqs, S, N
  <2> QED
    BY <1>3, <1>4
<1> HIDE DEF seqs, S, N
<1>6. Places(f, seqs, N)
  BY <1>1, <1>2, <1>5, JoinPlaces
<1>7. f[N] \in Seq(S) /\ \A j \in 0 .. N : f[j] \in Seq(S) /\ Len(f[j]) \in Nat
  BY <1>1, <1>2
<1>8. Len(f[0]) = 0
  BY <1>2 DEF Joins
<1>9. ASSUME NEW j \in 1 .. N
      PROVE  RowsAt(cells, f, j)
  <2>1. /\ Len(f[j]) = Len(f[j - 1]) + Len(seqs[j]) /\ Len(f[j]) <= Len(f[N])
        /\ \A x \in 1 .. Len(seqs[j]) : f[N][Len(f[j - 1]) + x] = seqs[j][x]
    BY <1>6 DEF Places
  <2>2. seqs[j] = store[cells[j]].rows
    BY <1>3
  <2> DEFINE r == store[cells[j]].rows
  <2>3. seqs[j] = r /\ Len(r) \in Nat
    BY <1>4, <2>2
  <2> HIDE DEF r
  <2>4. /\ Len(f[j]) = Len(f[j - 1]) + Len(r)
        /\ \A x \in 1 .. Len(r) : f[N][Len(f[j - 1]) + x] = r[x]
    BY <2>1, <2>3
  <2> QED
    BY <2>1, <2>3, <2>4 DEF RowsAt, r, N
<1>10. ASSUME NEW y \in 1 .. Len(f[N])
       PROVE  RowFrom(cells, f, y)
  <2>1. PICK j \in 1 .. N : \E x \in 1 .. Len(seqs[j]) : y = Len(f[j - 1]) + x
    BY <1>6 DEF Places
  <2>2. PICK x \in 1 .. Len(seqs[j]) : y = Len(f[j - 1]) + x
    BY <2>1
  <2>3. seqs[j] = store[cells[j]].rows
    BY <1>3
  <2>4. j \in 1 .. Len(cells) /\ x \in 1 .. Len(store[cells[j]].rows)
    BY <2>3 DEF N
  <2> QED
    BY <2>2, <2>4 DEF RowFrom
<1> QED
  BY <1>1, <1>2, <1>7, <1>8, <1>9, <1>10 DEF N, S

\* A row of a cell is a row of what is read.
LEMMA RowPlace ==
  ASSUME Imported, NEW cells \in Seq(DOMAIN store), NEW f, Reading(cells, f),
         NEW j \in 1 .. Len(cells), NEW x \in 1 .. Len(store[cells[j]].rows)
  PROVE  Len(f[j - 1]) + x \in 1 .. Len(f[Len(cells)]) /\ Len(f[j - 1]) + x \in Len(f[j - 1]) + 1 .. Len(f[j])
         /\ Len(f[j - 1]) \in Nat
<1> DEFINE a == Len(f[j - 1])  b == Len(store[cells[j]].rows)  c == Len(f[j])  d == Len(f[Len(cells)])
<1>1. a \in Nat /\ c \in Nat /\ d \in Nat
  <2>1. j - 1 \in 0 .. Len(cells) /\ j \in 0 .. Len(cells) /\ Len(cells) \in 0 .. Len(cells)
    BY ReadRows
  <2> QED
    BY <2>1, ReadRows
<1>2. b \in Nat /\ c = a + b /\ c <= d
  <2>1. RowsAt(cells, f, j)
    BY ReadRows
  <2> QED
    BY <2>1 DEF RowsAt
<1>3. x \in 1 .. b
  OBVIOUS
<1> HIDE DEF a, b, c, d
<1>4. a + x \in 1 .. d /\ a + x \in a + 1 .. c
  BY <1>1, <1>2, <1>3
<1> QED
  BY <1>1, <1>4 DEF a, c, d

\* The rows read are the points in the cells.
LEMMA ReadRange ==
  ASSUME Imported, NEW cells \in Seq(DOMAIN store)
  PROVE  LET P == Points(roi) IN
         /\ ReadTile(cells) \in Seq(Range(P)) /\ Len(ReadTile(cells)) \in Nat
         /\ DOMAIN ReadTile(cells) = 1 .. Len(ReadTile(cells))
         /\ Range(ReadTile(cells)) = {P[i] : i \in {k \in DOMAIN P : CellOf(P[k].x) \in Range(cells)}}
<1> DEFINE P == Points(roi)
           N == Len(cells)
           I == {k \in DOMAIN P : CellOf(P[k].x) \in Range(cells)}
<1>1. PICK f : Reading(cells, f)
  BY ReadFacts
<1> DEFINE rows == f[N]
<1>2. ReadTile(cells) = rows /\ rows \in Seq(Range(P)) /\ N \in Nat
  BY <1>1, ReadRows
<1>3. Len(rows) \in Nat /\ DOMAIN rows = 1 .. Len(rows)
  <2> HIDE DEF rows
  <2> QED
    BY <1>2
<1>4. DOMAIN cells = 1 .. N /\ Range(cells) = {cells[j] : j \in 1 .. N} /\ \A j \in 1 .. N : cells[j] \in DOMAIN store
  BY DEF Range
<1>5. ASSUME NEW c \in DOMAIN store
      PROVE  /\ DOMAIN store[c].rows = 1 .. Len(store[c].rows)
             /\ {store[c].rows[x] : x \in 1 .. Len(store[c].rows)} = {P[i] : i \in InCell(P, c)}
  <2>1. Good(P) /\ store[c].rows = InBinOrder(P, c) /\ c \in Int
    BY StoreFacts
  <2> HIDE DEF P
  <2>2. Range(InBinOrder(P, c)) = {P[i] : i \in InCell(P, c)}
        /\ DOMAIN InBinOrder(P, c) = 1 .. Len(InBinOrder(P, c))
    BY <2>1, RowsFacts
  <2> QED
    BY <2>1, <2>2 DEF Range
<1>6. ASSUME NEW y \in 1 .. Len(rows)
      PROVE  \E i \in I : rows[y] = P[i]
  <2>1. PICK j \in 1 .. N : \E x \in 1 .. Len(store[cells[j]].rows) : y = Len(f[j - 1]) + x
    <3>1. RowFrom(cells, f, y)
      BY <1>1, ReadRows
    <3> QED
      BY <3>1 DEF RowFrom
  <2>2. PICK x \in 1 .. Len(store[cells[j]].rows) : y = Len(f[j - 1]) + x
    BY <2>1
  <2>3. rows[y] = store[cells[j]].rows[x]
    <3>1. RowsAt(cells, f, j)
      BY <1>1, ReadRows
    <3> QED
      BY <2>2, <3>1 DEF RowsAt
  <2>4. cells[j] \in DOMAIN store
    BY <1>4
  <2>5. PICK i \in InCell(P, cells[j]) : store[cells[j]].rows[x] = P[i]
    <3> HIDE DEF P, rows, I, N
    <3> QED
      BY <1>5, <2>4, <2>2
  <2>6. i \in I
    <3>1. i \in DOMAIN P /\ CellOf(P[i].x) = cells[j]
      BY DEF InCell
    <3>2. cells[j] \in Range(cells)
      BY <1>4
    <3> QED
      BY <3>1, <3>2
  <2> HIDE DEF P, rows, I
  <2> QED
    BY <2>3, <2>5, <2>6
<1>7. ASSUME NEW i \in I
      PROVE  \E y \in 1 .. Len(rows) : rows[y] = P[i]
  <2>1. i \in DOMAIN P /\ CellOf(P[i].x) \in Range(cells)
    OBVIOUS
  <2>2. PICK j \in 1 .. N : cells[j] = CellOf(P[i].x)
    BY <1>4, <2>1
  <2>3. i \in InCell(P, cells[j]) /\ cells[j] \in DOMAIN store
    BY <1>4, <2>1, <2>2 DEF InCell
  <2>4. PICK x \in 1 .. Len(store[cells[j]].rows) : store[cells[j]].rows[x] = P[i]
    <3> HIDE DEF P, rows, I, N
    <3> QED
      BY <1>5, <2>3
  <2>5. Len(f[j - 1]) + x \in 1 .. Len(rows) /\ rows[Len(f[j - 1]) + x] = store[cells[j]].rows[x]
    <3>1. RowsAt(cells, f, j)
      BY <1>1, ReadRows
    <3>2. Len(f[j - 1]) + x \in 1 .. Len(f[Len(cells)])
      BY <1>1, RowPlace
    <3> QED
      BY <3>1, <3>2 DEF RowsAt
  <2> HIDE DEF P, rows, I
  <2> QED
    BY <2>4, <2>5
<1>8. Range(rows) = {P[i] : i \in I}
  <2>1. Range(rows) = {rows[y] : y \in 1 .. Len(rows)}
    <3> HIDE DEF rows
    <3> QED
      BY <1>3 DEF Range
  <2> HIDE DEF P, rows, I
  <2> QED
    BY <1>6, <1>7, <2>1
<1> HIDE DEF P, rows, I
<1>9. Range(ReadTile(cells)) = {P[i] : i \in I}
  BY <1>2, <1>8
<1> QED
  BY <1>2, <1>3, <1>9 DEF P, I

\* They are as many as those points, no cell being read twice.
LEMMA ReadCount ==
  ASSUME Imported, NEW cells \in Seq(DOMAIN store),
         \A i, j \in DOMAIN cells : cells[i] = cells[j] => i = j
  PROVE  Len(ReadTile(cells)) =
           Cardinality({k \in DOMAIN Points(roi) : CellOf(Points(roi)[k].x) \in Range(cells)})
<1> DEFINE P == Points(roi)
           N == Len(cells)
           U(m) == {k \in DOMAIN P : \E j \in 1 .. m : CellOf(P[k].x) = cells[j]}
<1>1. PICK f : Reading(cells, f)
  BY ReadFacts
<1>2. Good(P) /\ IsFiniteSet(DOMAIN P)
  <2>1. Good(P)
    BY StoreFacts
  <2> HIDE DEF P
  <2> QED
    BY <2>1, FS_Interval DEF Good
<1>3. N \in Nat /\ DOMAIN cells = 1 .. N /\ \A j \in 1 .. N : cells[j] \in DOMAIN store
  OBVIOUS
<1>4. \A m \in Nat : IsFiniteSet(U(m)) /\ Cardinality(U(m)) \in Nat
  <2> SUFFICES ASSUME NEW m \in Nat
               PROVE  IsFiniteSet(U(m)) /\ Cardinality(U(m)) \in Nat
    OBVIOUS
  <2>1. U(m) \subseteq DOMAIN P
    OBVIOUS
  <2> HIDE DEF U, P
  <2> QED
    BY <1>2, <2>1, FS_Subset, FS_CardinalityType
<1> DEFINE Counted == {m \in Nat : m <= N => Len(f[m]) = Cardinality(U(m))}
<1>5. 0 \in Counted
  <2>1. U(0) = {}
    OBVIOUS
  <2>2. Len(f[0]) = 0
    BY <1>1, ReadRows
  <2> QED
    BY <2>1, <2>2, FS_EmptySet
<1>6. ASSUME NEW m \in Counted, m + 1 <= N
      PROVE  Len(f[m + 1]) = Cardinality(U(m + 1))
  <2> DEFINE c == cells[m + 1]
             J == InCell(P, c)
  <2>1. m \in Nat /\ m <= N /\ m + 1 \in 1 .. N /\ (m + 1) - 1 = m /\ m \in 0 .. N
    BY <1>3, <1>6
  <2>2. Len(f[m]) = Cardinality(U(m))
    BY <2>1
  <2>3. Len(f[m + 1]) = Len(f[m]) + Len(store[c].rows)
    <3>1. RowsAt(cells, f, m + 1)
      <4> HIDE DEF Counted
      <4> QED
        BY <1>1, <2>1, ReadRows
    <3>2. Len(f[m + 1]) = Len(f[(m + 1) - 1]) + Len(store[cells[m + 1]].rows)
      BY <3>1 DEF RowsAt
    <3> QED
      BY <2>1, <3>2
  <2>4. c \in DOMAIN store /\ c \in Int /\ store[c].rows = InBinOrder(P, c)
    <3>1. c \in DOMAIN store
      BY <1>3, <2>1
    <3> HIDE DEF c
    <3> QED
      BY <3>1, StoreFacts
  <2>5. Len(store[c].rows) = Cardinality(J) /\ Cardinality(J) \in Nat /\ IsFiniteSet(J)
    <3> HIDE DEF c, P
    <3>1. Cardinality(J) \in Nat /\ Len(InBinOrder(P, c)) = Cardinality(J)
      BY <1>2, <2>4, RowsFacts
    <3>2. IsFiniteSet(J)
      BY <1>2, InCellFacts
    <3> HIDE DEF J
    <3> QED
      BY <2>4, <3>1, <3>2
  <2>6. U(m + 1) = U(m) \union J /\ U(m) \cap J = {}
    <3>1. \A k \in DOMAIN P : k \in U(m + 1) <=> k \in U(m) \/ k \in J
      <4> SUFFICES ASSUME NEW k \in DOMAIN P
                   PROVE  (\E j \in 1 .. m + 1 : CellOf(P[k].x) = cells[j])
                          <=> (\E j \in 1 .. m : CellOf(P[k].x) = cells[j]) \/ CellOf(P[k].x) = cells[m + 1]
        BY DEF InCell
      <4>1. \A j : j \in 1 .. m + 1 <=> j \in 1 .. m \/ j = m + 1
        BY <2>1
      <4> HIDE DEF P
      <4> QED
        BY <4>1
    <3>2. ASSUME NEW k \in U(m) \cap J
          PROVE  FALSE
      <4>1. PICK j \in 1 .. m : CellOf(P[k].x) = cells[j]
        OBVIOUS
      <4>2. CellOf(P[k].x) = cells[m + 1]
        BY DEF InCell
      <4>3. j \in DOMAIN cells /\ m + 1 \in DOMAIN cells /\ j # m + 1
        BY <1>3, <2>1
      <4> HIDE DEF P, U, J
      <4> QED
        BY <4>1, <4>2, <4>3
    <3>3. U(m + 1) \subseteq DOMAIN P /\ U(m) \subseteq DOMAIN P /\ J \subseteq DOMAIN P
      BY DEF InCell
    <3> HIDE DEF U, J, P
    <3> QED
      BY <3>1, <3>2, <3>3
  <2>7. Cardinality(U(m) \union J) = Cardinality(U(m)) + Cardinality(J) - Cardinality(U(m) \cap J)
    <3>1. IsFiniteSet(U(m)) /\ IsFiniteSet(J)
      BY <1>4, <2>1, <2>5
    <3> HIDE DEF U, J
    <3> QED
      BY <3>1, FS_Union
  <2>8. Cardinality(U(m) \cap J) = 0 /\ Cardinality(U(m)) \in Nat
    <3>1. Cardinality(U(m)) \in Nat
      BY <1>4, <2>1
    <3> HIDE DEF U, J
    <3> QED
      BY <2>6, <3>1, FS_EmptySet
  <2> HIDE DEF Counted
  <2>9. Cardinality(U(m + 1)) = Cardinality(U(m)) + Cardinality(J)
    <3>1. Cardinality(U(m + 1)) = Cardinality(U(m) \union J)
      <4> HIDE DEF U, J
      <4> QED
        BY <2>6
    <3> DEFINE a == Cardinality(U(m))  b == Cardinality(J)  d == Cardinality(U(m) \cap J)
               e == Cardinality(U(m) \union J)
    <3>2. a \in Nat /\ b \in Nat /\ d = 0 /\ e = a + b - d
      BY <2>5, <2>7, <2>8
    <3> HIDE DEF a, b, d, e
    <3>3. e = a + b
      BY <3>2
    <3> QED
      BY <3>1, <3>3 DEF a, b, e
  <2> HIDE DEF U, J, c
  <2> QED
    BY <2>2, <2>3, <2>5, <2>9
<1>7. N \in Counted
  <2>1. ASSUME NEW m \in Counted
        PROVE  m + 1 \in Counted
    <3>1. m + 1 \in Nat
      OBVIOUS
    <3>2. m + 1 <= N => Len(f[m + 1]) = Cardinality(U(m + 1))
      <4> HIDE DEF Counted, U
      <4> QED
        BY <1>6
    <3> HIDE DEF U, N
    <3> QED
      BY <3>1, <3>2
  <2>2. Counted \in SUBSET Nat
    OBVIOUS
  <2> HIDE DEF Counted
  <2> QED
    BY <1>3, <1>5, <2>1, <2>2, Ind
<1>8. U(N) = {k \in DOMAIN P : CellOf(P[k].x) \in Range(cells)}
  <2>1. Range(cells) = {cells[j] : j \in 1 .. N}
    BY <1>3 DEF Range
  <2> HIDE DEF P, N
  <2> QED
    BY <2>1
<1>9. Len(f[N]) = Cardinality(U(N))
  <2>1. N <= N
    BY <1>3
  <2> QED
    BY <1>7, <2>1
<1>10. ReadTile(cells) = f[N]
  BY <1>1, ReadRows
<1> HIDE DEF U
<1> QED
  BY <1>8, <1>9, <1>10

\* The offsets stored with a cell are those of its bins.
LEMMA OffsetsFacts ==
  ASSUME NEW P, Good(P), NEW c \in Int
  PROVE  LET rows == InBinOrder(P, c)
             offsets == BinOffsets(rows, c) IN
         /\ offsets[BinsPerCell + 1] = Len(rows)
         /\ \A b \in 1 .. BinsPerCell : \A i \in offsets[b] + 1 .. offsets[b + 1] : BinIndex(rows[i].x, c) = b - 1
<1> DEFINE rows == InBinOrder(P, c)
           offsets == BinOffsets(rows, c)
           L == Len(rows)
           bin == [i \in 1 .. L |-> BinIndex(rows[i].x, c)]
           low(k) == {i \in DOMAIN rows : BinIndex(rows[i].x, c) < k - 1}
           B == BinsPerCell
<1>1. /\ L \in Nat /\ DOMAIN rows = 1 .. L
      /\ \A i, j \in DOMAIN rows : i < j => BinIndex(rows[i].x, c) <= BinIndex(rows[j].x, c)
      /\ \A j \in DOMAIN rows : rows[j] = P[BinOrder(P, c)[j]] /\ BinOrder(P, c)[j] \in InCell(P, c)
  BY RowsFacts
<1>2. \A i \in 1 .. L : BinIndex(rows[i].x, c) \in Int /\ BinIndex(rows[i].x, c) <= B - 1
  <2> SUFFICES ASSUME NEW i \in 1 .. L
               PROVE  BinIndex(rows[i].x, c) \in Int /\ BinIndex(rows[i].x, c) <= B - 1
    OBVIOUS
  <2>1. rows[i] = P[BinOrder(P, c)[i]] /\ BinOrder(P, c)[i] \in DOMAIN P
    BY <1>1 DEF InCell
  <2>2. rows[i].x \in Int
    <3> HIDE DEF rows
    <3> QED
      BY <2>1, CellOfFacts
  <2> HIDE DEF rows
  <2> QED
    BY <2>2, IndexFacts
<1>3. B \in Nat
  BY IndexFacts
<1>4. ASSUME NEW k \in 1 .. B + 1
      PROVE  /\ offsets[k] = Cardinality(low(k)) /\ offsets[k] \in Nat
             /\ low(k) = 1 .. offsets[k] /\ \A i \in 1 .. L : i \in low(k) <=> bin[i] < k - 1
  <2>1. offsets[k] = Cardinality(low(k))
    BY <1>3 DEF BinOffsets
  <2>2. low(k) \subseteq 1 .. L
    BY <1>1
  <2>3. low(k) \in SUBSET Int /\ IsFiniteSet(low(k))
    <3>1. IsFiniteSet(1 .. L) /\ 1 .. L \subseteq Int
      BY <1>1, FS_Interval
    <3> HIDE DEF low, L
    <3> QED
      BY <2>2, <3>1, FS_Subset
  <2>4. \A i \in low(k) : i > 0
    <3> HIDE DEF low, L
    <3> QED
      BY <2>2, <1>1
  <2>5. \A i \in low(k) : \A l \in 0 + 1 .. i : l \in low(k)
    <3> SUFFICES ASSUME NEW i \in low(k), NEW l \in 1 .. i
                 PROVE  l \in low(k)
      OBVIOUS
    <3>1. i \in 1 .. L /\ BinIndex(rows[i].x, c) < k - 1
      BY <1>1
    <3>2. l \in 1 .. L
      <4> HIDE DEF L, low
      <4> QED
        BY <3>1, <1>1
    <3>3. BinIndex(rows[l].x, c) <= BinIndex(rows[i].x, c)
      <4>1. CASE l = i
        <5>1. BinIndex(rows[i].x, c) \in Int
          BY <1>2, <3>1
        <5> HIDE DEF rows, L, low
        <5> QED
          BY <4>1, <5>1
      <4>2. CASE l # i
        <5>1. l < i
          BY <3>1, <4>2
        <5> HIDE DEF rows, L, low
        <5> QED
          BY <1>1, <3>1, <3>2, <5>1
      <4> QED
        BY <4>1, <4>2
    <3>4. BinIndex(rows[l].x, c) < k - 1
      <4>1. BinIndex(rows[l].x, c) \in Int /\ BinIndex(rows[i].x, c) \in Int /\ k \in Int
        BY <1>2, <3>1, <3>2
      <4> HIDE DEF rows, L, low
      <4> QED
        BY <3>1, <3>3, <4>1
    <3> HIDE DEF rows, L
    <3> QED
      BY <1>1, <3>2, <3>4
  <2>6. Cardinality(low(k)) \in Nat /\ low(k) = 0 + 1 .. 0 + Cardinality(low(k))
    <3> HIDE DEF low
    <3> QED
      BY <2>3, <2>4, <2>5, IntervalSet
  <2>7. low(k) = 1 .. offsets[k] /\ offsets[k] \in Nat
    <3> HIDE DEF low, offsets
    <3> QED
      BY <2>1, <2>6
  <2>8. \A i \in 1 .. L : i \in low(k) <=> bin[i] < k - 1
    <3> HIDE DEF rows, L
    <3> QED
      BY <1>1
  <2> QED
    BY <2>1, <2>7, <2>8
<1>5. \A i \in 1 .. L : bin[i] = BinIndex(rows[i].x, c) /\ bin[i] \in Int /\ bin[i] <= B - 1
  <2> HIDE DEF rows, L
  <2> QED
    BY <1>2
<1> HIDE DEF low, offsets, L, bin, B
<1>6. offsets[B + 1] = L
  <2>1. B + 1 \in 1 .. B + 1
    BY <1>3
  <2>2. \A i \in 1 .. L : i \in 1 .. offsets[B + 1]
    <3> SUFFICES ASSUME NEW i \in 1 .. L
                 PROVE  i \in 1 .. offsets[B + 1]
      OBVIOUS
    <3>1. bin[i] < (B + 1) - 1
      BY <1>3, <1>5
    <3>2. i \in low(B + 1)
      BY <1>4, <2>1, <3>1
    <3> QED
      BY <1>4, <2>1, <3>2
  <2>3. low(B + 1) \subseteq 1 .. L
    BY <1>1 DEF low, L
  <2>4. 1 .. offsets[B + 1] = 1 .. L
    BY <1>4, <2>1, <2>2, <2>3
  <2>5. offsets[B + 1] \in Nat /\ L \in Nat
    BY <1>1, <1>4, <2>1
  <2> DEFINE q == offsets[B + 1]
  <2>6. q \in Nat /\ L \in Nat /\ 1 .. q = 1 .. L
    BY <2>4, <2>5
  <2> HIDE DEF q
  <2>7. (q > 0 => q \in 1 .. L) /\ (L > 0 => L \in 1 .. q)
    <3>1. q > 0 => q \in 1 .. q
      BY <2>6
    <3>2. L > 0 => L \in 1 .. L
      BY <2>6
    <3> QED
      BY <2>6, <3>1, <3>2
  <2>8. q = L
    BY <2>6, <2>7
  <2> QED
    BY <2>8 DEF q
<1>7. ASSUME NEW b \in 1 .. B, NEW i \in offsets[b] + 1 .. offsets[b + 1]
      PROVE  BinIndex(rows[i].x, c) = b - 1
  <2>1. b \in 1 .. B + 1 /\ b + 1 \in 1 .. B + 1 /\ b \in Int
    BY <1>3
  <2>2. offsets[b] \in Nat /\ offsets[b + 1] \in Nat /\ low(b) = 1 .. offsets[b] /\ low(b + 1) = 1 .. offsets[b + 1]
    BY <1>4, <2>1
  <2>3. i \in 1 .. offsets[b + 1] /\ i \notin 1 .. offsets[b]
    BY <2>2
  <2>4. i \in 1 .. L
    <3>1. low(b + 1) \subseteq 1 .. L
      BY <1>1 DEF low, L
    <3> QED
      BY <2>2, <2>3, <3>1
  <2>5. bin[i] < (b + 1) - 1 /\ ~(bin[i] < b - 1) /\ bin[i] \in Int
    BY <1>4, <1>5, <2>1, <2>2, <2>3, <2>4
  <2>6. bin[i] = b - 1
    BY <2>1, <2>5
  <2> QED
    BY <1>5, <2>4, <2>6
<1> QED
  BY <1>6, <1>7 DEF offsets, L, B

LEMMA ImportedStored ==
  ASSUME Imported
  PROVE  StoredOnce
<1> DEFINE P == Points(roi)
           cells == Ascending(DOMAIN store)
           all == {k \in DOMAIN P : CellOf(P[k].x) \in Range(cells)}
<1>1. cells \in Seq(DOMAIN store) /\ Range(cells) = DOMAIN store
      /\ \A i, j \in DOMAIN cells : cells[i] = cells[j] => i = j
  <2>1. DOMAIN store \in SUBSET Int /\ IsFiniteSet(DOMAIN store)
    BY StoreFacts
  <2>2. /\ cells \in Seq(DOMAIN store) /\ Range(cells) = DOMAIN store /\ DOMAIN cells = 1 .. Cardinality(DOMAIN store)
        /\ \A i, j \in DOMAIN cells : i < j <=> cells[i] < cells[j]
    BY <2>1, AscendingFacts
  <2>3. DOMAIN cells \subseteq Int /\ \A i \in DOMAIN cells : cells[i] \in Int
    <3>1. Cardinality(DOMAIN store) \in Nat
      BY <2>1, FS_CardinalityType
    <3>2. \A i \in DOMAIN cells : cells[i] \in DOMAIN store
      <4> HIDE DEF cells
      <4> QED
        BY <2>2 DEF Range
    <3> HIDE DEF cells
    <3> QED
      BY <2>1, <2>2, <3>1, <3>2
  <2> HIDE DEF cells
  <2> QED
    BY <2>2, <2>3
<1>2. all = DOMAIN P
  <2>1. \A k \in DOMAIN P : CellOf(P[k].x) \in DOMAIN store
    BY StoreFacts
  <2> HIDE DEF P, cells
  <2> QED
    BY <1>1, <2>1
<1> HIDE DEF cells
<1>3. Good(P)
  BY StoreFacts
<1>4. Len(ReadTile(cells)) = Cardinality(all) /\ Range(ReadTile(cells)) = {P[i] : i \in all}
  BY <1>1, ReadCount, ReadRange
<1>5. Cardinality(DOMAIN P) = Len(P)
  <2> HIDE DEF P
  <2>1. Len(P) \in Nat /\ DOMAIN P = 1 .. Len(P)
    BY <1>3 DEF Good
  <2>2. Cardinality(1 .. Len(P)) = IF 1 > Len(P) THEN 0 ELSE Len(P) - 1 + 1
    BY <2>1, FS_Interval
  <2> QED
    BY <2>1, <2>2
<1>6. Len(ReadTile(cells)) = Len(P) /\ Range(ReadTile(cells)) = Range(P)
  <2> HIDE DEF P, all
  <2> QED
    BY <1>2, <1>4, <1>5 DEF Range
<1>7. ASSUME NEW c \in DOMAIN store
      PROVE  LET s == store[c] IN
             /\ s.offsets[BinsPerCell + 1] = Len(s.rows)
             /\ BinOffsets(s.rows, c) = s.offsets
             /\ \A b \in 1 .. BinsPerCell : \A i \in s.offsets[b] + 1 .. s.offsets[b + 1] :
                  BinIndex(s.rows[i].x, c) = b - 1
  <2>1. c \in Int /\ store[c].rows = InBinOrder(P, c) /\ store[c].offsets = BinOffsets(InBinOrder(P, c), c)
    BY StoreFacts
  <2> HIDE DEF P
  <2> QED
    BY <1>3, <2>1, OffsetsFacts
<1> QED
  BY <1>6, <1>7 DEF StoredOnce, cells

(***************************************************************************)
(* The tiles.                                                              *)
(***************************************************************************)
Tiled == Imported /\ tileSize \in TileSizes /\ TileFits

TileCells(t) == Ascending({c \in DOMAIN store : c \div CellsPerTile = Groups[t]})

LEMMA CellsPerTileFacts ==
  ASSUME Tiled
  PROVE  CellsPerTile \in Nat /\ CellsPerTile > 0
<1>1. tileSize \in Nat \ {0} /\ CellSize \in Nat \ {0}
  BY SizesAssumption DEF Tiled
<1>2. 2 * tileSize + CellSize \in Int /\ 2 * CellSize \in Nat \ {0}
  BY <1>1
<1>3. CellsPerTile \in Int
  BY <1>2 DEF CellsPerTile
<1>4. CellsPerTile >= 1
  BY DEF Tiled, TileFits
<1> QED
  BY <1>3, <1>4

LEMMA GroupFacts ==
  ASSUME Tiled
  PROVE  LET G == {c \div CellsPerTile : c \in DOMAIN store} IN
         /\ Len(Groups) \in Nat /\ DOMAIN Groups = 1 .. Len(Groups)
         /\ Range(Groups) = G /\ \A i \in DOMAIN Groups : Groups[i] \in G
         /\ \A i, j \in DOMAIN Groups : Groups[i] = Groups[j] => i = j
<1> DEFINE f == [c \in DOMAIN store |-> c \div CellsPerTile]
           G == {c \div CellsPerTile : c \in DOMAIN store}
           g == Ascending(G)
<1>1. DOMAIN store \in SUBSET Int /\ IsFiniteSet(DOMAIN store)
  BY StoreFacts DEF Tiled
<1>2. G \in SUBSET Int
  <2> SUFFICES ASSUME NEW c \in DOMAIN store
               PROVE  c \div CellsPerTile \in Int
    OBVIOUS
  <2>1. c \in Int
    BY <1>1
  <2> QED
    BY <2>1, CellsPerTileFacts
<1>3. IsFiniteSet(G)
  <2>1. G = {f[c] : c \in DOMAIN store}
    OBVIOUS
  <2> HIDE DEF f, G
  <2> QED
    BY <1>1, <2>1, ImageFinite
<1> HIDE DEF G
<1>4. /\ Cardinality(G) \in Nat /\ Len(g) = Cardinality(G) /\ DOMAIN g = 1 .. Cardinality(G)
      /\ \A i, j \in DOMAIN g : i < j <=> g[i] < g[j]
      /\ Range(g) = G
  BY <1>2, <1>3, AscendingFacts
<1>5. Groups = g
  BY DEF Groups, G
<1> HIDE DEF g
<1>6. \A i \in DOMAIN g : g[i] \in G
  BY <1>4 DEF Range
<1>7. \A i, j \in DOMAIN g : g[i] = g[j] => i = j
  BY <1>2, <1>3, AscendingInjective DEF g
<1> QED
  BY <1>4, <1>5, <1>6, <1>7 DEF G

LEMMA TileCellsFacts ==
  ASSUME Tiled, NEW t \in DOMAIN Groups
  PROVE  /\ TileCells(t) \in Seq(DOMAIN store)
         /\ \A i, j \in DOMAIN TileCells(t) : TileCells(t)[i] = TileCells(t)[j] => i = j
         /\ Range(TileCells(t)) = {c \in DOMAIN store : c \div CellsPerTile = Groups[t]}
         /\ Range(TileCells(t)) # {}
<1> DEFINE C == {c \in DOMAIN store : c \div CellsPerTile = Groups[t]}
           s == Ascending(C)
<1>1. C \in SUBSET Int /\ IsFiniteSet(C) /\ C \subseteq DOMAIN store
  <2>1. DOMAIN store \in SUBSET Int /\ IsFiniteSet(DOMAIN store)
    BY StoreFacts DEF Tiled
  <2>2. C \subseteq DOMAIN store
    OBVIOUS
  <2> HIDE DEF C
  <2> QED
    BY <2>1, <2>2, FS_Subset
<1>2. C # {}
  BY GroupFacts
<1>3. TileCells(t) = s
  BY DEF TileCells
<1> HIDE DEF C
<1>4. /\ Cardinality(C) \in Nat /\ s \in Seq(C) /\ DOMAIN s = 1 .. Cardinality(C) /\ Range(s) = C
      /\ \A i, j \in DOMAIN s : i < j <=> s[i] < s[j]
  BY <1>1, AscendingFacts
<1> HIDE DEF s
<1>5. s \in Seq(DOMAIN store)
  BY <1>1, <1>4, SeqMono
<1>6. \A i, j \in DOMAIN s : s[i] = s[j] => i = j
  BY <1>1, AscendingInjective DEF s
<1> QED
  BY <1>2, <1>3, <1>4, <1>5, <1>6 DEF C

LEMMA TileFacts ==
  ASSUME Tiled
  PROVE  /\ Len(PlanTiles) \in Nat /\ DOMAIN PlanTiles = 1 .. Len(PlanTiles) /\ DOMAIN PlanTiles = DOMAIN Groups
         /\ \A t \in DOMAIN PlanTiles : PlanTiles[t].cells = TileCells(t) /\ PlanTiles[t].points \in Nat
<1>1. Len(Groups) \in Nat /\ DOMAIN Groups = 1 .. Len(Groups)
  BY GroupFacts
<1>2. DOMAIN PlanTiles = DOMAIN Groups /\ \A t \in DOMAIN Groups : PlanTiles[t] = TileOf(t)
  BY DEF PlanTiles
<1>3. Len(PlanTiles) = Len(Groups)
  BY <1>1 DEF PlanTiles
<1>4. ASSUME NEW t \in DOMAIN Groups
      PROVE  TileOf(t).cells = TileCells(t) /\ TileOf(t).points = Len(ReadTile(TileCells(t)))
  BY DEF TileOf, TileCells
<1>5. \A t \in DOMAIN Groups : Len(ReadTile(TileCells(t))) \in Nat
  BY TileCellsFacts, ReadRange DEF Tiled
<1> QED
  BY <1>1, <1>2, <1>3, <1>4, <1>5

\* A cell is in the tile of its group and no other.
LEMMA OneTile ==
  ASSUME Tiled, NEW c \in DOMAIN store
  PROVE  /\ \E t \in DOMAIN PlanTiles : c \in Range(PlanTiles[t].cells)
         /\ \A t, u \in DOMAIN PlanTiles : c \in Range(PlanTiles[t].cells) /\ c \in Range(PlanTiles[u].cells) => t = u
<1>1. \A t \in DOMAIN PlanTiles : PlanTiles[t].cells = TileCells(t) /\ t \in DOMAIN Groups
  BY TileFacts
<1>2. PICK t \in DOMAIN Groups : Groups[t] = c \div CellsPerTile
  BY GroupFacts DEF Range
<1>3. \A u \in DOMAIN Groups : c \in Range(TileCells(u)) <=> Groups[u] = c \div CellsPerTile
  BY TileCellsFacts
<1>4. t \in DOMAIN PlanTiles
  BY TileFacts
<1> QED
  BY <1>1, <1>2, <1>3, <1>4, GroupFacts

(***************************************************************************)
(* The shares.                                                             *)
(***************************************************************************)
SharesOnce(shares, nodes) ==
  \A k, l \in 1 .. nodes : \A i \in 1 .. Len(shares[k]) : \A j \in 1 .. Len(shares[l]) :
    shares[k][i] = shares[l][j] => k = l /\ i = j

\* Each of N tiles is once in one of the shares.
Shared(shares, nodes, N) ==
  /\ shares \in [1 .. nodes -> Seq(1 .. N)]
  /\ \A k \in 1 .. nodes : Len(shares[k]) <= N
  /\ \A t \in 1 .. N : \E k \in 1 .. nodes : \E i \in 1 .. Len(shares[k]) : shares[k][i] = t
  /\ SharesOnce(shares, nodes)

\* The first m tiles of an order have been given out.
SharesShort(shares, nodes, o, m) == \A k \in 1 .. nodes : shares[k] \in Seq(Range(o)) /\ Len(shares[k]) <= m

SharesFrom(shares, nodes, o, m) ==
  \A k \in 1 .. nodes : \A i \in 1 .. Len(shares[k]) : \E x \in 1 .. m : shares[k][i] = o[x]

SharesAll(shares, nodes, o, m) ==
  \A x \in 1 .. m : \E k \in 1 .. nodes : \E i \in 1 .. Len(shares[k]) : shares[k][i] = o[x]

SharedUpTo(shares, nodes, o, m) ==
  SharesShort(shares, nodes, o, m) /\ SharesFrom(shares, nodes, o, m) /\ SharesAll(shares, nodes, o, m)
  /\ SharesOnce(shares, nodes)

LEMMA AppendFacts ==
  ASSUME NEW S, NEW s \in Seq(S), NEW e \in S
  PROVE  /\ Append(s, e) \in Seq(S) /\ Len(s) \in Nat /\ Len(Append(s, e)) = Len(s) + 1
         /\ Append(s, e)[Len(s) + 1] = e /\ \A i \in 1 .. Len(s) : Append(s, e)[i] = s[i]
OBVIOUS

\* One more is given out.
LEMMA ShareNext ==
  ASSUME NEW nodes \in Nat, NEW N \in Nat, NEW o, DOMAIN o = 1 .. N,
         \A x, y \in 1 .. N : o[x] = o[y] => x = y,
         NEW m \in Nat, m + 1 <= N, NEW shares, DOMAIN shares = 1 .. nodes, SharedUpTo(shares, nodes, o, m),
         NEW w \in 1 .. nodes
  PROVE  SharedUpTo([shares EXCEPT ![w] = Append(@, o[m + 1])], nodes, o, m + 1)
<1> DEFINE S == Range(o)
           e == o[m + 1]
           after == [shares EXCEPT ![w] = Append(@, e)]
<1>1. e \in S /\ m + 1 \in 1 .. N
  BY DEF Range
<1>2. \A k \in 1 .. nodes : shares[k] \in Seq(S) /\ Len(shares[k]) <= m /\ Len(shares[k]) \in Nat
  <2>1. \A k \in 1 .. nodes : shares[k] \in Seq(S) /\ Len(shares[k]) <= m
    BY DEF SharedUpTo, SharesShort
  <2> QED
    BY <2>1
<1>3. \A k \in 1 .. nodes : k # w => after[k] = shares[k]
  OBVIOUS
<1>4. after[w] = Append(shares[w], e)
  OBVIOUS
<1> HIDE DEF S, e, after
<1>5. /\ after[w] \in Seq(S) /\ Len(after[w]) = Len(shares[w]) + 1
      /\ after[w][Len(shares[w]) + 1] = e /\ \A i \in 1 .. Len(shares[w]) : after[w][i] = shares[w][i]
  <2> DEFINE s == shares[w]
  <2>1. s \in Seq(S)
    BY <1>2
  <2> HIDE DEF s
  <2>2. /\ Append(s, e) \in Seq(S) /\ Len(s) \in Nat /\ Len(Append(s, e)) = Len(s) + 1
        /\ Append(s, e)[Len(s) + 1] = e /\ \A i \in 1 .. Len(s) : Append(s, e)[i] = s[i]
    BY <1>1, <2>1, AppendFacts
  <2> QED
    BY <1>4, <2>2 DEF s
<1>6. ASSUME NEW k \in 1 .. nodes
      PROVE  after[k] \in Seq(S) /\ Len(after[k]) <= m + 1
  <2>1. CASE k = w
    <3>1. Len(after[w]) = Len(shares[w]) + 1 /\ Len(shares[w]) \in Nat /\ Len(shares[w]) <= m
      BY <1>2, <1>5
    <3>2. Len(after[w]) <= m + 1
      BY <3>1
    <3> QED
      BY <1>5, <2>1, <3>2
  <2>2. CASE k # w
    <3>1. Len(shares[k]) \in Nat /\ Len(shares[k]) <= m /\ after[k] = shares[k]
      BY <1>2, <1>3, <2>2
    <3>2. Len(shares[k]) <= m + 1
      BY <3>1
    <3> QED
      BY <1>2, <3>1, <3>2
  <2> QED
    BY <2>1, <2>2
\* An element of the new shares is an old one or the new.
<1>7. ASSUME NEW k \in 1 .. nodes, NEW i \in 1 .. Len(after[k])
      PROVE  \/ i \in 1 .. Len(shares[k]) /\ after[k][i] = shares[k][i]
             \/ k = w /\ i = Len(shares[w]) + 1 /\ after[k][i] = e
  <2>1. CASE k # w
    BY <1>3, <2>1
  <2>2. CASE k = w
    <3> DEFINE a == Len(shares[w])
    <3>1. a \in Nat /\ i \in 1 .. a + 1
      BY <1>2, <1>5, <2>2
    <3> HIDE DEF a
    <3>2. i \in 1 .. a \/ i = a + 1
      BY <3>1
    <3> QED
      BY <1>5, <2>2, <3>2 DEF a
  <2> QED
    BY <2>1, <2>2
<1>8. ASSUME NEW k \in 1 .. nodes, NEW i \in 1 .. Len(shares[k])
      PROVE  i \in 1 .. Len(after[k]) /\ after[k][i] = shares[k][i]
  <2>1. CASE k # w
    BY <1>3, <2>1
  <2>2. CASE k = w
    <3> DEFINE a == Len(shares[w])  b == Len(after[w])
    <3>1. a \in Nat /\ i \in 1 .. a /\ b = a + 1
      BY <1>2, <1>5, <2>2
    <3> HIDE DEF a, b
    <3>2. i \in 1 .. b
      BY <3>1
    <3> QED
      BY <1>5, <2>2, <3>2 DEF b
  <2> QED
    BY <2>1, <2>2
\* The new element was in none.
<1>9. ASSUME NEW k \in 1 .. nodes, NEW i \in 1 .. Len(shares[k])
      PROVE  shares[k][i] # e
  <2>1. PICK x \in 1 .. m : shares[k][i] = o[x]
    <3>1. SharesFrom(shares, nodes, o, m)
      BY DEF SharedUpTo
    <3> QED
      BY <3>1 DEF SharesFrom
  <2>2. x \in 1 .. N /\ x # m + 1
    OBVIOUS
  <2> QED
    BY <1>1, <2>1, <2>2 DEF e
<1>10. ASSUME NEW k \in 1 .. nodes, NEW i \in 1 .. Len(after[k])
       PROVE  \E x \in 1 .. m + 1 : after[k][i] = o[x]
  <2>1. CASE i \in 1 .. Len(shares[k]) /\ after[k][i] = shares[k][i]
    <3>1. PICK x \in 1 .. m : shares[k][i] = o[x]
      <4>1. SharesFrom(shares, nodes, o, m)
        BY DEF SharedUpTo
      <4> QED
        BY <2>1, <4>1 DEF SharesFrom
    <3>2. x \in 1 .. m + 1
      OBVIOUS
    <3> QED
      BY <2>1, <3>1, <3>2
  <2>2. CASE after[k][i] = e
    <3>1. m + 1 \in 1 .. m + 1
      OBVIOUS
    <3> QED
      BY <2>2, <3>1 DEF e
  <2> QED
    BY <1>7, <2>1, <2>2
<1>11. ASSUME NEW x \in 1 .. m + 1
       PROVE  \E k \in 1 .. nodes : \E i \in 1 .. Len(after[k]) : after[k][i] = o[x]
  <2>1. CASE x = m + 1
    <3> DEFINE a == Len(shares[w])  b == Len(after[w])
    <3>1. a \in Nat /\ b = a + 1
      BY <1>2, <1>5
    <3> HIDE DEF a, b
    <3>2. a + 1 \in 1 .. b
      BY <3>1
    <3>3. Len(shares[w]) + 1 \in 1 .. Len(after[w])
      BY <3>2 DEF a, b
    <3> QED
      BY <1>5, <2>1, <3>3 DEF e
  <2>2. CASE x # m + 1
    <3>1. x \in 1 .. m
      BY <2>2
    <3>2. PICK k \in 1 .. nodes : \E i \in 1 .. Len(shares[k]) : shares[k][i] = o[x]
      <4>1. SharesAll(shares, nodes, o, m)
        BY DEF SharedUpTo
      <4> QED
        BY <3>1, <4>1 DEF SharesAll
    <3>3. PICK i \in 1 .. Len(shares[k]) : shares[k][i] = o[x]
      BY <3>2
    <3>4. i \in 1 .. Len(after[k]) /\ after[k][i] = shares[k][i]
      BY <1>8
    <3> QED
      BY <3>3, <3>4
  <2> QED
    BY <2>1, <2>2
<1>12. ASSUME NEW k \in 1 .. nodes, NEW l \in 1 .. nodes, NEW i \in 1 .. Len(after[k]), NEW j \in 1 .. Len(after[l]),
              after[k][i] = after[l][j]
       PROVE  k = l /\ i = j
  <2>1. CASE i \in 1 .. Len(shares[k]) /\ after[k][i] = shares[k][i]
    <3>1. after[l][j] # e
      BY <1>9, <1>12, <2>1
    <3>2. j \in 1 .. Len(shares[l]) /\ after[l][j] = shares[l][j]
      BY <1>7, <3>1
    <3>3. shares[k][i] = shares[l][j] /\ i \in 1 .. Len(shares[k])
      BY <1>12, <2>1, <3>2
    <3>4. SharesOnce(shares, nodes)
      BY DEF SharedUpTo
    <3> QED
      BY <3>2, <3>3, <3>4 DEF SharesOnce
  <2>2. CASE k = w /\ i = Len(shares[w]) + 1 /\ after[k][i] = e
    <3>1. ~(j \in 1 .. Len(shares[l]) /\ after[l][j] = shares[l][j])
      BY <1>9, <1>12, <2>2
    <3>2. l = w /\ j = Len(shares[w]) + 1
      BY <1>7, <3>1
    <3> QED
      BY <2>2, <3>2
  <2> QED
    BY <1>7, <2>1, <2>2
<1>13. SharesShort(after, nodes, o, m + 1)
  BY <1>6 DEF SharesShort, S
<1>14. SharesFrom(after, nodes, o, m + 1)
  BY <1>10 DEF SharesFrom
<1>15. SharesAll(after, nodes, o, m + 1)
  BY <1>11 DEF SharesAll
<1>16. SharesOnce(after, nodes)
  BY <1>12 DEF SharesOnce
<1> QED
  BY <1>13, <1>14, <1>15, <1>16 DEF SharedUpTo, e, after

TileSeq(tiles) ==
  Len(tiles) \in Nat /\ DOMAIN tiles = 1 .. Len(tiles) /\ \A t \in DOMAIN tiles : tiles[t].points \in Nat

LPT(tiles) == Sorted(DOMAIN tiles, [t \in DOMAIN tiles |-> -tiles[t].points])

LEMMA LPTFacts ==
  ASSUME NEW tiles, TileSeq(tiles)
  PROVE  LET o == LPT(tiles)  N == Len(tiles) IN
         /\ DOMAIN o = 1 .. N /\ Range(o) = 1 .. N /\ \A x \in 1 .. N : o[x] \in 1 .. N
         /\ \A x, y \in 1 .. N : o[x] = o[y] => x = y
<1> DEFINE N == Len(tiles)
           key == [t \in DOMAIN tiles |-> -tiles[t].points]
           S == DOMAIN tiles
           o == Sorted(S, key)
<1>1. S = 1 .. N /\ N \in Nat /\ IsFiniteSet(S) /\ Cardinality(S) = N
  <2>1. S = 1 .. N /\ N \in Nat
    BY DEF TileSeq
  <2> HIDE DEF S, N
  <2>2. IsFiniteSet(1 .. N) /\ Cardinality(1 .. N) = IF 1 > N THEN 0 ELSE N - 1 + 1
    BY <2>1, FS_Interval
  <2>3. Cardinality(1 .. N) = N
    BY <2>1, <2>2
  <2> QED
    BY <2>1, <2>2, <2>3
<1>2. Keys(S, key)
  <2>1. \A t \in S : key[t] \in Int
    BY DEF TileSeq
  <2> HIDE DEF S, N, key
  <2> QED
    BY <1>1, <2>1 DEF Keys
<1>3. LPT(tiles) = o
  BY DEF LPT
<1> HIDE DEF S, N, key
<1>4. /\ DOMAIN o = 1 .. Cardinality(S) /\ \A i, j \in DOMAIN o : i < j <=> Less(key, o[i], o[j])
      /\ Range(o) = S
  BY <1>2, SortedFacts
<1> HIDE DEF o
<1>5. DOMAIN o = 1 .. N /\ Range(o) = 1 .. N
  BY <1>1, <1>4
<1>6. \A x \in 1 .. N : o[x] \in 1 .. N
  BY <1>5 DEF Range
<1>7. ASSUME NEW x \in 1 .. N, NEW y \in 1 .. N, o[x] = o[y]
      PROVE  x = y
  <2>1. o[x] \in Int /\ key[o[x]] \in Int
    BY <1>1, <1>2, <1>6 DEF Keys
  <2>2. ~Less(key, o[x], o[y]) /\ ~Less(key, o[y], o[x])
    BY <1>7, <2>1 DEF Less
  <2>3. ~(x < y) /\ ~(y < x)
    BY <1>4, <1>5, <2>2
  <2> QED
    BY <2>3
<1> QED
  BY <1>3, <1>5, <1>6, <1>7 DEF N

\* The node with the least so far.
LEMMA LeastLoaded ==
  ASSUME NEW nodes \in Nat \ {0}, NEW loads \in [1 .. nodes -> Int]
  PROVE  Sorted(1 .. nodes, loads)[1] \in 1 .. nodes
<1>1. Keys(1 .. nodes, loads)
  <2>1. IsFiniteSet(1 .. nodes) /\ 1 .. nodes \in SUBSET Int
    BY FS_Interval
  <2> QED
    BY <2>1 DEF Keys
<1>2. Cardinality(1 .. nodes) = nodes
  <2>1. Cardinality(1 .. nodes) = IF 1 > nodes THEN 0 ELSE nodes - 1 + 1
    BY FS_Interval
  <2> QED
    BY <2>1
<1> DEFINE s == Sorted(1 .. nodes, loads)
<1>3. DOMAIN s = 1 .. Cardinality(1 .. nodes) /\ Range(s) = 1 .. nodes
  BY <1>1, SortedFacts
<1> HIDE DEF s
<1>4. 1 \in DOMAIN s
  BY <1>2, <1>3
<1>5. s[1] \in 1 .. nodes
  BY <1>3, <1>4 DEF Range
<1> QED
  BY <1>5 DEF s

LEMMA AssignShares ==
  ASSUME NEW tiles, TileSeq(tiles), NEW nodes \in Nat \ {0}
  PROVE  Shared(Assign(tiles, nodes), nodes, Len(tiles))
<1> DEFINE N == Len(tiles)
           o == LPT(tiles)
           States == [shares : [1 .. nodes -> Seq(1 .. N)], loads : [1 .. nodes -> Int]]
           first == [shares |-> [k \in 1 .. nodes |-> <<>>], loads |-> [k \in 1 .. nodes |-> 0]]
           body(j, s) == LET k == Sorted(1 .. nodes, s.loads)[1]
                         IN  [shares |-> [s.shares EXCEPT ![k] = Append(@, o[j])],
                              loads  |-> [s.loads EXCEPT ![k] = @ + tiles[o[j]].points]]
           step == [j \in 1 .. N |-> [s \in States |-> body(j, s)]]
           rec(g, j) == IF j = 0 THEN first ELSE body(j, g[j - 1])
           given == CHOOSE g : g = [j \in 0 .. N |-> rec(g, j)]
<1>1. N \in Nat /\ DOMAIN tiles = 1 .. N /\ \A t \in 1 .. N : tiles[t].points \in Nat
  BY DEF TileSeq
<1>2. /\ DOMAIN o = 1 .. N /\ Range(o) = 1 .. N /\ \A x \in 1 .. N : o[x] \in 1 .. N
      /\ \A x, y \in 1 .. N : o[x] = o[y] => x = y
  BY LPTFacts
<1>3. given = Given(tiles, nodes)
  BY DEF Given, LPT
<1> HIDE DEF N, o
<1>4. first \in States
  OBVIOUS
<1>5. ASSUME NEW j \in 1 .. N, NEW s \in States
      PROVE  body(j, s) \in States
  <2> DEFINE k == Sorted(1 .. nodes, s.loads)[1]
  <2>1. s.shares \in [1 .. nodes -> Seq(1 .. N)] /\ s.loads \in [1 .. nodes -> Int]
    OBVIOUS
  <2>2. k \in 1 .. nodes
    BY <2>1, LeastLoaded
  <2>3. o[j] \in 1 .. N /\ tiles[o[j]].points \in Int
    BY <1>1, <1>2
  <2> HIDE DEF k
  <2>4. [s.shares EXCEPT ![k] = Append(@, o[j])] \in [1 .. nodes -> Seq(1 .. N)]
    BY <2>1, <2>2, <2>3
  <2>5. [s.loads EXCEPT ![k] = @ + tiles[o[j]].points] \in [1 .. nodes -> Int]
    BY <2>1, <2>2, <2>3
  <2> QED
    BY <2>4, <2>5 DEF k
<1>6. step \in [1 .. N -> [States -> States]]
  <2> HIDE DEF body, States
  <2> QED
    BY <1>5
<1>7. PICK f \in [0 .. N -> States] : Follows(f, first, step, N)
  <2> HIDE DEF step, first, States
  <2> QED
    BY <1>1, <1>4, <1>6, ChainExists
<1>8. \A j \in 1 .. N : f[j] = body(j, f[j - 1]) /\ f[j - 1] \in States
  <2> SUFFICES ASSUME NEW j \in 1 .. N
               PROVE  f[j] = body(j, f[j - 1]) /\ f[j - 1] \in States
    OBVIOUS
  <2>1. f[j - 1] \in States
    <3>1. j - 1 \in 0 .. N
      BY <1>1
    <3> HIDE DEF States
    <3> QED
      BY <3>1
  <2>2. f[j] = step[j][f[j - 1]]
    BY <1>7 DEF Follows
  <2> HIDE DEF body, States
  <2> QED
    BY <2>1, <2>2
<1>9. f = [j \in 0 .. N |-> rec(f, j)]
  <2>1. \A j \in 0 .. N : f[j] = rec(f, j)
    <3> SUFFICES ASSUME NEW j \in 0 .. N
                 PROVE  f[j] = rec(f, j)
      OBVIOUS
    <3>1. CASE j = 0
      BY <1>7, <3>1 DEF Follows
    <3>2. CASE j # 0
      <4>1. j \in 1 .. N
        BY <1>1, <3>2
      <4> HIDE DEF body, States, first
      <4> QED
        BY <1>8, <3>2, <4>1
    <3> QED
      BY <3>1, <3>2
  <2> HIDE DEF rec, States
  <2> QED
    BY <2>1
<1>10. given = [j \in 0 .. N |-> rec(given, j)]
  <2> HIDE DEF rec, States
  <2> QED
    BY <1>9
<1>11. given[0] = first /\ \A j \in 1 .. N : given[j] = body(j, given[j - 1])
  <2>1. \A j \in 0 .. N : given[j] = rec(given, j)
    <3> HIDE DEF rec, given
    <3> QED
      BY <1>10
  <2>2. given[0] = rec(given, 0)
    <3>1. 0 \in 0 .. N
      BY <1>1
    <3> HIDE DEF rec, given
    <3> QED
      BY <2>1, <3>1
  <2>3. ASSUME NEW j \in 1 .. N
        PROVE  given[j] = body(j, given[j - 1])
    <3>1. j \in 0 .. N /\ j # 0
      BY <1>1
    <3> HIDE DEF body, given, first
    <3> QED
      BY <2>1, <3>1
  <2> HIDE DEF body, given
  <2> QED
    BY <2>2, <2>3
<1> HIDE DEF given
<1> DEFINE Good1(j) == given[j] \in States /\ SharedUpTo(given[j].shares, nodes, o, j)
           Upto == {j \in Nat : j <= N => Good1(j)}
<1>12. 0 \in Upto
  <2>1. given[0] \in States /\ given[0].shares = [k \in 1 .. nodes |-> <<>>]
    BY <1>4, <1>11
  <2>2. SharedUpTo([k \in 1 .. nodes |-> <<>>], nodes, o, 0)
    BY DEF SharedUpTo, SharesShort, SharesFrom, SharesAll, SharesOnce
  <2> HIDE DEF States
  <2> QED
    BY <2>1, <2>2
<1>13. ASSUME NEW j \in Upto, j + 1 <= N
       PROVE  Good1(j + 1)
  <2> DEFINE s == given[j]
             k == Sorted(1 .. nodes, s.loads)[1]
  <2>1. j \in Nat /\ j <= N /\ j + 1 \in 1 .. N /\ (j + 1) - 1 = j
    BY <1>1, <1>13
  <2>2. s \in States /\ SharedUpTo(s.shares, nodes, o, j)
    BY <2>1
  <2>3. given[j + 1] = body(j + 1, s)
    <3> HIDE DEF body
    <3>1. given[j + 1] = body(j + 1, given[(j + 1) - 1])
      BY <1>11, <2>1
    <3> QED
      BY <2>1, <3>1
  <2>4. given[j + 1] \in States
    <3> HIDE DEF body, States, s
    <3> QED
      BY <1>5, <2>1, <2>2, <2>3
  <2>5. s.loads \in [1 .. nodes -> Int] /\ s.shares \in [1 .. nodes -> Seq(1 .. N)]
    <3> HIDE DEF s
    <3> QED
      BY <2>2
  <2>6. k \in 1 .. nodes
    <3> HIDE DEF s
    <3> QED
      BY <2>5, LeastLoaded
  <2>7. given[j + 1].shares = [s.shares EXCEPT ![k] = Append(@, o[j + 1])]
    <3> HIDE DEF s
    <3> QED
      BY <2>3
  <2> DEFINE sh == s.shares
  <2>8. DOMAIN sh = 1 .. nodes /\ SharedUpTo(sh, nodes, o, j)
    BY <2>2, <2>5
  <2> HIDE DEF sh, s, k, States
  <2>9. SharedUpTo([sh EXCEPT ![k] = Append(@, o[j + 1])], nodes, o, j + 1)
    BY <1>1, <1>2, <1>13, <2>1, <2>6, <2>8, ShareNext
  <2> QED
    BY <2>4, <2>7, <2>9 DEF sh
<1>14. N \in Upto
  <2>1. ASSUME NEW j \in Upto
        PROVE  j + 1 \in Upto
    <3>1. j + 1 \in Nat
      OBVIOUS
    <3>2. j + 1 <= N => Good1(j + 1)
      <4> HIDE DEF Upto, Good1
      <4> QED
        BY <1>13
    <3> HIDE DEF Good1
    <3> QED
      BY <3>1, <3>2
  <2>2. Upto \in SUBSET Nat
    OBVIOUS
  <2> HIDE DEF Upto
  <2> QED
    BY <1>1, <1>12, <2>1, <2>2, Ind
<1>15. Good1(N)
  <2>1. N <= N
    BY <1>1
  <2> HIDE DEF Good1
  <2> QED
    BY <1>14, <2>1
<1> DEFINE a == given[N].shares
<1>16. a \in [1 .. nodes -> Seq(1 .. N)] /\ SharedUpTo(a, nodes, o, N)
  BY <1>15
<1>17. Assign(tiles, nodes) = a
  BY <1>3 DEF Assign, N
<1> HIDE DEF a, Upto, Good1, States
<1>18. ASSUME NEW t \in 1 .. N
       PROVE  \E k \in 1 .. nodes : \E i \in 1 .. Len(a[k]) : a[k][i] = t
  <2>1. PICK x \in 1 .. N : o[x] = t
    BY <1>2 DEF Range
  <2> QED
    <3>1. SharesAll(a, nodes, o, N)
      BY <1>16 DEF SharedUpTo
    <3>2. PICK k \in 1 .. nodes : \E i \in 1 .. Len(a[k]) : a[k][i] = o[x]
      BY <3>1 DEF SharesAll
    <3> QED
      BY <2>1, <3>2
<1>19. \A k \in 1 .. nodes : Len(a[k]) <= N
  BY <1>16 DEF SharedUpTo, SharesShort
<1>20. SharesOnce(a, nodes)
  BY <1>16 DEF SharedUpTo
<1>21. Shared(a, nodes, N)
  BY <1>16, <1>18, <1>19, <1>20 DEF Shared
<1> QED
  BY <1>17, <1>21 DEF N

(***************************************************************************)
(* The inputs, the store and the plan.                                     *)
(***************************************************************************)
Planned ==
  /\ Tiled
  /\ \E nodes \in NodeCounts : plan = [tiles |-> PlanTiles, assignment |-> Assign(PlanTiles, nodes)]

StaticInv ==
  /\ roi \in Roi /\ tileSize \in TileSizes /\ field \in Fields
  /\ pc \in {"import", "plan", "jobs", "refused"}
  /\ store # None \/ pc \in {"plan", "jobs"} => Imported
  /\ plan # None => pc = "jobs"
  /\ pc = "jobs" => Planned
  /\ pc # "jobs" => n = 0 /\ running = {} /\ ended = {} /\ jobs = 0 /\ written = <<>>

LEMMA SamePlan ==
  ASSUME UNCHANGED <<inputs, store>>
  PROVE  /\ PlanTiles' = PlanTiles /\ TileFits' = TileFits
         /\ Imported' = Imported /\ Tiled' = Tiled
<1>1. roi' = roi /\ tileSize' = tileSize /\ field' = field /\ store' = store
  BY DEF inputs
<1>2. CellsPerTile' = CellsPerTile
  BY <1>1 DEF CellsPerTile
<1>3. TileFits' = TileFits
  BY <1>1, <1>2 DEF TileFits
<1>4. Groups' = Groups
  BY <1>1, <1>2 DEF Groups
<1>5. ASSUME NEW i
      PROVE  TileOf(i)' = TileOf(i)
  BY <1>1, <1>2, <1>4 DEF TileOf, ReadTile
<1>6. PlanTiles' = PlanTiles
  BY <1>4, <1>5 DEF PlanTiles
<1>7. Imported' = Imported
  BY <1>1 DEF Imported
<1> QED
  BY <1>1, <1>3, <1>6, <1>7 DEF Tiled

LEMMA StaticStep ==
  ASSUME StaticInv, [Next]_vars
  PROVE  StaticInv'
<1>1. CASE Import
  <2>1. pc = "import" /\ UNCHANGED <<inputs, plan, job>>
    BY <1>1 DEF Import
  <2>2. plan = None /\ plan' = None /\ n = 0 /\ running = {} /\ ended = {} /\ jobs = 0 /\ written = <<>>
    BY <2>1 DEF StaticInv
  <2>3. roi' = roi /\ tileSize' = tileSize /\ field' = field
        /\ n' = 0 /\ running' = {} /\ ended' = {} /\ jobs' = 0 /\ written' = <<>>
    BY <2>1, <2>2 DEF inputs, job
  <2>4. CASE Readable(roi) /\ Importable(Points(roi)) /\ store' = Cells(Points(roi)) /\ pc' = "plan"
    <3>1. Imported'
      BY <2>3, <2>4 DEF Imported, StaticInv
    <3> QED
      BY <2>2, <2>3, <2>4, <3>1 DEF StaticInv
  <2>5. CASE pc' = "refused" /\ UNCHANGED store
    <3>1. Imported' = Imported
      BY <2>3, <2>5 DEF Imported
    <3>2. store' # None => Imported'
      BY <2>5, <3>1 DEF StaticInv
    <3>3. (store # None \/ pc \in {"plan", "jobs"} => Imported)'
      BY <2>5, <3>2
    <3>4. (pc \in {"import", "plan", "jobs", "refused"})' /\ (plan # None => pc = "jobs")' /\ (pc = "jobs" => Planned)'
      BY <2>2, <2>5
    <3> QED
      BY <2>3, <3>3, <3>4 DEF StaticInv
  <2> QED
    BY <1>1, <2>4, <2>5 DEF Import
<1>2. CASE Plan
  <2>1. pc = "plan" /\ UNCHANGED <<inputs, store, job>> /\ Imported /\ plan = None
    BY <1>2 DEF Plan, StaticInv
  <2>2. roi' = roi /\ tileSize' = tileSize /\ field' = field
        /\ n' = 0 /\ running' = {} /\ ended' = {} /\ jobs' = 0 /\ written' = <<>>
    BY <2>1 DEF inputs, job, StaticInv
  <2>3. Imported' /\ PlanTiles' = PlanTiles /\ TileFits' = TileFits /\ Tiled' = Tiled
    BY <2>1, SamePlan
  <2>4. CASE TileFits /\ pc' = "jobs" /\ \E nodes \in NodeCounts :
               plan' = [tiles |-> PlanTiles, assignment |-> Assign(PlanTiles, nodes)]
    <3>1. Tiled
      BY <2>1, <2>4 DEF Tiled, StaticInv
    <3>2. Planned'
      BY <2>3, <2>4, <3>1 DEF Planned
    <3> QED
      BY <2>2, <2>3, <2>4, <3>2 DEF StaticInv
  <2>5. CASE pc' = "refused" /\ UNCHANGED plan
    <3>1. plan' = None
      BY <2>1, <2>5
    <3> QED
      BY <2>2, <2>3, <2>5, <3>1 DEF StaticInv
  <2> QED
    BY <1>2, <2>4, <2>5 DEF Plan
<1>3. ASSUME UNCHANGED <<inputs, store, plan, pc>>, pc = "jobs" \/ UNCHANGED <<n, running, ended, jobs, written>>
      PROVE  StaticInv'
  <2>1. Imported' = Imported /\ PlanTiles' = PlanTiles /\ Tiled' = Tiled
    BY <1>3, SamePlan
  <2>2. plan' = plan /\ pc' = pc /\ store' = store /\ roi' = roi /\ tileSize' = tileSize /\ field' = field
    BY <1>3 DEF inputs
  <2>3. Planned' = Planned
    BY <2>1, <2>2 DEF Planned
  <2> QED
    BY <1>3, <2>1, <2>2, <2>3 DEF StaticInv
<1>4. CASE Submit
  BY <1>3, <1>4 DEF Submit
<1>5. CASE WriteResults
  BY <1>3, <1>5 DEF WriteResults
<1>6. CASE \E k \in 1 .. MaxNodes : SolveNext(k) \/ Report(k) \/ Lost(k)
  <2>1. PICK k \in 1 .. MaxNodes : SolveNext(k) \/ Report(k) \/ Lost(k)
    BY <1>6
  <2>2. k \in running /\ UNCHANGED <<inputs, store, plan, pc>>
    BY <2>1 DEF SolveNext, Report, Lost
  <2>3. pc = "jobs"
    BY <2>2 DEF StaticInv
  <2> QED
    BY <1>3, <2>2, <2>3
<1>7. CASE UNCHANGED vars
  BY <1>3, <1>7 DEF vars, job
<1> QED
  BY <1>1, <1>2, <1>4, <1>5, <1>6, <1>7 DEF Next

LEMMA StaticCorrect == Spec => []StaticInv
<1>1. Init => StaticInv
  BY DEF Init, StaticInv
<1>2. StaticInv /\ [Next]_vars => StaticInv'
  BY StaticStep
<1> QED
  BY <1>1, <1>2, PTL DEF Spec

(***************************************************************************)
(* Every point of the file is stored once.                                 *)
(***************************************************************************)
THEOREM StoredOnceCorrect == Spec => []StoredOnce
<1>1. StaticInv => StoredOnce
  BY ImportedStored DEF StaticInv, StoredOnce
<1> QED
  BY <1>1, StaticCorrect, PTL

(***************************************************************************)
(* Every tile is in one share.                                             *)
(***************************************************************************)
LEMMA CountFacts ==
  ASSUME NEW nodes \in NodeCounts
  PROVE  nodes \in Nat \ {0} /\ MaxNodes \in Nat /\ nodes <= MaxNodes
<1>1. NodeCounts \in SUBSET Int /\ IsFiniteSet(NodeCounts) /\ NodeCounts # {} /\ NodeCounts \subseteq Nat \ {0}
  BY SizesAssumption
<1>2. MaxNodes \in NodeCounts /\ nodes <= MaxNodes
  BY <1>1, MaxFacts DEF MaxNodes
<1> QED
  BY <1>1, <1>2

LEMMA FunLen ==
  ASSUME NEW S, NEW k \in Nat, NEW a \in [1 .. k -> S]
  PROVE  Len(a) = k
OBVIOUS

LEMMA ShareFacts ==
  ASSUME Planned, NEW nodes \in NodeCounts
  PROVE  /\ Len(plan.tiles) \in Nat /\ TileIds = 1 .. Len(plan.tiles) /\ plan.tiles = PlanTiles
         /\ Shared([k \in 1 .. nodes |-> Share(k, nodes)], nodes, Len(plan.tiles))
<1>1. Tiled
  BY DEF Planned
<1>2. PICK planned \in NodeCounts : plan = [tiles |-> PlanTiles, assignment |-> Assign(PlanTiles, planned)]
  BY DEF Planned
<1>3. plan.tiles = PlanTiles /\ plan.assignment = Assign(PlanTiles, planned)
  BY <1>2
<1>4. /\ Len(PlanTiles) \in Nat /\ DOMAIN PlanTiles = 1 .. Len(PlanTiles)
      /\ \A t \in DOMAIN PlanTiles : PlanTiles[t].points \in Nat
  BY <1>1, TileFacts
<1>5. TileSeq(PlanTiles)
  BY <1>4 DEF TileSeq
<1>6. Shared(Assign(PlanTiles, nodes), nodes, Len(PlanTiles))
      /\ Shared(Assign(PlanTiles, planned), planned, Len(PlanTiles))
  BY <1>5, AssignShares, CountFacts
<1>7. Len(plan.assignment) = planned
  <2>1. plan.assignment \in [1 .. planned -> Seq(1 .. Len(PlanTiles))] /\ planned \in Nat
    BY <1>3, <1>6, CountFacts DEF Shared
  <2> QED
    BY <2>1, FunLen
<1> DEFINE a == IF Len(plan.assignment) = nodes THEN plan.assignment ELSE Assign(plan.tiles, nodes)
<1>8. a = Assign(PlanTiles, nodes)
  BY <1>3, <1>7
<1>9. a \in [1 .. nodes -> Seq(1 .. Len(PlanTiles))]
  BY <1>6, <1>8 DEF Shared
<1>10. [k \in 1 .. nodes |-> Share(k, nodes)] = a
  <2>1. \A k : Share(k, nodes) = a[k]
    BY DEF Share
  <2> HIDE DEF a
  <2> QED
    BY <1>9, <2>1
<1>11. TileIds = 1 .. Len(plan.tiles)
  BY <1>3, <1>4 DEF TileIds
<1> HIDE DEF a
<1> QED
  BY <1>3, <1>4, <1>6, <1>8, <1>10, <1>11

LEMMA PlannedPartition ==
  ASSUME Planned, n \in {0} \union NodeCounts
  PROVE  SharesPartition
<1>1. Tiled
  BY DEF Planned
<1>2. plan.tiles = PlanTiles /\ TileIds = DOMAIN PlanTiles
  BY DEF Planned, TileIds
<1>3. ASSUME NEW c \in DOMAIN store
      PROVE  Cardinality({t \in TileIds : c \in Range(plan.tiles[t].cells)}) = 1
  <2>1. PICK t \in DOMAIN PlanTiles : c \in Range(PlanTiles[t].cells)
    BY <1>1, OneTile
  <2>2. \A u \in DOMAIN PlanTiles : c \in Range(PlanTiles[u].cells) => u = t
    BY <1>1, <2>1, OneTile
  <2>3. {u \in TileIds : c \in Range(plan.tiles[u].cells)} = {t}
    BY <1>2, <2>1, <2>2
  <2> QED
    BY <2>3, FS_Singleton
<1>4. ASSUME n > 0, NEW t \in TileIds
      PROVE  LET share == [k \in 1 .. n |-> Share(k, n)]
             IN  Cardinality({p \in (1 .. n) \X TileIds : p[2] \in DOMAIN share[p[1]] /\ share[p[1]][p[2]] = t}) = 1
  <2> DEFINE share == [k \in 1 .. n |-> Share(k, n)]
             N == Len(plan.tiles)
             places == {p \in (1 .. n) \X TileIds : p[2] \in DOMAIN share[p[1]] /\ share[p[1]][p[2]] = t}
  <2>1. n \in NodeCounts
    BY <1>4
  <2>2. Shared(share, n, N) /\ N \in Nat /\ TileIds = 1 .. N
    BY <2>1, ShareFacts
  <2> HIDE DEF share, N
  <2>3. PICK k \in 1 .. n : \E i \in 1 .. Len(share[k]) : share[k][i] = t
    BY <2>2 DEF Shared
  <2>4. PICK i \in 1 .. Len(share[k]) : share[k][i] = t
    BY <2>3
  <2>5. \A l \in 1 .. n : share[l] \in Seq(1 .. N) /\ DOMAIN share[l] = 1 .. Len(share[l])
    <3>1. share \in [1 .. n -> Seq(1 .. N)]
      BY <2>2 DEF Shared
    <3> QED
      BY <3>1
  <2>6. Len(share[k]) <= N /\ Len(share[k]) \in Nat
    BY <2>2, <2>5 DEF Shared
  <2>7. i \in TileIds
    <3> DEFINE a == Len(share[k])
    <3>1. a \in Nat /\ a <= N /\ i \in 1 .. a
      BY <2>6
    <3> HIDE DEF a
    <3> QED
      BY <2>2, <3>1
  <2>8. <<k, i>> \in places
    BY <2>4, <2>5, <2>7
  <2>9. ASSUME NEW p \in places
        PROVE  p = <<k, i>>
    <3>1. p[1] \in 1 .. n /\ p[2] \in 1 .. Len(share[p[1]]) /\ share[p[1]][p[2]] = t /\ p = <<p[1], p[2]>>
      BY <2>5
    <3>2. share[p[1]][p[2]] = share[k][i]
      BY <2>4, <3>1
    <3>3. SharesOnce(share, n)
      BY <2>2 DEF Shared
    <3> HIDE DEF places
    <3>4. p[1] = k /\ p[2] = i
      BY <3>1, <3>2, <3>3 DEF SharesOnce
    <3> QED
      BY <3>1, <3>4
  <2>10. places = {<<k, i>>}
    <3> HIDE DEF places
    <3> QED
      BY <2>8, <2>9
  <2>11. Cardinality(places) = 1
    <3> HIDE DEF places
    <3> QED
      BY <2>10, FS_Singleton
  <2> QED
    BY <2>11 DEF share
<1> QED
  BY <1>3, <1>4 DEF SharesPartition

(***************************************************************************)
(* What the nodes of a job report.                                         *)
(***************************************************************************)
JobInv ==
  /\ n \in {0} \union NodeCounts /\ jobs \in Nat /\ (jobs = 0 => n = 0)
  /\ DOMAIN failed = 0 .. MaxNodes
  /\ running \subseteq 1 .. n /\ ended \subseteq 1 .. n /\ running \intersect ended = {}
  /\ n # 0 => /\ DOMAIN todo = 1 .. n
              /\ \A k \in 1 .. n : todo[k] \in Seq(Range(Share(k, n)))
  /\ \A k \in ended : failed[FileOf(k)] = Missing(k)

LEMMA RangeSeq ==
  ASSUME NEW S, NEW s \in Seq(S)
  PROVE  /\ s \in Seq(Range(s)) /\ DOMAIN s = 1 .. Len(s) /\ Len(s) \in Nat
         /\ \A i \in DOMAIN s : s[i] \in Range(s)
         /\ Range(s) \subseteq S
BY DEF Range

\* What a node is given are tiles of its share.
LEMMA UnwrittenFacts ==
  ASSUME NEW S, NEW share \in Seq(S)
  PROVE  Unwritten(share) \in Seq(Range(share))
<1> DEFINE I == {i \in DOMAIN share : ~IsWritten(share[i])}
<1>1. DOMAIN share = 1 .. Len(share) /\ Len(share) \in Nat /\ \A i \in DOMAIN share : share[i] \in Range(share)
  BY RangeSeq
<1>2. I \in SUBSET Int /\ IsFiniteSet(I) /\ I \subseteq DOMAIN share
  <2>1. IsFiniteSet(1 .. Len(share)) /\ 1 .. Len(share) \subseteq Int
    BY <1>1, FS_Interval
  <2>2. I \subseteq DOMAIN share
    OBVIOUS
  <2> HIDE DEF I
  <2> QED
    BY <1>1, <2>1, <2>2, FS_Subset
<1>3. Unwritten(share) = At(share, I)
  BY DEF Unwritten
<1> HIDE DEF I
<1>4. \A i \in I : share[i] \in Range(share)
  BY <1>1, <1>2
<1>5. \A T : (\A i \in I : share[i] \in T) => At(share, I) \in Seq(T)
  BY <1>2, AtFacts
<1> QED
  BY <1>3, <1>4, <1>5

\* Tiles in the shares of two nodes have no cell in common.
LEMMA Apart ==
  ASSUME Planned, NEW nodes \in NodeCounts, NEW k \in 1 .. nodes, NEW l \in 1 .. nodes, k # l,
         NEW t \in Range(Share(k, nodes)), NEW u \in Range(Share(l, nodes))
  PROVE  /\ t \in TileIds /\ u \in TileIds
         /\ Range(plan.tiles[t].cells) \intersect Range(plan.tiles[u].cells) = {}
<1> DEFINE share == [m \in 1 .. nodes |-> Share(m, nodes)]
           N == Len(plan.tiles)
<1>1. Shared(share, nodes, N) /\ TileIds = 1 .. N /\ plan.tiles = PlanTiles /\ Tiled
  BY ShareFacts DEF Planned
<1>2. share[k] = Share(k, nodes) /\ share[l] = Share(l, nodes)
  OBVIOUS
<1> HIDE DEF share, N
<1>3. share[k] \in Seq(1 .. N) /\ share[l] \in Seq(1 .. N) /\ SharesOnce(share, nodes)
  BY <1>1 DEF Shared
<1>4. PICK i \in 1 .. Len(share[k]) : share[k][i] = t
  <2>1. DOMAIN share[k] = 1 .. Len(share[k])
    BY <1>3
  <2> QED
    BY <1>2, <2>1 DEF Range
<1>5. PICK j \in 1 .. Len(share[l]) : share[l][j] = u
  <2>1. DOMAIN share[l] = 1 .. Len(share[l])
    BY <1>3
  <2> QED
    BY <1>2, <2>1 DEF Range
<1>6. t \in 1 .. N /\ u \in 1 .. N
  <2>1. Range(share[k]) \subseteq 1 .. N /\ Range(share[l]) \subseteq 1 .. N
    BY <1>3, RangeSeq
  <2> QED
    BY <1>2, <2>1
<1>7. t # u
  BY <1>3, <1>4, <1>5 DEF SharesOnce
<1>8. t \in DOMAIN PlanTiles /\ u \in DOMAIN PlanTiles
  BY <1>1, <1>6 DEF TileIds
<1>9. Range(PlanTiles[t].cells) \subseteq DOMAIN store
  <2>1. PlanTiles[t].cells = TileCells(t) /\ t \in DOMAIN Groups
    BY <1>1, <1>8, TileFacts
  <2>2. Range(TileCells(t)) = {c \in DOMAIN store : c \div CellsPerTile = Groups[t]}
    BY <1>1, <2>1, TileCellsFacts
  <2> QED
    BY <2>1, <2>2
<1>10. ASSUME NEW c \in Range(PlanTiles[t].cells) \intersect Range(PlanTiles[u].cells)
       PROVE  FALSE
  BY <1>1, <1>7, <1>8, <1>9, <1>10, OneTile
<1> QED
  BY <1>1, <1>6, <1>10

\* A node that writes a tile of its own changes nothing that another has reported.
LEMMA MissingStays ==
  ASSUME Planned, n \in NodeCounts, NEW k \in 1 .. n, NEW l \in 1 .. n, k # l, NEW t \in Range(Share(k, n)),
         UNCHANGED <<plan, n>>,
         \/ UNCHANGED written
         \/ DOMAIN written' = Range(plan.tiles[t].cells) \union DOMAIN written
  PROVE  Missing(l)' = Missing(l)
<1>1. Share(l, n)' = Share(l, n)
  BY DEF Share
<1>2. ASSUME NEW u \in Range(Share(l, n))
      PROVE  IsWritten(u)' <=> IsWritten(u)
  <2>1. CASE UNCHANGED written
    BY <2>1 DEF IsWritten
  <2>2. CASE DOMAIN written' = Range(plan.tiles[t].cells) \union DOMAIN written
    <3>1. Range(plan.tiles[t].cells) \intersect Range(plan.tiles[u].cells) = {}
      BY Apart
    <3>2. Range(plan.tiles[u].cells)' = Range(plan.tiles[u].cells)
      OBVIOUS
    <3> QED
      BY <2>2, <3>1, <3>2 DEF IsWritten
  <2> QED
    BY <2>1, <2>2
<1>3. Range(Share(l, n))' = Range(Share(l, n))
  BY <1>1
<1> QED
  BY <1>2, <1>3 DEF Missing

LEMMA JobStep ==
  ASSUME StaticInv, JobInv, [Next]_vars
  PROVE  JobInv'
<1>1. CASE Import \/ Plan
  <2>1. pc # "jobs" /\ UNCHANGED job
    BY <1>1 DEF Import, Plan
  <2>2. n = 0 /\ ended = {} /\ n' = n /\ jobs' = jobs /\ failed' = failed /\ running' = running /\ ended' = ended
    BY <2>1 DEF StaticInv, job
  <2> QED
    BY <2>2 DEF JobInv
<1>2. CASE UNCHANGED vars
  <2>1. UNCHANGED <<plan, n, todo, running, ended, written, failed, jobs>>
    BY <1>2 DEF vars, job
  <2>2. \A k : Share(k, n)' = Share(k, n) /\ Missing(k)' = Missing(k) /\ FileOf(k)' = FileOf(k)
    BY <2>1 DEF Share, Missing, IsWritten, FileOf
  <2> QED
    BY <2>1, <2>2 DEF JobInv
<1>3. CASE WriteResults
  <2>1. jobs = 0 /\ UNCHANGED <<n, todo, running, ended, failed, jobs>>
    BY <1>3 DEF WriteResults
  <2>2. n = 0 /\ ended = {}
    BY <2>1 DEF JobInv
  <2> QED
    BY <2>1, <2>2 DEF JobInv
<1>4. CASE Submit
  <2>1. pc = "jobs" /\ running = {} /\ UNCHANGED <<plan, failed, written>> /\ ended' = {} /\ jobs' = jobs + 1
    BY <1>4 DEF Submit
  <2>2. PICK nodes \in NodeCounts : n' = nodes /\ running' = 1 .. nodes
                                    /\ todo' = [k \in 1 .. nodes |-> Unwritten(Share(k, nodes))]
    BY <1>4 DEF Submit
  <2>3. Planned
    BY <2>1 DEF StaticInv
  <2>4. ASSUME NEW k \in 1 .. nodes
        PROVE  Unwritten(Share(k, nodes)) \in Seq(Range(Share(k, nodes)))
    <3>1. Share(k, nodes) \in Seq(1 .. Len(plan.tiles))
      BY <2>3, ShareFacts DEF Shared
    <3> QED
      BY <3>1, UnwrittenFacts
  <2>5. \A k : Share(k, nodes)' = Share(k, nodes)
    BY <2>1 DEF Share
  <2>6. DOMAIN todo' = 1 .. nodes /\ \A k \in 1 .. nodes : todo'[k] \in Seq(Range(Share(k, nodes)'))
    BY <2>2, <2>4, <2>5
  <2>7. \A k : Share(k, n)' = Share(k, nodes)'
    BY <2>2 DEF Share
  <2> QED
    BY <2>1, <2>2, <2>6, <2>7 DEF JobInv
<1>5. ASSUME NEW k \in running, UNCHANGED <<plan, n>>
      PROVE  /\ pc = "jobs" /\ Planned /\ n \in NodeCounts /\ k \in 1 .. n /\ k \notin ended
             /\ todo[k] \in Seq(Range(Share(k, n))) /\ DOMAIN todo = 1 .. n
             /\ \A l : Share(l, n)' = Share(l, n) /\ FileOf(l)' = FileOf(l)
  <2>1. pc = "jobs" /\ Planned
    BY DEF StaticInv
  <2>2. k \in 1 .. n /\ k \notin ended
    BY DEF JobInv
  <2>3. n \in NodeCounts
    BY <2>2 DEF JobInv
  <2>4. n # 0
    BY <2>3, CountFacts
  <2>5. todo[k] \in Seq(Range(Share(k, n))) /\ DOMAIN todo = 1 .. n
    BY <2>2, <2>4 DEF JobInv
  <2>6. \A l : Share(l, n)' = Share(l, n) /\ FileOf(l)' = FileOf(l)
    BY <1>5 DEF Share, FileOf
  <2> QED
    BY <2>1, <2>2, <2>3, <2>5, <2>6
<1>6. ASSUME NEW k \in 1 .. MaxNodes, SolveNext(k)
      PROVE  JobInv'
  <2> DEFINE t == Head(todo[k])
  <2>1. k \in running /\ todo[k] # <<>> /\ UNCHANGED <<plan, n, running, ended, failed, jobs>>
        /\ todo' = [todo EXCEPT ![k] = Tail(@)]
    BY <1>6 DEF SolveNext
  <2>2. /\ Planned /\ n \in NodeCounts /\ k \in 1 .. n /\ k \notin ended /\ DOMAIN todo = 1 .. n
        /\ todo[k] \in Seq(Range(Share(k, n))) /\ \A l : Share(l, n)' = Share(l, n) /\ FileOf(l)' = FileOf(l)
    BY <1>5, <2>1
  <2>3. t \in Range(Share(k, n)) /\ Tail(todo[k]) \in Seq(Range(Share(k, n)))
    BY <2>1, <2>2
  <2>4. \/ UNCHANGED written
        \/ DOMAIN written' = Range(plan.tiles[t].cells) \union DOMAIN written
    <3>1. CASE UNCHANGED written
      BY <3>1
    <3>2. CASE written' = Over(CellResults(t, SolveTile(ReadTile(plan.tiles[t].cells))), written)
      <4> DEFINE out == SolveTile(ReadTile(plan.tiles[t].cells))
      <4>1. DOMAIN CellResults(t, out) = Range(plan.tiles[t].cells)
        BY DEF CellResults
      <4>2. \A new : DOMAIN Over(new, written) = DOMAIN new \union DOMAIN written
        BY DEF Over
      <4> HIDE DEF out, t
      <4> QED
        BY <3>2, <4>1, <4>2 DEF out
    <3> QED
      BY <1>6, <3>1, <3>2 DEF SolveNext
  <2> HIDE DEF t
  <2>5. ASSUME NEW l \in ended
        PROVE  failed'[FileOf(l)'] = Missing(l)'
    <3>1. l \in 1 .. n /\ l # k
      BY <2>2 DEF JobInv
    <3>2. Missing(l)' = Missing(l)
      BY <2>1, <2>2, <2>3, <2>4, <3>1, MissingStays
    <3> QED
      BY <2>1, <2>2, <3>2 DEF JobInv
  <2>6. ASSUME NEW l \in 1 .. n
        PROVE  todo'[l] \in Seq(Range(Share(l, n))')
    <3>1. todo[l] \in Seq(Range(Share(l, n)))
      BY <2>1, <2>2 DEF JobInv
    <3>2. todo'[l] = IF l = k THEN Tail(todo[k]) ELSE todo[l]
      BY <2>1, <2>2
    <3>3. Range(Share(l, n))' = Range(Share(l, n))
      BY <2>2
    <3> QED
      BY <2>3, <3>1, <3>2, <3>3
  <2>7. DOMAIN todo' = 1 .. n
    BY <2>1, <2>2
  <2> QED
    BY <2>1, <2>2, <2>5, <2>6, <2>7 DEF JobInv
<1>7. ASSUME NEW k \in 1 .. MaxNodes, Report(k)
      PROVE  JobInv'
  <2>1. /\ k \in running /\ failed' = [failed EXCEPT ![FileOf(k)] = Missing(k)]
        /\ running' = running \ {k} /\ ended' = ended \union {k} /\ UNCHANGED <<plan, n, todo, written, jobs>>
    BY <1>7 DEF Report
  <2>2. /\ n \in NodeCounts /\ k \in 1 .. n /\ k \notin ended
        /\ \A l : Share(l, n)' = Share(l, n) /\ FileOf(l)' = FileOf(l)
    BY <1>5, <2>1
  <2>3. \A l : Missing(l)' = Missing(l)
    BY <2>1, <2>2 DEF Missing, IsWritten
  <2>4. n \in Nat \ {0} /\ MaxNodes \in Nat /\ n <= MaxNodes
    BY <2>2, CountFacts
  <2>5. DOMAIN failed = 0 .. MaxNodes /\ FileOf(k) \in 0 .. MaxNodes
    BY <2>2, <2>4 DEF JobInv, FileOf
  <2>6. ASSUME NEW l \in ended'
        PROVE  failed'[FileOf(l)'] = Missing(l)'
    <3>1. CASE l = k
      BY <2>1, <2>2, <2>3, <2>5, <3>1
    <3>2. CASE l # k
      <4>1. l \in ended /\ l \in 1 .. n
        BY <2>1, <3>2 DEF JobInv
      <4>2. n > 1
        BY <2>2, <2>4, <3>2, <4>1
      <4>3. FileOf(l) # FileOf(k)
        BY <3>2, <4>2 DEF FileOf
      <4> QED
        BY <2>1, <2>2, <2>3, <4>1, <4>3 DEF JobInv
    <3> QED
      BY <3>1, <3>2
  <2>7. running' \subseteq 1 .. n /\ ended' \subseteq 1 .. n /\ running' \intersect ended' = {}
    BY <2>1, <2>2 DEF JobInv
  <2>8. n' # 0 => DOMAIN todo' = 1 .. n' /\ \A l \in 1 .. n' : todo'[l] \in Seq(Range(Share(l, n))')
    BY <2>1, <2>2 DEF JobInv
  <2>9. DOMAIN failed' = 0 .. MaxNodes
    BY <2>1, <2>5
  <2> QED
    BY <2>1, <2>2, <2>6, <2>7, <2>8, <2>9 DEF JobInv
<1>8. ASSUME NEW k \in 1 .. MaxNodes, Lost(k)
      PROVE  JobInv'
  <2>1. k \in running /\ running' = running \ {k} /\ todo' = [todo EXCEPT ![k] = <<>>]
        /\ UNCHANGED <<plan, n, ended, written, failed, jobs>>
    BY <1>8 DEF Lost
  <2>2. /\ n \in NodeCounts /\ k \in 1 .. n /\ DOMAIN todo = 1 .. n
        /\ \A l : Share(l, n)' = Share(l, n) /\ FileOf(l)' = FileOf(l)
    BY <1>5, <2>1
  <2>3. \A l : Missing(l)' = Missing(l)
    BY <2>1, <2>2 DEF Missing, IsWritten
  <2>4. n # 0
    BY <2>2, CountFacts
  <2>5. DOMAIN todo' = 1 .. n /\ \A l \in 1 .. n : todo'[l] \in Seq(Range(Share(l, n))')
    BY <2>1, <2>2, <2>4 DEF JobInv
  <2> QED
    BY <2>1, <2>2, <2>3, <2>5 DEF JobInv
<1> QED
  BY <1>1, <1>2, <1>3, <1>4, <1>6, <1>7, <1>8 DEF Next

LEMMA JobCorrect == Spec => []JobInv
<1>1. Init => JobInv
  BY DEF Init, JobInv
<1>2. StaticInv /\ JobInv /\ [Next]_vars => JobInv'
  BY JobStep
<1> QED
  BY <1>1, <1>2, StaticCorrect, PTL DEF Spec

\* node_share.  Whatever the number of nodes of the job, every cell is in one tile
\* and every tile in one share.
THEOREM SharesPartitionCorrect == Spec => []SharesPartition
<1>1. StaticInv /\ JobInv => SharesPartition
  <2> SUFFICES ASSUME StaticInv, JobInv, plan # None
               PROVE  SharesPartition
    BY DEF SharesPartition
  <2>1. Planned /\ n \in {0} \union NodeCounts
    BY DEF StaticInv, JobInv
  <2> QED
    BY <2>1, PlannedPartition
<1> QED
  BY <1>1, StaticCorrect, JobCorrect, PTL

\* run's reports.  When all nodes have reported, they have listed the tiles that
\* are not written.
THEOREM ReportedCorrect == Spec => []Reported
<1>1. StaticInv /\ JobInv => Reported
  <2> SUFFICES ASSUME StaticInv, JobInv, n > 0, ended = 1 .. n
               PROVE  UNION {failed[FileOf(k)] : k \in 1 .. n} = {t \in TileIds : ~IsWritten(t)}
    BY DEF Reported
  <2>1. n \in NodeCounts
    BY DEF JobInv
  <2>2. Planned
    <3>1. n # 0
      OBVIOUS
    <3> QED
      BY <3>1 DEF StaticInv
  <2> DEFINE share == [k \in 1 .. n |-> Share(k, n)]
             N == Len(plan.tiles)
  <2>3. Shared(share, n, N) /\ TileIds = 1 .. N
    BY <2>1, <2>2, ShareFacts
  <2>4. \A k \in 1 .. n : share[k] = Share(k, n) /\ failed[FileOf(k)] = {t \in Range(Share(k, n)) : ~IsWritten(t)}
    BY DEF JobInv, Missing
  <2> HIDE DEF share, N
  <2>5. \A k \in 1 .. n : Range(share[k]) \subseteq 1 .. N
    <3>1. share \in [1 .. n -> Seq(1 .. N)]
      BY <2>3 DEF Shared
    <3>2. \A k \in 1 .. n : share[k] \in Seq(1 .. N)
      BY <3>1
    <3> QED
      BY <3>2, RangeSeq
  <2>6. \A t \in 1 .. N : \E k \in 1 .. n : t \in Range(share[k])
    <3> SUFFICES ASSUME NEW t \in 1 .. N
                 PROVE  \E k \in 1 .. n : t \in Range(share[k])
      OBVIOUS
    <3>1. PICK k \in 1 .. n : \E i \in 1 .. Len(share[k]) : share[k][i] = t
      BY <2>3 DEF Shared
    <3>2. share[k] \in Seq(1 .. N)
      BY <2>3 DEF Shared
    <3>3. DOMAIN share[k] = 1 .. Len(share[k])
      BY <3>2
    <3> QED
      BY <3>1, <3>3 DEF Range
  <2> QED
    BY <2>3, <2>4, <2>5, <2>6
<1> QED
  BY <1>1, StaticCorrect, JobCorrect, PTL

(***************************************************************************)
(* Seeds.                                                                  *)
(***************************************************************************)
\* The search finds the id asked for, if it is there.
LEMMA SearchFacts ==
  ASSUME NEW D \in SUBSET Int, IsFiniteSet(D), D # {}, NEW id \in Int
  PROVE  LET ids == Ascending(D)
             pos == Min({Cardinality({i \in D : i < id}) + 1, Len(ids)}) IN
         /\ Cardinality({i \in D : i < id}) \in Nat
         /\ pos \in DOMAIN ids /\ ids[pos] \in D /\ (id \in D => ids[pos] = id)
         /\ (id \in D => Cardinality({i \in D : i < id}) + 1 = pos)
<1> DEFINE ids == Ascending(D)
           L == Len(ids)
           below == {i \in D : i < id}
           c == Cardinality(below)
           pos == Min({c + 1, L})
<1>1. /\ L \in Nat /\ DOMAIN ids = 1 .. L /\ L # 0
      /\ \A i, j \in DOMAIN ids : i < j <=> ids[i] < ids[j]
      /\ \A p \in D : \E i \in DOMAIN ids : ids[i] = p
  <2>1. /\ Cardinality(D) \in Nat /\ Len(ids) = Cardinality(D) /\ DOMAIN ids = 1 .. Cardinality(D)
        /\ \A i, j \in DOMAIN ids : i < j <=> ids[i] < ids[j]
        /\ \A p \in D : \E i \in DOMAIN ids : ids[i] = p
    BY AscendingFacts
  <2>2. Cardinality(D) # 0
    BY FS_EmptySet
  <2> QED
    BY <2>1, <2>2
<1>2. \A i \in DOMAIN ids : ids[i] \in D /\ \A j \in DOMAIN ids : ids[i] = ids[j] => i = j
  BY AscendingInjective
<1>3. c \in Nat
  <2>1. below \subseteq D
    OBVIOUS
  <2> HIDE DEF below
  <2> QED
    BY <2>1, FS_Subset, FS_CardinalityType
<1> HIDE DEF ids, L
<1>4. pos \in 1 .. L
  <2> HIDE DEF c
  <2>1. c + 1 \in Int /\ L \in Int
    BY <1>1, <1>3
  <2>2. pos = IF c + 1 <= L THEN c + 1 ELSE L
    BY <2>1, MinOfTwo
  <2> HIDE DEF pos
  <2> QED
    BY <1>1, <1>3, <2>2
<1>5. ASSUME id \in D
      PROVE  ids[pos] = id /\ c + 1 = pos
  <2>1. PICK p \in DOMAIN ids : ids[p] = id
    BY <1>1, <1>5
  <2>2. p \in 1 .. L /\ p - 1 \in Nat
    BY <1>1
  <2>3. below = {ids[j] : j \in 1 .. p - 1}
    <3>1. ASSUME NEW i \in below
          PROVE  \E j \in 1 .. p - 1 : ids[j] = i
      <4>1. PICK j \in DOMAIN ids : ids[j] = i
        BY <1>1
      <4>2. j < p /\ j \in 1 .. L
        BY <1>1, <2>1, <4>1
      <4>3. j \in 1 .. p - 1
        BY <1>1, <2>2, <4>2
      <4> QED
        BY <4>1, <4>3
    <3>2. ASSUME NEW j \in 1 .. p - 1
          PROVE  ids[j] \in below
      <4>1. j \in DOMAIN ids /\ j < p
        BY <1>1, <2>2
      <4> QED
        BY <1>1, <1>2, <2>1, <4>1
    <3> HIDE DEF below
    <3> QED
      BY <3>1, <3>2
  <2>4. \A i, j \in 1 .. p - 1 : ids[i] = ids[j] => i = j
    <3>1. \A i \in 1 .. p - 1 : i \in DOMAIN ids
      BY <1>1, <2>2
    <3> QED
      BY <1>2, <3>1
  <2>5. c = p - 1
    <3>1. IsFiniteSet({ids[j] : j \in 1 .. p - 1}) /\ Cardinality({ids[j] : j \in 1 .. p - 1}) = p - 1
      BY <2>2, <2>4, PrefixCard
    <3> HIDE DEF below
    <3> QED
      BY <2>3, <3>1
  <2>6. c + 1 = p
    <3> HIDE DEF c
    <3> QED
      BY <2>2, <2>5
  <2>7. pos = p
    <3> HIDE DEF c
    <3>1. p \in Int /\ L \in Int /\ p <= L
      BY <1>1, <2>2
    <3> QED
      BY <2>6, <3>1, MinOfTwo
  <2> HIDE DEF pos, c
  <2> QED
    BY <2>1, <2>6, <2>7
<1> HIDE DEF pos
<1>6. pos \in DOMAIN ids /\ ids[pos] \in D
  BY <1>1, <1>2, <1>4
<1> HIDE DEF c
<1> QED
  BY <1>3, <1>5, <1>6 DEF ids, L, pos, c

LEMMA SeedFacts ==
  ASSUME field \in Fields, NEW id \in Int
  PROVE  SeedOf(field, id) = SeedMeant(id) /\ SeedOf(field, id) \in Int
<1>1. CASE field = None
  BY <1>1, SeedsAssumption DEF SeedOf, SeedMeant
<1>2. CASE field # None
  <2> DEFINE D == DOMAIN field
             ids == Ascending(D)
             pos == Min({Cardinality({i \in D : i < id}) + 1, Len(ids)})
  <2>1. D \in SUBSET Int /\ IsFiniteSet(D) /\ D # {} /\ \A i \in D : field[i] \in Int
    BY <1>2, SeedsAssumption
  <2>2. ids[pos] \in D /\ (id \in D => ids[pos] = id)
    <3> HIDE DEF D
    <3> QED
      BY <2>1, SearchFacts
  <2>3. SeedOf(field, id) = IF ids[pos] = id THEN field[id] ELSE Rigid
    BY <1>2 DEF SeedOf
  <2>4. SeedMeant(id) = IF id \in D THEN field[id] ELSE Rigid
    BY <1>2 DEF SeedMeant
  <2> HIDE DEF ids, pos, D
  <2> QED
    BY <2>1, <2>2, <2>3, <2>4, SeedsAssumption
<1> QED
  BY <1>1, <1>2

\* np.median lies among integers; no seed is further from it than the spread.
LEMMA MedianFacts ==
  ASSUME NEW s, NEW N \in Nat \ {0}, DOMAIN s = 1 .. N, \A i \in 1 .. N : s[i] \in Int
  PROVE  Median(s) \in Int
<1> DEFINE o == Sorted(DOMAIN s, s)
           t == [j \in DOMAIN s |-> s[o[j]]]
<1>1. IsFiniteSet(DOMAIN s) /\ Cardinality(DOMAIN s) = N
  <2>1. IsFiniteSet(1 .. N) /\ Cardinality(1 .. N) = IF 1 > N THEN 0 ELSE N - 1 + 1
    BY FS_Interval
  <2>2. Cardinality(1 .. N) = N
    BY <2>1
  <2> QED
    BY <2>1, <2>2
<1>2. Keys(DOMAIN s, s)
  BY <1>1 DEF Keys
<1>3. Range(o) = DOMAIN s /\ DOMAIN o = 1 .. N
  <2>1. Range(o) = DOMAIN s /\ DOMAIN o = 1 .. Cardinality(DOMAIN s)
    BY <1>2, SortedFacts
  <2> QED
    BY <1>1, <2>1
<1> HIDE DEF o
<1>4. \A j \in 1 .. N : o[j] \in 1 .. N
  BY <1>3 DEF Range
<1>5. \A j \in 1 .. N : t[j] \in Int
  BY <1>4
<1>6. Len(t) = N
  <2>1. t \in [1 .. N -> Int]
    BY <1>5
  <2> HIDE DEF t
  <2> QED
    BY <2>1, FunLen
<1>7. (N + 1) \div 2 \in 1 .. N /\ N \div 2 + 1 \in 1 .. N
  OBVIOUS
<1>8. Median(s) = (t[(Len(t) + 1) \div 2] + t[Len(t) \div 2 + 1]) \div 2
  BY DEF Median, o
<1> HIDE DEF t
<1>9. t[(Len(t) + 1) \div 2] \in Int /\ t[Len(t) \div 2 + 1] \in Int
  BY <1>5, <1>6, <1>7
<1> QED
  BY <1>8, <1>9

LEMMA SpreadFacts ==
  ASSUME NEW s, NEW N \in Nat \ {0}, DOMAIN s = 1 .. N, \A i \in 1 .. N : s[i] \in Int
  PROVE  Spread(s) \in Int /\ \A i \in 1 .. N : Median(s) - s[i] <= Spread(s) /\ s[i] - Median(s) <= Spread(s)
<1> DEFINE m == Median(s)
           f == [i \in 1 .. N |-> m - s[i]]
           g == [i \in 1 .. N |-> s[i] - m]
           A == {f[i] : i \in 1 .. N}
           B == {g[i] : i \in 1 .. N}
<1>1. m \in Int
  BY MedianFacts
<1> HIDE DEF m
<1>2. A \subseteq Int /\ B \subseteq Int
  BY <1>1
<1>3. IsFiniteSet(A) /\ IsFiniteSet(B)
  <2>1. IsFiniteSet(1 .. N)
    BY FS_Interval
  <2> HIDE DEF f, g
  <2> QED
    BY <2>1, ImageFinite
<1>4. Spread(s) = Max(A \union B)
  <2>1. A = {m - s[i] : i \in DOMAIN s} /\ B = {s[i] - m : i \in DOMAIN s}
    OBVIOUS
  <2> HIDE DEF A, B
  <2> QED
    BY <2>1 DEF Spread, m
<1>5. \A i \in 1 .. N : m - s[i] \in A /\ s[i] - m \in B
  OBVIOUS
<1> HIDE DEF A, B, f, g
<1>6. A \union B \in SUBSET Int /\ IsFiniteSet(A \union B) /\ A \union B # {}
  <2>1. IsFiniteSet(A \union B)
    BY <1>3, FS_Union
  <2>2. 1 \in 1 .. N
    OBVIOUS
  <2> QED
    BY <1>2, <1>5, <2>1, <2>2
<1>7. Max(A \union B) \in A \union B /\ \A x \in A \union B : x <= Max(A \union B)
  BY <1>6, MaxFacts
<1> QED
  BY <1>4, <1>5, <1>6, <1>7 DEF m

(***************************************************************************)
(* Bricks.                                                                 *)
(***************************************************************************)
\* Whole voxels below and above.
LEMMA CeilFacts ==
  ASSUME NEW a \in Int, NEW b \in Int
  PROVE  /\ a \div 4 \in Int /\ CeilDiv(b, 4) \in Int
         /\ (a - b) \div 4 >= a \div 4 - CeilDiv(b, 4)
         /\ (a + b) \div 4 <= a \div 4 + CeilDiv(b, 4)
         /\ (a + b) \div 4 >= a \div 4 + b \div 4
         /\ CeilDiv(a, 4) <= a \div 4 + 1
         /\ CeilDiv(a + 8, 4) = CeilDiv(a, 4) + 2
         /\ (a * 4 + b) \div 4 = a + b \div 4 /\ CeilDiv(a * 4 + b, 4) = a + CeilDiv(b, 4)
BY DEF CeilDiv

LEMMA CeilMono ==
  ASSUME NEW a \in Int, NEW b \in Int, a <= b
  PROVE  a \div 4 <= b \div 4 /\ CeilDiv(a, 4) <= CeilDiv(b, 4)
BY DEF CeilDiv

\* A point's voxel in its brick of the reference volume, with h for what the halo
\* has beyond the stencil's.
LEMMA RefReads ==
  ASSUME NEW x \in Int, NEW lo \in Int, NEW hi \in Int, lo <= x, x <= hi,
         NEW h \in Nat, NEW d \in Int, -h <= d, d <= h
  PROVE  Reads(x + d, Grow([lo |-> CeilDiv(lo, Q), hi |-> hi \div Q + 1], h + 2 * Q))
<1> DEFINE box == [lo |-> CeilDiv(lo, Q), hi |-> hi \div Q + 1]
           big == Grow(box, h + 2 * Q)
<1>1. Q = 4 /\ Taps.before = 1 /\ Taps.after = 2 /\ h + 2 * Q = h + 8
  BY DEF Q, Taps
<1>2. big.lo = CeilDiv(lo, 4) - CeilDiv(h + 8, 4) /\ big.hi = hi \div 4 + 1 + CeilDiv(h + 8, 4)
  BY <1>1 DEF Grow
<1>3. CeilDiv(h + 8, 4) = CeilDiv(h, 4) + 2 /\ CeilDiv(h, 4) \in Int
  BY CeilFacts
<1>4. CeilDiv(lo, 4) <= CeilDiv(x, 4) /\ x \div 4 <= hi \div 4 /\ CeilDiv(x, 4) <= x \div 4 + 1
  BY CeilMono, CeilFacts
<1>5. (x + d) \div 4 >= x \div 4 - CeilDiv(h, 4)
  <2>1. (x - h) \div 4 <= (x + d) \div 4 /\ (x - h) \div 4 >= x \div 4 - CeilDiv(h, 4)
    <3>1. x - h \in Int /\ x + d \in Int /\ x - h <= x + d /\ h \in Int
      OBVIOUS
    <3>2. (x - h) \div 4 <= (x + d) \div 4
      BY <3>1, CeilMono
    <3>3. (x - h) \div 4 >= x \div 4 - CeilDiv(h, 4)
      BY <3>1, CeilFacts
    <3> QED
      BY <3>2, <3>3
  <2>2. (x - h) \div 4 \in Int /\ (x + d) \div 4 \in Int /\ x \div 4 \in Int
    OBVIOUS
  <2> QED
    BY <1>3, <2>1, <2>2
<1>6. (x + d) \div 4 <= x \div 4 + CeilDiv(h, 4)
  <2>1. (x + d) \div 4 <= (x + h) \div 4 /\ (x + h) \div 4 <= x \div 4 + CeilDiv(h, 4)
    <3>1. x + h \in Int /\ x + d \in Int /\ x + d <= x + h /\ h \in Int
      OBVIOUS
    <3>2. (x + d) \div 4 <= (x + h) \div 4
      BY <3>1, CeilMono
    <3>3. (x + h) \div 4 <= x \div 4 + CeilDiv(h, 4)
      BY <3>1, CeilFacts
    <3> QED
      BY <3>2, <3>3
  <2>2. (x + h) \div 4 \in Int /\ (x + d) \div 4 \in Int /\ x \div 4 \in Int
    OBVIOUS
  <2> QED
    BY <1>3, <2>1, <2>2
<1>7. (x + d) \div 4 \in Int /\ x \div 4 \in Int /\ hi \div 4 \in Int /\ CeilDiv(lo, 4) \in Int /\ CeilDiv(x, 4) \in Int
  BY CeilFacts
<1> HIDE DEF big
<1>8. (x + d) \div 4 - 1 >= big.lo /\ (x + d) \div 4 + 2 < big.hi
  BY <1>2, <1>3, <1>4, <1>5, <1>6, <1>7
<1> QED
  BY <1>1, <1>8 DEF Reads, big

\* And in that of the deformed one: m is the median of the tile's seeds, and the
\* point's own is within s of it.
LEMMA DefReads ==
  ASSUME NEW x \in Int, NEW lo \in Int, NEW hi \in Int, lo <= x, x <= hi,
         NEW h \in Nat, NEW d \in Int, -h <= d, d <= h,
         NEW m \in Int, NEW s \in Int, NEW e \in Int, -s <= e, e <= s
  PROVE  Reads(x + d + m + e,
               Grow(Shift(Grow([lo |-> CeilDiv(lo, Q), hi |-> hi \div Q + 1], h + 2 * Q), m), s))
<1> DEFINE box == [lo |-> CeilDiv(lo, Q), hi |-> hi \div Q + 1]
           big == Grow(box, h + 2 * Q)
           moved == Shift(big, m)
           def == Grow(moved, s)
           y == x + d + m + e
<1>1. Q = 4 /\ Taps.before = 1 /\ Taps.after = 2 /\ h + 2 * Q = h + 8
  BY DEF Q, Taps
<1>2. big.lo = CeilDiv(lo, 4) - CeilDiv(h + 8, 4) /\ big.hi = hi \div 4 + 1 + CeilDiv(h + 8, 4)
  BY <1>1 DEF Grow
<1>3. CeilDiv(h + 8, 4) = CeilDiv(h, 4) + 2 /\ CeilDiv(h, 4) \in Int
  BY CeilFacts
<1>4. CeilDiv(lo, 4) <= CeilDiv(x, 4) /\ x \div 4 <= hi \div 4 /\ CeilDiv(x, 4) <= x \div 4 + 1
  BY CeilMono, CeilFacts
<1>5. /\ x \div 4 \in Int /\ hi \div 4 \in Int /\ CeilDiv(lo, 4) \in Int /\ CeilDiv(x, 4) \in Int
      /\ m \div 4 \in Int /\ CeilDiv(m, 4) \in Int /\ CeilDiv(s, 4) \in Int
  BY CeilFacts
<1>6. big.lo \in Int /\ big.hi \in Int
  <2> HIDE DEF big
  <2> QED
    BY <1>2, <1>3, <1>5
<1>7. moved.lo = big.lo + m \div 4 /\ moved.hi = big.hi + CeilDiv(m, 4)
  <2>1. moved.lo = (big.lo * 4 + m) \div 4 /\ moved.hi = CeilDiv(big.hi * 4 + m, 4)
    BY <1>1 DEF Shift
  <2>2. \A a \in Int : (a * 4 + m) \div 4 = a + m \div 4 /\ CeilDiv(a * 4 + m, 4) = a + CeilDiv(m, 4)
    BY CeilFacts
  <2> HIDE DEF moved, big
  <2> QED
    BY <1>6, <2>1, <2>2
<1>8. def.lo = moved.lo - CeilDiv(s, 4) /\ def.hi = moved.hi + CeilDiv(s, 4)
  BY <1>1 DEF Grow
<1>9. y \in Int /\ y \div 4 \in Int
  <2>1. y \in Int
    OBVIOUS
  <2> HIDE DEF y
  <2> QED
    BY <2>1
<1> HIDE DEF big, moved, def
<1>10. y \div 4 >= x \div 4 - CeilDiv(h, 4) + m \div 4 - CeilDiv(s, 4)
  <2>1. ((x - h) + m) - s \in Int /\ (x - h) + m \in Int /\ x - h \in Int /\ ((x - h) + m) - s <= y
    OBVIOUS
  <2>2. (((x - h) + m) - s) \div 4 <= y \div 4
    <3> HIDE DEF y
    <3> QED
      BY <1>9, <2>1, CeilMono
  <2>3. (((x - h) + m) - s) \div 4 >= ((x - h) + m) \div 4 - CeilDiv(s, 4)
    BY <2>1, CeilFacts
  <2>4. ((x - h) + m) \div 4 >= (x - h) \div 4 + m \div 4
    BY <2>1, CeilFacts
  <2>5. (x - h) \div 4 >= x \div 4 - CeilDiv(h, 4)
    <3>1. h \in Int
      OBVIOUS
    <3> QED
      BY <3>1, CeilFacts
  <2>6. (((x - h) + m) - s) \div 4 \in Int /\ ((x - h) + m) \div 4 \in Int /\ (x - h) \div 4 \in Int
    BY <2>1, CeilFacts
  <2> HIDE DEF y
  <2> QED
    BY <1>3, <1>5, <1>9, <2>2, <2>3, <2>4, <2>5, <2>6
<1>11. y \div 4 <= x \div 4 + CeilDiv(h, 4) + CeilDiv(m, 4) + CeilDiv(s, 4)
  <2>1. ((x + h) + m) + s \in Int /\ (x + h) + m \in Int /\ x + h \in Int /\ y <= ((x + h) + m) + s
    OBVIOUS
  <2>2. y \div 4 <= (((x + h) + m) + s) \div 4
    <3> HIDE DEF y
    <3> QED
      BY <1>9, <2>1, CeilMono
  <2>3. (((x + h) + m) + s) \div 4 <= ((x + h) + m) \div 4 + CeilDiv(s, 4)
    BY <2>1, CeilFacts
  <2>4. ((x + h) + m) \div 4 <= (x + h) \div 4 + CeilDiv(m, 4)
    BY <2>1, CeilFacts
  <2>5. (x + h) \div 4 <= x \div 4 + CeilDiv(h, 4)
    <3>1. h \in Int
      OBVIOUS
    <3> QED
      BY <3>1, CeilFacts
  <2>6. (((x + h) + m) + s) \div 4 \in Int /\ ((x + h) + m) \div 4 \in Int /\ (x + h) \div 4 \in Int
    BY <2>1, CeilFacts
  <2> HIDE DEF y
  <2> QED
    BY <1>3, <1>5, <1>9, <2>2, <2>3, <2>4, <2>5, <2>6
<1> HIDE DEF y
<1>12. y \div 4 - 1 >= def.lo /\ y \div 4 + 2 < def.hi
  BY <1>2, <1>3, <1>4, <1>5, <1>7, <1>8, <1>9, <1>10, <1>11
<1>13. Reads(y, def)
  BY <1>1, <1>12 DEF Reads
<1> QED
  BY <1>13 DEF y, def, moved, big

LEMMA PlannedBricks ==
  ASSUME Planned, field \in Fields, NEW t \in TileIds, NEW p \in Range(ReadTile(plan.tiles[t].cells)),
         NEW sample \in {-Extent, Extent}, NEW move \in {-DispMax, DispMax}
  PROVE  /\ Reads(p.x + sample, plan.tiles[t].ref)
         /\ Reads(p.x + sample + SeedMeant(p.id) + move, plan.tiles[t].def)
<1> DEFINE P == Points(roi)
           cells == TileCells(t)
           rows == ReadTile(cells)
           N == Len(rows)
           xs == {rows[j].x : j \in DOMAIN rows}
           box == Grow(Around(xs), Halo)
           seeds == [j \in DOMAIN rows |-> SeedOf(field, rows[j].id)]
           h == Extent + DispMax
<1>1. Tiled /\ plan.tiles = PlanTiles /\ Imported
  BY DEF Planned, Tiled
<1>2. t \in DOMAIN Groups /\ PlanTiles[t] = TileOf(t) /\ PlanTiles[t].cells = cells
  BY <1>1, TileFacts DEF TileIds, PlanTiles
<1>3. cells \in Seq(DOMAIN store)
  BY <1>1, <1>2, TileCellsFacts
<1>4. N \in Nat /\ DOMAIN rows = 1 .. N /\ rows \in Seq(Range(P))
  BY <1>1, <1>3, ReadRange
<1>5. \A q \in Range(P) : q.x \in Int /\ q.id \in Int
  <2>1. Good(P)
    BY <1>1, StoreFacts
  <2> HIDE DEF P
  <2>2. \A i \in DOMAIN P : P[i].x \in Int /\ P[i].id \in Int
    BY <2>1, CellOfFacts DEF Good
  <2> QED
    BY <2>2 DEF Range
<1>6. plan.tiles[t].ref = box /\ plan.tiles[t].def = Grow(Shift(box, Median(seeds)), Spread(seeds))
  <2>1. TileOf(t).ref = box /\ TileOf(t).def = Grow(Shift(box, Median(seeds)), Spread(seeds))
    BY DEF TileOf, TileCells
  <2> HIDE DEF box, seeds
  <2> QED
    BY <1>1, <1>2, <2>1
<1>7. p \in Range(rows)
  BY <1>1, <1>2
<1> HIDE DEF rows, cells, P
<1>8. PICK j \in 1 .. N : rows[j] = p
  BY <1>4, <1>7 DEF Range
<1>9. \A i \in 1 .. N : rows[i].x \in Int /\ rows[i].id \in Int
  BY <1>4, <1>5
<1> HIDE DEF N
<1>10. N \in Nat \ {0}
  BY <1>4, <1>8
<1>11. xs \in SUBSET Int /\ IsFiniteSet(xs) /\ xs # {} /\ p.x \in xs
  <2> DEFINE f == [i \in 1 .. N |-> rows[i].x]
  <2>1. IsFiniteSet(1 .. N)
    BY <1>10, FS_Interval
  <2>2. xs = {f[i] : i \in 1 .. N}
    BY <1>4
  <2>3. \A i \in 1 .. N : f[i] \in Int
    BY <1>9
  <2>4. p.x \in xs
    BY <1>4, <1>8
  <2> HIDE DEF f, xs
  <2> QED
    BY <2>1, <2>2, <2>3, <2>4, ImageFinite
<1> HIDE DEF xs
<1>12. Min(xs) \in Int /\ Max(xs) \in Int /\ Min(xs) <= p.x /\ p.x <= Max(xs) /\ p.x \in Int
  BY <1>11, MinFacts, MaxFacts
<1>13. h \in Nat /\ Halo = h + 2 * Q
  BY ReachAssumption DEF Halo, Q
<1>14. -h <= sample /\ sample <= h /\ sample \in Int /\ -h <= sample + move /\ sample + move <= h /\ sample + move \in Int
  <2>1. Extent \in Nat /\ DispMax \in Nat
    BY ReachAssumption
  <2> QED
    BY <2>1
<1> HIDE DEF h
<1>15. box = Grow([lo |-> CeilDiv(Min(xs), Q), hi |-> Max(xs) \div Q + 1], h + 2 * Q)
  BY <1>13 DEF Around
<1>16. Reads(p.x + sample, box)
  <2> HIDE DEF box
  <2> QED
    BY <1>12, <1>13, <1>14, <1>15, RefReads
<1>17. DOMAIN seeds = 1 .. N /\ \A i \in 1 .. N : seeds[i] = SeedMeant(rows[i].id) /\ seeds[i] \in Int
  <2>1. \A i \in 1 .. N : SeedOf(field, rows[i].id) = SeedMeant(rows[i].id) /\ SeedOf(field, rows[i].id) \in Int
    BY <1>9, SeedFacts
  <2> QED
    BY <1>4, <2>1
<1> HIDE DEF seeds
<1>18. Median(seeds) \in Int /\ Spread(seeds) \in Int
       /\ Median(seeds) - seeds[j] <= Spread(seeds) /\ seeds[j] - Median(seeds) <= Spread(seeds)
  BY <1>10, <1>17, MedianFacts, SpreadFacts
<1> DEFINE m == Median(seeds)
           s == Spread(seeds)
           e == SeedMeant(p.id) - m
<1>19. e \in Int /\ -s <= e /\ e <= s /\ m \in Int /\ s \in Int /\ SeedMeant(p.id) \in Int
  <2>1. seeds[j] = SeedMeant(p.id) /\ seeds[j] \in Int
    BY <1>8, <1>17
  <2> HIDE DEF m, s
  <2>2. m \in Int /\ s \in Int /\ m - seeds[j] <= s /\ seeds[j] - m <= s
    BY <1>18 DEF m, s
  <2> QED
    BY <2>1, <2>2
<1>20. p.x + sample + SeedMeant(p.id) + move = p.x + (sample + move) + m + e
  <2>1. sample \in Int /\ move \in Int /\ p.x \in Int
    BY <1>12, <1>14, ReachAssumption
  <2> HIDE DEF m
  <2> QED
    BY <1>19, <2>1
<1>21. Reads(p.x + sample + SeedMeant(p.id) + move, Grow(Shift(box, m), s))
  <2> DEFINE d == sample + move
  <2>1. d \in Int /\ -h <= d /\ d <= h
    BY <1>14
  <2> HIDE DEF box, m, s, e, d
  <2>2. Reads(p.x + d + m + e, Grow(Shift(box, m), s))
    BY <1>12, <1>13, <1>15, <1>19, <2>1, DefReads
  <2> QED
    BY <1>20, <2>2 DEF d
<1> QED
  BY <1>6, <1>16, <1>21

\* plan_tiles and RunConfig.halo.  No point is lost to the edge of a brick.
THEOREM BricksCoverCorrect == Spec => []BricksCover
<1>1. StaticInv => BricksCover
  <2> SUFFICES ASSUME StaticInv, plan # None
               PROVE  BricksCover
    BY DEF BricksCover
  <2>1. Planned /\ field \in Fields
    BY DEF StaticInv
  <2> QED
    BY <2>1, PlannedBricks DEF BricksCover
<1> QED
  BY <1>1, StaticCorrect, PTL

(***************************************************************************)
(* The batches of a tile.                                                  *)
(***************************************************************************)
LEMMA DivFacts ==
  ASSUME NEW x \in Int, NEW d \in Nat \ {0}
  PROVE  x \div d \in Int /\ (x \div d) * d <= x /\ x < (x \div d) * d + d
OBVIOUS

LEMMA DivBelow ==
  ASSUME NEW x \in Int, NEW d \in Nat \ {0}, NEW b \in Int, x < b * d
  PROVE  x \div d < b
<1> DEFINE q == x \div d
<1>1. q \in Int /\ q * d <= x
  BY DivFacts
<1> HIDE DEF q
<1>2. SUFFICES ASSUME q >= b
               PROVE  FALSE
  BY <1>1 DEF q
<1>3. q * d >= b * d
  <2>1. q - b \in Nat /\ (q - b) * d >= 0 /\ (q - b) * d = q * d - b * d
    BY <1>1, <1>2
  <2>2. q * d \in Int /\ b * d \in Int
    BY <1>1
  <2> QED
    BY <2>1, <2>2
<1>4. q * d \in Int /\ b * d \in Int
  BY <1>1
<1> QED
  BY <1>1, <1>3, <1>4

LEMMA DivAtLeast ==
  ASSUME NEW x \in Int, NEW d \in Nat \ {0}, NEW b \in Int, b * d <= x
  PROVE  b <= x \div d
<1> DEFINE q == x \div d
<1>1. q \in Int /\ x < q * d + d
  BY DivFacts
<1> HIDE DEF q
<1>2. SUFFICES ASSUME q + 1 <= b
               PROVE  FALSE
  BY <1>1 DEF q
<1>3. q * d + d <= b * d
  <2>1. b - (q + 1) \in Nat /\ (b - (q + 1)) * d >= 0 /\ (b - (q + 1)) * d = b * d - (q * d + d)
    BY <1>1, <1>2
  <2>2. q * d \in Int /\ b * d \in Int
    BY <1>1
  <2> QED
    BY <2>1, <2>2
<1>4. q * d \in Int /\ b * d \in Int
  BY <1>1
<1> QED
  BY <1>1, <1>3, <1>4

\* Every element of an order is in a batch.
LEMMA BatchesCover ==
  ASSUME NEW S, NEW order \in Seq(S), NEW y \in 1 .. Len(order)
  PROVE  /\ DOMAIN Batches(order) = 1 .. CeilDiv(Len(order), Batch) /\ CeilDiv(Len(order), Batch) \in Int
         /\ \E b \in DOMAIN Batches(order) : \E k \in DOMAIN Batches(order)[b] : Batches(order)[b][k] = order[y]
<1> DEFINE N == Len(order)
           b == (y - 1) \div Batch + 1
           B == CeilDiv(N, Batch)
           lo == (b - 1) * Batch + 1
           hi == Min({b * Batch, N})
<1>1. Batch \in Nat \ {0} /\ N \in Nat /\ y \in Int /\ 1 <= y /\ y <= N
  BY SizesAssumption
<1> HIDE DEF N
<1>2. /\ b \in Int /\ (b - 1) * Batch \in Int /\ b * Batch \in Int
      /\ (b - 1) * Batch <= y - 1 /\ y - 1 < (b - 1) * Batch + Batch /\ b * Batch = (b - 1) * Batch + Batch
  <2> DEFINE q == (y - 1) \div Batch
  <2>1. q \in Int /\ q * Batch <= y - 1 /\ y - 1 < q * Batch + Batch
    <3>1. y - 1 \in Int
      BY <1>1
    <3> HIDE DEF q
    <3> QED
      BY <1>1, <3>1, DivFacts DEF q
  <2> HIDE DEF q
  <2>2. b = q + 1
    BY DEF q
  <2>3. (q + 1) - 1 = q /\ (q + 1) * Batch = q * Batch + Batch /\ q * Batch \in Int
    BY <1>1, <2>1
  <2> HIDE DEF b
  <2> QED
    BY <1>1, <2>1, <2>2, <2>3
<1>3. B \in Int /\ N <= B * Batch
  <2> DEFINE q == (-N) \div Batch
  <2>1. q \in Int /\ q * Batch <= -N
    <3>1. -N \in Int
      BY <1>1
    <3> QED
      BY <1>1, <3>1, DivFacts
  <2> HIDE DEF q
  <2>2. B = -q
    BY DEF CeilDiv, q
  <2>3. (-q) * Batch = -(q * Batch) /\ q * Batch \in Int
    BY <1>1, <2>1
  <2> HIDE DEF B
  <2> QED
    BY <1>1, <2>1, <2>2, <2>3
<1>4. b \in 1 .. B
  <2>1. 0 <= (y - 1) \div Batch
    <3>1. y - 1 \in Int /\ 0 * Batch <= y - 1 /\ 0 \in Int
      BY <1>1
    <3> QED
      BY <1>1, <3>1, DivAtLeast
  <2>2. (y - 1) \div Batch < B
    <3>1. y - 1 \in Int /\ y - 1 < B * Batch /\ B * Batch \in Int
      <4>1. B * Batch \in Int
        BY <1>1, <1>3
      <4> HIDE DEF B
      <4> QED
        BY <1>1, <1>3, <4>1
    <3> HIDE DEF B
    <3> QED
      BY <1>1, <1>3, <3>1, DivBelow
  <2>3. (y - 1) \div Batch \in Int
    BY <1>1
  <2> HIDE DEF B
  <2> QED
    BY <1>3, <2>1, <2>2, <2>3
<1>5. DOMAIN Batches(order) = 1 .. B /\ Batches(order)[b] = SubSeq(order, lo, hi)
  <2>1. DOMAIN Batches(order) = 1 .. B
    BY DEF Batches, N
  <2>2. \A c \in 1 .. B : Batches(order)[c] = SubSeq(order, (c - 1) * Batch + 1, Min({c * Batch, N}))
    BY DEF Batches, N
  <2> HIDE DEF b, B
  <2> QED
    BY <1>4, <2>1, <2>2
<1> HIDE DEF b, B
<1>6. hi = IF b * Batch <= N THEN b * Batch ELSE N
  BY <1>1, <1>2, MinOfTwo
<1>7. lo \in Nat /\ hi \in Nat /\ 1 <= lo /\ lo <= y /\ y <= hi /\ hi <= N
  <2>1. (b - 1) * Batch >= 0
    <3>1. b - 1 \in Nat
      BY <1>2, <1>4
    <3> HIDE DEF b
    <3> QED
      BY <1>1, <3>1
  <2> DEFINE u == (b - 1) * Batch  v == b * Batch
  <2>2. u \in Int /\ v \in Int /\ u <= y - 1 /\ y - 1 < u + Batch /\ v = u + Batch /\ u >= 0
        /\ lo = u + 1 /\ hi = IF v <= N THEN v ELSE N
    BY <1>2, <1>6, <2>1
  <2> HIDE DEF u, v, lo, hi
  <2> QED
    BY <1>1, <2>2
<1> HIDE DEF lo, hi
<1> DEFINE k == y - lo + 1
           batch == SubSeq(order, lo, hi)
<1>8. k \in 1 .. hi - lo + 1 /\ lo + k - 1 = y
  BY <1>1, <1>7
<1>9. DOMAIN batch = 1 .. hi - lo + 1 /\ \A x \in 1 .. hi - lo + 1 : batch[x] = order[lo + x - 1]
  BY <1>7 DEF N
<1> HIDE DEF k, batch
<1>10. k \in DOMAIN batch /\ batch[k] = order[y]
  BY <1>8, <1>9
<1>11. b \in DOMAIN Batches(order)
  BY <1>4, <1>5
<1>12. Batches(order)[b] = batch
  BY <1>5 DEF batch
<1>13. \E c \in DOMAIN Batches(order) : \E l \in DOMAIN Batches(order)[c] : Batches(order)[c][l] = order[y]
  BY <1>10, <1>11, <1>12
<1> QED
  BY <1>3, <1>5, <1>13 DEF B, N

LEMMA MortonFacts ==
  ASSUME NEW rows, NEW N \in Nat, Len(rows) = N, DOMAIN rows = 1 .. N, \A i \in 1 .. N : rows[i].x \in Int
  PROVE  LET o == MortonOrder(rows) IN
         o \in Seq(1 .. N) /\ Len(o) = N /\ Range(o) = 1 .. N /\ DOMAIN o = 1 .. N
<1> DEFINE D == DOMAIN rows
           xs == {rows[j].x : j \in D}
           key == [i \in D |-> (rows[i].x - Min(xs)) \div Q]
           o == Sorted(D, key)
<1>1. D = 1 .. N /\ IsFiniteSet(1 .. N) /\ Cardinality(1 .. N) = N
  <2>1. IsFiniteSet(1 .. N) /\ Cardinality(1 .. N) = IF 1 > N THEN 0 ELSE N - 1 + 1
    BY FS_Interval
  <2>2. Cardinality(1 .. N) = N
    BY <2>1
  <2> QED
    BY <2>1, <2>2
<1>2. xs \in SUBSET Int /\ IsFiniteSet(xs)
  <2> DEFINE f == [i \in 1 .. N |-> rows[i].x]
  <2>1. xs = {f[i] : i \in 1 .. N} /\ \A i \in 1 .. N : f[i] \in Int
    OBVIOUS
  <2> HIDE DEF xs, f
  <2> QED
    BY <1>1, <2>1, ImageFinite
<1>3. ASSUME NEW i \in D
      PROVE  key[i] \in Int
  <2>1. rows[i].x \in Int /\ rows[i].x \in xs
    OBVIOUS
  <2> HIDE DEF xs
  <2>2. Min(xs) \in Int
    BY <1>2, <2>1, MinFacts
  <2>3. key[i] = (rows[i].x - Min(xs)) \div 4
    BY DEF Q
  <2> HIDE DEF key
  <2> QED
    BY <2>1, <2>2, <2>3
<1>4. MortonOrder(rows) = o
  BY DEF MortonOrder
<1> HIDE DEF D, key, xs
<1>5. Keys(D, key)
  <2>1. D \in SUBSET Int
    BY <1>1
  <2> QED
    BY <1>1, <1>3, <2>1 DEF Keys
<1>6. /\ Len(o) = Cardinality(D) /\ o \in Seq(D) /\ DOMAIN o = 1 .. Cardinality(D)
      /\ \A i, j \in DOMAIN o : i < j <=> Less(key, o[i], o[j])
      /\ Range(o) = D
  BY <1>5, SortedFacts
<1> HIDE DEF o
<1> QED
  BY <1>1, <1>4, <1>6

Results == [id : Int, seed : Int \union {None}]

\* solve_tile: the result in each row is that of the point there.
LEMMA SolveTileFacts ==
  ASSUME field \in Fields, NEW rows, NEW N \in Nat, Len(rows) = N, DOMAIN rows = 1 .. N,
         \A i \in 1 .. N : rows[i].x \in Int /\ rows[i].id \in Int
  PROVE  /\ SolveTile(rows) \in [1 .. N -> Results]
         /\ \A i \in 1 .. N : SolveTile(rows)[i] = [id |-> rows[i].id, seed |-> SeedMeant(rows[i].id)]
<1> DEFINE order == MortonOrder(rows)
           batches == Batches(order)
           having(i) == {b \in DOMAIN batches : i \in Range(batches[b])}
           solve(batch) == [k \in DOMAIN batch |->
             [id |-> rows[batch[k]].id, seed |-> SeedOf(field, rows[batch[k]].id)]]
           last(i) == batches[Max(having(i))]
           at(i) == CHOOSE k \in DOMAIN last(i) : last(i)[k] = i
           out(i) == IF having(i) = {} THEN None ELSE solve(last(i))[at(i)]
           result(i) == [id |-> rows[i].id, seed |-> SeedMeant(rows[i].id)]
<1>1. order \in Seq(1 .. N) /\ Len(order) = N /\ Range(order) = 1 .. N /\ DOMAIN order = 1 .. N
  BY MortonFacts
<1>2. SolveTile(rows) = [i \in 1 .. N |-> out(i)]
  BY DEF SolveTile
<1> HIDE DEF order
<1>3. ASSUME NEW i \in 1 .. N
      PROVE  out(i) = result(i) /\ result(i) \in Results
  <2>1. PICK y \in 1 .. Len(order) : order[y] = i
    BY <1>1 DEF Range
  <2>2. /\ DOMAIN batches = 1 .. CeilDiv(Len(order), Batch) /\ CeilDiv(Len(order), Batch) \in Int
        /\ \E b \in DOMAIN batches : \E k \in DOMAIN batches[b] : batches[b][k] = order[y]
    BY <1>1, BatchesCover
  <2> HIDE DEF batches
  <2>3. having(i) # {}
    <3>1. PICK b \in DOMAIN batches : \E k \in DOMAIN batches[b] : batches[b][k] = i
      BY <2>1, <2>2
    <3>2. i \in Range(batches[b])
      BY <3>1 DEF Range
    <3> QED
      BY <3>2
  <2>4. having(i) \in SUBSET Int /\ IsFiniteSet(having(i))
    <3> DEFINE C == CeilDiv(Len(order), Batch)
    <3>1. having(i) \subseteq 1 .. C /\ C \in Int
      BY <2>2
    <3>2. IsFiniteSet(1 .. C) /\ 1 .. C \subseteq Int
      <4> HIDE DEF C
      <4> QED
        BY <3>1, FS_Interval
    <3> HIDE DEF C, having
    <3> QED
      BY <3>1, <3>2, FS_Subset
  <2>5. Max(having(i)) \in having(i)
    <3> HIDE DEF having
    <3> QED
      BY <2>3, <2>4, MaxFacts
  <2>6. i \in Range(last(i))
    BY <2>5
  <2>7. at(i) \in DOMAIN last(i) /\ last(i)[at(i)] = i
    <3> HIDE DEF last
    <3>1. \E k \in DOMAIN last(i) : last(i)[k] = i
      BY <2>6 DEF Range
    <3> QED
      BY <3>1
  <2>8. out(i) = solve(last(i))[at(i)]
    <3> HIDE DEF having, solve, last, at
    <3> QED
      BY <2>3
  <2>9. solve(last(i))[at(i)] = [id |-> rows[last(i)[at(i)]].id, seed |-> SeedOf(field, rows[last(i)[at(i)]].id)]
    <3> HIDE DEF last, at
    <3> QED
      BY <2>7
  <2>10. SeedOf(field, rows[i].id) = SeedMeant(rows[i].id) /\ SeedMeant(rows[i].id) \in Int
    BY SeedFacts
  <2>11. out(i) = [id |-> rows[i].id, seed |-> SeedOf(field, rows[i].id)]
    <3> HIDE DEF out, last, at, solve
    <3> QED
      BY <2>7, <2>8, <2>9
  <2> HIDE DEF out
  <2> QED
    BY <2>10, <2>11 DEF Results
<1> HIDE DEF out, result
<1>4. SolveTile(rows) \in [1 .. N -> Results] /\ \A i \in 1 .. N : SolveTile(rows)[i] = result(i)
  BY <1>2, <1>3
<1> QED
  BY <1>4 DEF result

\* _write_results: each row finds the result of its point among all of them.
LEMMA FoundFacts ==
  ASSUME Imported, NEW rows, NEW N \in Nat, Len(rows) = N, DOMAIN rows = 1 .. N,
         \A i \in 1 .. N : \E k \in DOMAIN Points(roi) : rows[i] = Points(roi)[k]
  PROVE  /\ Found(rows) \in [1 .. N -> Results]
         /\ \A i \in 1 .. N : Found(rows)[i] = [id |-> rows[i].id, seed |-> None]
<1> DEFINE P == Points(roi)
           D == {P[k].id : k \in DOMAIN P}
           ids == Ascending(D)
           result(i) == [id |-> ids[Cardinality({j \in Range(ids) : j < rows[i].id}) + 1], seed |-> None]
<1>1. Good(P)
  BY StoreFacts
<1>2. D \in SUBSET Int /\ IsFiniteSet(D)
  <2> DEFINE f == [k \in DOMAIN P |-> P[k].id]
  <2> HIDE DEF P
  <2>1. IsFiniteSet(DOMAIN P) /\ \A k \in DOMAIN P : P[k].id \in Int
    BY <1>1, FS_Interval DEF Good
  <2>2. D = {f[k] : k \in DOMAIN P}
    OBVIOUS
  <2>3. D \subseteq Int
    BY <2>1
  <2> HIDE DEF f, D
  <2> QED
    BY <2>1, <2>2, <2>3, ImageFinite
<1>3. Found(rows) = [i \in 1 .. N |-> result(i)]
  BY DEF Found
<1>4. ASSUME NEW i \in 1 .. N
      PROVE  result(i) = [id |-> rows[i].id, seed |-> None] /\ rows[i].id \in Int
  <2>1. rows[i].id \in D
    OBVIOUS
  <2> HIDE DEF D
  <2>2. rows[i].id \in Int /\ D # {}
    BY <1>2, <2>1
  <2>3. Range(ids) = D
    BY <1>2, AscendingFacts
  <2>4. /\ ids[Min({Cardinality({j \in D : j < rows[i].id}) + 1, Len(ids)})] = rows[i].id
        /\ Cardinality({j \in D : j < rows[i].id}) + 1 = Min({Cardinality({j \in D : j < rows[i].id}) + 1, Len(ids)})
    BY <1>2, <2>1, <2>2, SearchFacts
  <2> HIDE DEF ids
  <2>5. ids[Cardinality({j \in D : j < rows[i].id}) + 1] = rows[i].id
    BY <2>4
  <2> QED
    BY <2>2, <2>3, <2>5
<1> HIDE DEF result
<1>5. \A i \in 1 .. N : result(i) \in Results
  BY <1>4 DEF Results
<1> QED
  BY <1>3, <1>4, <1>5

\* A tile cut at its cells: row i of a cell is the result of the cell's row i.
LEMMA CutFacts ==
  ASSUME Planned, NEW t \in TileIds, NEW c \in Range(plan.tiles[t].cells), NEW out,
         out \in [1 .. Len(ReadTile(plan.tiles[t].cells)) -> Results]
  PROVE  LET r == CellResults(t, out)[c]
             rows == ReadTile(plan.tiles[t].cells) IN
         /\ c \in DOMAIN store
         /\ Len(r) = Len(store[c].rows) /\ DOMAIN r = 1 .. Len(store[c].rows)
         /\ \A i \in 1 .. Len(store[c].rows) : \E y \in 1 .. Len(rows) :
              r[i] = out[y] /\ rows[y] = store[c].rows[i]
<1> DEFINE cells == TileCells(t)
           rows == ReadTile(cells)
           first(j) == Len(ReadTile(SubSeq(cells, 1, j - 1)))
           j == CHOOSE j \in DOMAIN cells : cells[j] = c
<1>1. Tiled /\ Imported /\ plan.tiles = PlanTiles
  BY DEF Planned, Tiled
<1>2. t \in DOMAIN Groups /\ plan.tiles[t].cells = cells
  BY <1>1, TileFacts DEF TileIds
<1>3. cells \in Seq(DOMAIN store) /\ c \in Range(cells)
  BY <1>1, <1>2, TileCellsFacts
<1>4. CellResults(t, out)[c] = SubSeq(out, first(j) + 1, first(j + 1))
  <2> HIDE DEF cells
  <2> QED
    BY <1>2, <1>3 DEF CellResults
<1> HIDE DEF cells
<1>5. j \in DOMAIN cells /\ cells[j] = c
  <2>1. \E i \in DOMAIN cells : cells[i] = c
    BY <1>3 DEF Range
  <2> QED
    BY <2>1
<1> HIDE DEF j
<1>6. PICK f : Reading(cells, f)
  BY <1>1, <1>3, ReadFacts
<1>7. j \in 1 .. Len(cells) /\ j - 1 \in 0 .. Len(cells) /\ (j + 1) - 1 = j /\ j \in 0 .. Len(cells) /\ c \in DOMAIN store
  <2>1. DOMAIN cells = 1 .. Len(cells) /\ Len(cells) \in Nat
    BY <1>3
  <2>2. cells[j] \in DOMAIN store
    BY <1>3, <1>5
  <2> QED
    BY <1>5, <2>1, <2>2
<1>8. first(j) = Len(f[j - 1]) /\ first(j + 1) = Len(f[j])
  <2>1. ReadTile(SubSeq(cells, 1, j - 1)) = f[j - 1] /\ ReadTile(SubSeq(cells, 1, j)) = f[j]
    BY <1>6, <1>7 DEF Reading
  <2>2. ReadTile(SubSeq(cells, 1, (j + 1) - 1)) = f[j]
    BY <1>7, <2>1
  <2> QED
    BY <2>1, <2>2
<1>9. RowsAt(cells, f, j) /\ ReadTile(cells) = f[Len(cells)] /\ Len(f[j - 1]) \in Nat /\ Len(f[j]) \in Nat
      /\ Len(f[Len(cells)]) \in Nat
  <2>1. Len(cells) \in 0 .. Len(cells)
    BY <1>7
  <2> QED
    BY <1>1, <1>3, <1>6, <1>7, <2>1, ReadRows
<1> HIDE DEF first
<1> DEFINE a == Len(f[j - 1])
           b == Len(f[j])
           d == Len(f[Len(cells)])
           l == Len(store[c].rows)
           r == SubSeq(out, a + 1, b)
<1>10. a \in Nat /\ b \in Nat /\ d \in Nat /\ l \in Nat /\ b = a + l /\ b <= d /\ Len(rows) = d
  BY <1>5, <1>9 DEF RowsAt
<1>11. \A i \in 1 .. l : rows[a + i] = store[c].rows[i]
  BY <1>5, <1>9 DEF RowsAt
<1>12. CellResults(t, out)[c] = r
  BY <1>4, <1>8
<1>13. out \in [1 .. d -> Results]
  BY <1>2, <1>10
<1> HIDE DEF a, b, d, l, r, rows
<1>14. out \in Seq(Results) /\ Len(out) = d
  BY <1>10, <1>13, FunLen
<1>15. Len(r) = l /\ DOMAIN r = 1 .. l /\ \A i \in 1 .. l : r[i] = out[a + i]
  <2>1. b - (a + 1) + 1 = l /\ a + 1 \in 1 .. d + 1 /\ b \in 0 .. d
    BY <1>10
  <2>2. Len(r) = l /\ DOMAIN r = 1 .. l
    BY <1>10, <1>14, <2>1 DEF r
  <2>3. ASSUME NEW i \in 1 .. l
        PROVE  r[i] = out[a + i]
    <3>1. (a + 1) + i - 1 = a + i /\ i \in 1 .. (b - (a + 1) + 1)
      BY <1>10, <2>1
    <3>2. r[i] = out[(a + 1) + i - 1]
      BY <1>10, <1>14, <2>1, <3>1 DEF r
    <3> QED
      BY <3>1, <3>2
  <2> QED
    BY <2>2, <2>3
<1>16. ASSUME NEW i \in 1 .. l
       PROVE  \E y \in 1 .. d : r[i] = out[y] /\ rows[y] = store[c].rows[i]
  <2>1. a + i \in 1 .. d
    BY <1>10
  <2> QED
    BY <1>11, <1>15, <2>1
<1> QED
  BY <1>2, <1>7, <1>10, <1>12, <1>15, <1>16 DEF l, rows

\* The results of a cell are those of its rows.
SolvedCell(c, results) ==
  /\ Len(results) = Len(store[c].rows)
  /\ \A i \in DOMAIN results :
       /\ results[i] # None
       /\ results[i].id = store[c].rows[i].id
       /\ results[i].seed = SeedMeant(results[i].id) \/ (field = None /\ results[i].seed = None)

\* The rows of a tile are points of the file.
LEMMA TileRows ==
  ASSUME Planned, NEW t \in TileIds
  PROVE  LET rows == ReadTile(plan.tiles[t].cells) IN
         /\ Imported /\ Len(rows) \in Nat /\ DOMAIN rows = 1 .. Len(rows)
         /\ \A i \in 1 .. Len(rows) : \E k \in DOMAIN Points(roi) : rows[i] = Points(roi)[k]
         /\ \A i \in 1 .. Len(rows) : rows[i].x \in Int /\ rows[i].id \in Int
<1> DEFINE P == Points(roi)
           cells == TileCells(t)
           rows == ReadTile(cells)
<1>1. Tiled /\ Imported /\ plan.tiles = PlanTiles
  BY DEF Planned, Tiled
<1>2. t \in DOMAIN Groups /\ plan.tiles[t].cells = cells
  BY <1>1, TileFacts DEF TileIds
<1>3. cells \in Seq(DOMAIN store)
  BY <1>1, <1>2, TileCellsFacts
<1>4. Len(rows) \in Nat /\ DOMAIN rows = 1 .. Len(rows) /\ rows \in Seq(Range(P))
  BY <1>1, <1>3, ReadRange
<1>5. Good(P)
  BY <1>1, StoreFacts
<1> HIDE DEF rows, P
<1>6. \A i \in 1 .. Len(rows) : \E k \in DOMAIN P : rows[i] = P[k]
  BY <1>4 DEF Range
<1>7. \A k \in DOMAIN P : P[k].x \in Int /\ P[k].id \in Int
  BY <1>5, CellOfFacts DEF Good
<1>8. \A i \in 1 .. Len(rows) : rows[i].x \in Int /\ rows[i].id \in Int
  BY <1>6, <1>7
<1> QED
  BY <1>1, <1>2, <1>4, <1>6, <1>8 DEF rows, P

\* Cells cut from results that are right row by row are right.
LEMMA CutSolved ==
  ASSUME Planned, NEW t \in TileIds, NEW c \in Range(plan.tiles[t].cells), NEW out,
         out \in [1 .. Len(ReadTile(plan.tiles[t].cells)) -> Results],
         \A y \in 1 .. Len(ReadTile(plan.tiles[t].cells)) :
           \/ out[y] = [id |-> ReadTile(plan.tiles[t].cells)[y].id,
                        seed |-> SeedMeant(ReadTile(plan.tiles[t].cells)[y].id)]
           \/ field = None /\ out[y] = [id |-> ReadTile(plan.tiles[t].cells)[y].id, seed |-> None]
  PROVE  c \in DOMAIN store /\ SolvedCell(c, CellResults(t, out)[c])
<1> DEFINE rows == ReadTile(plan.tiles[t].cells)
           r == CellResults(t, out)[c]
           own == store[c].rows
<1>1. c \in DOMAIN store /\ Len(r) = Len(own) /\ DOMAIN r = 1 .. Len(own)
      /\ \A i \in 1 .. Len(own) : \E y \in 1 .. Len(rows) : r[i] = out[y] /\ rows[y] = own[i]
  BY CutFacts
<1>2. \A y \in 1 .. Len(rows) : out[y] \in Results
  OBVIOUS
<1>3. \A y \in 1 .. Len(rows) :
        \/ out[y] = [id |-> rows[y].id, seed |-> SeedMeant(rows[y].id)]
        \/ field = None /\ out[y] = [id |-> rows[y].id, seed |-> None]
  OBVIOUS
<1> HIDE DEF rows, r, own
<1>4. ASSUME NEW i \in DOMAIN r
      PROVE  /\ r[i] # None /\ r[i].id = own[i].id
             /\ r[i].seed = SeedMeant(r[i].id) \/ (field = None /\ r[i].seed = None)
  <2>1. PICK y \in 1 .. Len(rows) : r[i] = out[y] /\ rows[y] = own[i]
    BY <1>1
  <2>2. r[i] # None
    BY <1>2, <2>1, NoneAssumption DEF Results
  <2>3. \/ r[i] = [id |-> own[i].id, seed |-> SeedMeant(own[i].id)]
        \/ field = None /\ r[i] = [id |-> own[i].id, seed |-> None]
    BY <1>3, <2>1
  <2> QED
    BY <2>2, <2>3
<1> QED
  BY <1>1, <1>4 DEF SolvedCell, r, own

SolvedInv == \A c \in DOMAIN written : c \in DOMAIN store /\ SolvedCell(c, written[c])

\* Cells written over the others.
LEMMA OverSolved ==
  ASSUME SolvedInv, NEW new, \A c \in DOMAIN new : c \in DOMAIN store /\ SolvedCell(c, new[c]),
         written' = Over(new, written), UNCHANGED <<store, field>>
  PROVE  SolvedInv'
<1>1. ASSUME NEW c \in DOMAIN written'
      PROVE  c \in DOMAIN store /\ SolvedCell(c, written'[c])
  <2>1. c \in DOMAIN new \union DOMAIN written
        /\ written'[c] = IF c \in DOMAIN new THEN new[c] ELSE written[c]
    BY DEF Over
  <2> QED
    BY <2>1 DEF SolvedInv
<1>2. ASSUME NEW c \in DOMAIN written'
      PROVE  SolvedCell(c, written[c])'
  <2>1. SolvedCell(c, written'[c])
    BY <1>1
  <2> QED
    BY <2>1 DEF SolvedCell, SeedMeant
<1>3. \A c \in DOMAIN written' : c \in DOMAIN store'
  BY <1>1
<1> QED
  BY <1>2, <1>3 DEF SolvedInv

LEMMA SolvedStep ==
  ASSUME StaticInv, JobInv, SolvedInv, [Next]_vars
  PROVE  SolvedInv'
<1>1. ASSUME UNCHANGED <<store, field, written>>
      PROVE  SolvedInv'
  BY <1>1 DEF SolvedInv, SolvedCell, SeedMeant
<1>2. CASE Import
  <2>1. pc = "import" /\ UNCHANGED job
    BY <1>2 DEF Import
  <2>2. written' = <<>>
    BY <2>1 DEF StaticInv, job
  <2> QED
    BY <2>2 DEF SolvedInv
<1>3. CASE Plan \/ Submit \/ UNCHANGED vars
  <2>1. UNCHANGED <<store, field, written>>
    BY <1>3 DEF Plan, Submit, vars, inputs, job
  <2> QED
    BY <1>1, <2>1
<1>4. CASE WriteResults
  <2>1. pc = "jobs" /\ field = None /\ UNCHANGED <<store, field>>
    BY <1>4 DEF WriteResults, inputs
  <2>2. Planned
    BY <2>1 DEF StaticInv
  <2>3. PICK m \in TileIds :
          LET tile(c) == CHOOSE t \in 1 .. m : c \in Range(plan.tiles[t].cells)
          IN  written' = Over([c \in UNION {Range(plan.tiles[t].cells) : t \in 1 .. m} |->
                                 CellResults(tile(c), Found(ReadTile(plan.tiles[tile(c)].cells)))[c]], written)
    BY <1>4 DEF WriteResults
  <2> DEFINE tile(c) == CHOOSE t \in 1 .. m : c \in Range(plan.tiles[t].cells)
             all == UNION {Range(plan.tiles[t].cells) : t \in 1 .. m}
             cut(t, c) == CellResults(t, Found(ReadTile(plan.tiles[t].cells)))[c]
             new == [c \in all |-> cut(tile(c), c)]
  <2>4. written' = Over(new, written)
    BY <2>3
  <2>5. 1 .. m \subseteq TileIds
    <3>1. Tiled /\ plan.tiles = PlanTiles
      BY <2>2 DEF Planned
    <3>2. TileIds = 1 .. Len(PlanTiles) /\ Len(PlanTiles) \in Nat
      BY <3>1, TileFacts DEF TileIds
    <3> QED
      BY <3>2
  <2>6. ASSUME NEW t \in TileIds, NEW c \in Range(plan.tiles[t].cells)
        PROVE  c \in DOMAIN store /\ SolvedCell(c, cut(t, c))
    <3> DEFINE rows == ReadTile(plan.tiles[t].cells)
               out == Found(rows)
    <3>1. /\ Imported /\ Len(rows) \in Nat /\ DOMAIN rows = 1 .. Len(rows)
          /\ \A i \in 1 .. Len(rows) : \E k \in DOMAIN Points(roi) : rows[i] = Points(roi)[k]
      BY <2>2, TileRows
    <3>2. out \in [1 .. Len(rows) -> Results] /\ \A i \in 1 .. Len(rows) : out[i] = [id |-> rows[i].id, seed |-> None]
      <4> HIDE DEF rows
      <4> QED
        BY <3>1, FoundFacts
    <3>3. cut(t, c) = CellResults(t, out)[c]
      OBVIOUS
    <3> HIDE DEF out
    <3>4. c \in DOMAIN store /\ SolvedCell(c, CellResults(t, out)[c])
      BY <2>1, <2>2, <3>2, CutSolved
    <3> QED
      BY <3>3, <3>4
  <2>7. ASSUME NEW c \in DOMAIN new
        PROVE  c \in DOMAIN store /\ SolvedCell(c, new[c])
    <3>1. c \in all /\ new[c] = cut(tile(c), c)
      <4> HIDE DEF all, tile, cut
      <4> QED
        OBVIOUS
    <3>2. tile(c) \in 1 .. m /\ c \in Range(plan.tiles[tile(c)].cells)
      <4>1. \E t \in 1 .. m : c \in Range(plan.tiles[t].cells)
        BY <3>1
      <4> QED
        BY <4>1
    <3> HIDE DEF tile, cut, new, all
    <3> QED
      BY <2>5, <2>6, <3>1, <3>2
  <2> HIDE DEF new
  <2> QED
    BY <2>1, <2>4, <2>7, OverSolved
<1>5. ASSUME NEW k \in 1 .. MaxNodes, SolveNext(k)
      PROVE  SolvedInv'
  <2> DEFINE t == Head(todo[k])
             rows == ReadTile(plan.tiles[t].cells)
             out == SolveTile(rows)
  <2>1. k \in running /\ todo[k] # <<>> /\ UNCHANGED <<store, field>>
    BY <1>5 DEF SolveNext, inputs
  <2>2. pc = "jobs" /\ Planned /\ field \in Fields
    BY <2>1 DEF StaticInv
  <2>3. t \in TileIds
    <3>1. k \in 1 .. n /\ n \in NodeCounts
      BY <2>1 DEF JobInv
    <3>2. n # 0
      BY <3>1, CountFacts
    <3>3. todo[k] \in Seq(Range(Share(k, n)))
      BY <3>1, <3>2 DEF JobInv
    <3>4. t \in Range(Share(k, n))
      BY <2>1, <3>3
    <3> DEFINE share == [l \in 1 .. n |-> Share(l, n)]
    <3>5. Shared(share, n, Len(plan.tiles)) /\ TileIds = 1 .. Len(plan.tiles)
      BY <2>2, <3>1, ShareFacts
    <3>6. share[k] \in Seq(1 .. Len(plan.tiles)) /\ share[k] = Share(k, n)
      BY <3>1, <3>5 DEF Shared
    <3>7. Range(Share(k, n)) \subseteq 1 .. Len(plan.tiles)
      <4>1. Share(k, n) \in Seq(1 .. Len(plan.tiles))
        BY <3>6
      <4> QED
        BY <4>1, RangeSeq
    <3> HIDE DEF t
    <3> QED
      BY <3>4, <3>5, <3>7
  <2> HIDE DEF t
  <2>4. CASE UNCHANGED written
    BY <1>1, <2>1, <2>4
  <2>5. CASE written' = Over(CellResults(t, out), written)
    <3>1. /\ Len(rows) \in Nat /\ DOMAIN rows = 1 .. Len(rows)
          /\ \A i \in 1 .. Len(rows) : rows[i].x \in Int /\ rows[i].id \in Int
      BY <2>2, <2>3, TileRows
    <3>2. /\ out \in [1 .. Len(rows) -> Results]
          /\ \A i \in 1 .. Len(rows) : out[i] = [id |-> rows[i].id, seed |-> SeedMeant(rows[i].id)]
      <4> HIDE DEF rows
      <4> QED
        BY <2>2, <3>1, SolveTileFacts
    <3> HIDE DEF out
    <3>3. DOMAIN CellResults(t, out) = Range(plan.tiles[t].cells)
      BY DEF CellResults
    <3>4. ASSUME NEW c \in Range(plan.tiles[t].cells)
          PROVE  c \in DOMAIN store /\ SolvedCell(c, CellResults(t, out)[c])
      BY <2>2, <2>3, <3>2, CutSolved
    <3> QED
      BY <2>1, <2>5, <3>3, <3>4, OverSolved
  <2> QED
    BY <1>5, <2>4, <2>5 DEF SolveNext, t
<1>6. ASSUME NEW k \in 1 .. MaxNodes, Report(k) \/ Lost(k)
      PROVE  SolvedInv'
  <2>1. UNCHANGED <<store, field, written>>
    BY <1>6 DEF Report, Lost, inputs
  <2> QED
    BY <1>1, <2>1
<1> QED
  BY <1>2, <1>3, <1>4, <1>5, <1>6 DEF Next

\* From the file to the results store.  The results in a row of a cell are those
\* of the point in that row, from its own seed.
THEOREM SolvedOnceCorrect == Spec => []SolvedOnce
<1>1. Init => SolvedInv
  BY DEF Init, SolvedInv
<1>2. StaticInv /\ JobInv /\ SolvedInv /\ [Next]_vars => SolvedInv'
  BY SolvedStep
<1>3. SolvedInv => SolvedOnce
  BY DEF SolvedInv, SolvedCell, SolvedOnce
<1> QED
  BY <1>1, <1>2, <1>3, StaticCorrect, JobCorrect, PTL DEF Spec
=============================================================================
