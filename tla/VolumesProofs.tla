---------------------------- MODULE VolumesProofs ----------------------------
(***************************************************************************)
(* Theorems about Volumes, for any processes, volume, chunks and shards,   *)
(* any boxes, margins and slabs, and any number of starts, kills, faults   *)
(* and openings.                                                           *)
(*                                                                         *)
(* Of the conversions: what is at the destination is whole, nothing but a  *)
(* store is ever replaced, and a whole store is never lost.  A process     *)
(* deletes the store it moved aside when its own is in place; another may  *)
(* have moved that one aside by then, and a third the next.  What makes it *)
(* safe is that, as long as anyone is deleting, a whole store is at the    *)
(* destination or with a process that is not.                              *)
(*                                                                         *)
(* Of the readers: a brick is the box asked for, whichever of the four     *)
(* ways it is read, and the file written from a volume is that volume.     *)
(* Every reader is brought to the same form: the voxel at p of a brick is  *)
(* the one of the volume nearest to the corner plus p.  A reader that      *)
(* copies slab by slab or chunk by chunk writes some places at each turn;  *)
(* whatever it is that all turns that write a place agree on is there at   *)
(* the end.                                                                *)
(***************************************************************************)
EXTENDS Volumes, OrdersProofs

Whereabouts == {"idle", "create", "write", "place", "aside", "replace", "remove", "clean"}

\* The type of the conversions' state.
TypeOK ==
  /\ at \in [Converters -> Whereabouts] /\ DOMAIN tmp = Converters /\ DOMAIN old = Converters
  /\ dst # None => dst = Store(dst.by, dst.rows)
  /\ \A c \in Converters : old[c] # None => old[c] = Store(old[c].by, old[c].rows)

\* A process puts in place what it has written, all of it.
Prepared ==
  \A c \in Converters :
    /\ at[c] = "write" => tmp[c] = Store(c, tmp[c].rows)
    /\ at[c] \in {"place", "aside", "replace"} => tmp[c] = Store(c, ShardRows)
    /\ at[c] \in {"replace", "remove"} => old[c] = Store(old[c].by, old[c].rows) /\ old[c].by # "other"

\* Nobody converts over what is no store.
Respected == (dst # None /\ dst.by = "other") => \A c \in Converters : at[c] = "idle"

\* While stores are deleted, a whole one is where nobody deletes it.
Spared ==
  (\E c \in Converters : at[c] = "remove")
    => IsWhole(dst) \/ \E c \in Converters : at[c] # "remove" /\ IsWhole(old[c])

IInv == TypeOK /\ Prepared /\ Respected /\ Spared /\ DstWhole

(***************************************************************************)
(* Helpers.                                                                *)
(***************************************************************************)
LEMMA StoreFields ==
  ASSUME NEW v, NEW rows
  PROVE  Store(v, rows).by = v /\ Store(v, rows).rows = rows
BY DEF Store

\* What a process places is whole.
LEMMA PlacedWhole ==
  ASSUME NEW c \in Converters
  PROVE  Store(c, ShardRows) # None /\ IsWhole(Store(c, ShardRows))
BY WritersAssumption, StoreFields DEF IsWhole, IsStore

\* A process that goes from one place to another, neither of them where it
\* deletes, and touches no store that anyone keeps.
LEMMA OnlyGoes ==
  ASSUME IInv, NEW c \in Converters, NEW where \in Whereabouts, Goto(c, where),
         UNCHANGED <<dst, old>>, where \notin {"replace", "remove"},
         DOMAIN tmp' = Converters, \A d \in Converters : d # c => tmp'[d] = tmp[d],
         where = "write" => tmp'[c] = Store(c, tmp'[c].rows),
         where \in {"place", "aside"} => tmp'[c] = Store(c, ShardRows),
         (dst # None /\ dst.by = "other") => where = "idle"
  PROVE  TypeOK' /\ Prepared' /\ Respected' /\ Spared'
<1>1. at'[c] = where /\ \A d \in Converters : d # c => at'[d] = at[d]
  BY DEF IInv, TypeOK, Goto
<1>2. TypeOK'
  BY DEF IInv, TypeOK, Goto
<1>3. Prepared'
  <2> SUFFICES ASSUME NEW d \in Converters
               PROVE  /\ at'[d] = "write" => tmp'[d] = Store(d, tmp'[d].rows)
                      /\ at'[d] \in {"place", "aside", "replace"} => tmp'[d] = Store(d, ShardRows)
                      /\ at'[d] \in {"replace", "remove"} => old[d] = Store(old[d].by, old[d].rows) /\ old[d].by # "other"
    BY DEF Prepared
  <2>1. CASE d = c
    BY <1>1, <2>1
  <2>2. CASE d # c
    BY <1>1, <2>2 DEF IInv, Prepared
  <2> QED
    BY <2>1, <2>2
<1>4. Respected'
  BY <1>1 DEF IInv, Respected
<1>5. Spared'
  BY <1>1 DEF IInv, Spared
<1> QED
  BY <1>2, <1>3, <1>4, <1>5

LEMMA ReaderStays == DstWhole /\ UNCHANGED <<dst, old, reader>> => DstWhole'
BY DEF DstWhole

\* A running process runs over no other thing than a store.
LEMMA Running ==
  ASSUME IInv, NEW c \in Converters, at[c] # "idle"
  PROVE  ~(dst # None /\ dst.by = "other")
BY DEF IInv, Respected

(***************************************************************************)
(* Every step of a conversion keeps the invariant.                         *)
(***************************************************************************)
LEMMA StartIInv ==
  ASSUME IInv, NEW c \in Converters, Start(c)
  PROVE  IInv'
<1>1. /\ at[c] = "idle" /\ UNCHANGED <<dst, tmp, old, reader>>
      /\ \/ Goto(c, "idle")
         \/ Goto(c, "create") /\ (dst # None => IsStore(dst))
  BY DEF Start, reading
<1>2. TypeOK' /\ Prepared' /\ Respected' /\ Spared'
  <2>1. CASE Goto(c, "idle")
    BY <1>1, <2>1, OnlyGoes DEF IInv, TypeOK, Whereabouts
  <2>2. CASE Goto(c, "create") /\ (dst # None => IsStore(dst))
    BY <1>1, <2>2, OnlyGoes DEF IInv, TypeOK, Whereabouts, IsStore
  <2> QED
    BY <1>1, <2>1, <2>2
<1> QED
  BY <1>1, <1>2, ReaderStays DEF IInv

LEMMA CreateIInv ==
  ASSUME IInv, NEW c \in Converters, Create(c)
  PROVE  IInv'
<1>1. /\ at[c] = "create" /\ UNCHANGED <<dst, old, reader>>
      /\ \/ tmp' = [tmp EXCEPT ![c] = Store(c, {})] /\ Goto(c, "write")
         \/ tmp' = [tmp EXCEPT ![c] = None] /\ Goto(c, "clean")
  BY DEF Create, reading
<1>2. DOMAIN tmp' = Converters /\ \A d \in Converters : d # c => tmp'[d] = tmp[d]
  BY <1>1 DEF IInv, TypeOK
<1>3. TypeOK' /\ Prepared' /\ Respected' /\ Spared'
  <2>1. CASE tmp' = [tmp EXCEPT ![c] = Store(c, {})] /\ Goto(c, "write")
    <3>1. tmp'[c] = Store(c, tmp'[c].rows)
      BY <2>1, StoreFields DEF IInv, TypeOK
    <3> QED
      BY <1>1, <1>2, <2>1, <3>1, OnlyGoes, Running DEF Whereabouts
  <2>2. CASE tmp' = [tmp EXCEPT ![c] = None] /\ Goto(c, "clean")
    BY <1>1, <1>2, <2>2, OnlyGoes, Running DEF Whereabouts
  <2> QED
    BY <1>1, <2>1, <2>2
<1> QED
  BY <1>1, <1>3, ReaderStays DEF IInv

LEMMA WriteSlabIInv ==
  ASSUME IInv, NEW c \in Converters, WriteSlab(c)
  PROVE  IInv'
<1>1. /\ at[c] = "write" /\ UNCHANGED <<dst, old, reader>>
      /\ \/ tmp' = [tmp EXCEPT ![c].rows = @ \union {Min(ShardRows \ @)}] /\ UNCHANGED at
         \/ Goto(c, "clean") /\ UNCHANGED tmp
  BY DEF WriteSlab, reading
<1>2. TypeOK' /\ Prepared' /\ Respected' /\ Spared'
  <2>1. CASE tmp' = [tmp EXCEPT ![c].rows = @ \union {Min(ShardRows \ @)}] /\ UNCHANGED at
    <3>1. PICK rows : tmp' = [tmp EXCEPT ![c].rows = rows]
      BY <2>1
    <3>2. tmp[c] = Store(c, tmp[c].rows)
      BY <1>1 DEF IInv, Prepared
    <3>3. tmp'[c] = Store(c, rows)
      BY <3>1, <3>2 DEF IInv, TypeOK, Store
    <3>4. tmp'[c] = Store(c, tmp'[c].rows)
      BY <3>3, StoreFields
    <3>5. DOMAIN tmp' = Converters /\ \A d \in Converters : d # c => tmp'[d] = tmp[d]
      BY <3>1 DEF IInv, TypeOK
    <3>6. Goto(c, "write")
      BY <1>1, <2>1 DEF IInv, TypeOK, Goto
    <3> QED
      BY <1>1, <3>4, <3>5, <3>6, OnlyGoes, Running DEF Whereabouts
  <2>2. CASE Goto(c, "clean") /\ UNCHANGED tmp
    BY <1>1, <2>2, OnlyGoes, Running DEF IInv, TypeOK, Whereabouts
  <2> QED
    BY <1>1, <2>1, <2>2
<1> QED
  BY <1>1, <1>2, ReaderStays DEF IInv

LEMMA WrittenIInv ==
  ASSUME IInv, NEW c \in Converters, Written(c)
  PROVE  IInv'
<1>1. PICK where \in {"aside", "place"} : Goto(c, where)
  BY DEF Written
<1>2. at[c] = "write" /\ tmp[c].rows = ShardRows /\ UNCHANGED <<dst, tmp, old, reader>>
  BY DEF Written, reading
<1>3. tmp[c] = Store(c, ShardRows)
  BY <1>2 DEF IInv, Prepared
<1> QED
  BY <1>1, <1>2, <1>3, OnlyGoes, Running, ReaderStays DEF IInv, TypeOK, Whereabouts

LEMMA CleanIInv ==
  ASSUME IInv, NEW c \in Converters, Clean(c)
  PROVE  IInv'
<1>1. /\ at[c] = "clean" /\ tmp' = [tmp EXCEPT ![c] = None] /\ Goto(c, "idle")
      /\ UNCHANGED <<dst, old, reader>>
  BY DEF Clean, reading
<1> QED
  BY <1>1, OnlyGoes, Running, ReaderStays DEF IInv, TypeOK, Whereabouts

LEMMA KillIInv ==
  ASSUME IInv, NEW c \in Converters, KillConverter(c)
  PROVE  IInv'
<1>1. at[c] # "idle" /\ Goto(c, "idle") /\ UNCHANGED <<dst, tmp, old, reader>>
  BY DEF KillConverter, reading
<1> QED
  BY <1>1, OnlyGoes, ReaderStays DEF IInv, TypeOK, Whereabouts

LEMMA MoveAsideIInv ==
  ASSUME IInv, NEW c \in Converters, MoveAside(c)
  PROVE  IInv'
<1>1. at[c] = "aside" /\ UNCHANGED tmp
  BY DEF MoveAside
<1>2. CASE /\ dst # None /\ old[c] = None /\ dst' = None /\ old' = [old EXCEPT ![c] = dst]
           /\ Goto(c, "replace") /\ LeaveReader
  <2>1. /\ at'[c] = "replace" /\ old'[c] = dst /\ dst.by # "other" /\ dst.rows = ShardRows
        /\ dst = Store(dst.by, dst.rows)
        /\ \A d \in Converters : d # c => at'[d] = at[d] /\ old'[d] = old[d]
    BY <1>1, <1>2, Running DEF IInv, TypeOK, Goto, DstWhole
  <2>2. TypeOK'
    BY <1>1, <1>2, <2>1 DEF IInv, TypeOK, Goto, Whereabouts
  <2>3. Prepared'
    BY <1>1, <2>1 DEF IInv, Prepared
  <2>4. Respected'
    BY <1>2 DEF Respected
  <2>5. Spared'
    BY <1>2, <2>1 DEF Spared, IsWhole, IsStore
  <2>6. DstWhole'
    BY <1>2, <2>1 DEF IInv, DstWhole, LeaveReader
  <2> QED
    BY <2>2, <2>3, <2>4, <2>5, <2>6 DEF IInv
<1>3. CASE Goto(c, "clean") /\ UNCHANGED <<dst, old, reader, brick, exported>>
  BY <1>1, <1>3, OnlyGoes, Running, ReaderStays DEF IInv, TypeOK, Whereabouts
<1> QED
  BY <1>2, <1>3 DEF MoveAside

LEMMA PlaceIInv ==
  ASSUME IInv, NEW c \in Converters, Place(c)
  PROVE  IInv'
<1>1. at[c] \in {"place", "replace"} /\ tmp[c] = Store(c, ShardRows) /\ UNCHANGED <<old, reader>>
  BY DEF IInv, Prepared, Place, reading
<1>2. CASE dst = None /\ dst' = tmp[c] /\ tmp' = [tmp EXCEPT ![c] = None]
           /\ Goto(c, IF at[c] = "replace" THEN "remove" ELSE "idle")
  <2>1. /\ at'[c] \in {"remove", "idle"} /\ \A d \in Converters : d # c => at'[d] = at[d] /\ tmp'[d] = tmp[d]
        /\ dst' = Store(c, ShardRows) /\ dst' # None /\ IsWhole(dst')
        /\ (at'[c] = "remove" => at[c] = "replace")
    BY <1>1, <1>2, PlacedWhole DEF IInv, TypeOK, Goto
  <2>2. TypeOK'
    BY <1>1, <1>2, <2>1, StoreFields DEF IInv, TypeOK, Goto, Whereabouts
  <2>3. Prepared'
    BY <1>1, <2>1 DEF IInv, Prepared
  <2>4. Respected'
    BY <2>1 DEF Respected, IsWhole, IsStore
  <2>5. Spared'
    BY <2>1 DEF Spared, IsWhole, IsStore
  <2>6. DstWhole'
    BY <1>1, <2>1 DEF IInv, DstWhole, IsWhole
  <2> QED
    BY <2>2, <2>3, <2>4, <2>5, <2>6 DEF IInv
<1>3. CASE Goto(c, "clean") /\ UNCHANGED <<dst, tmp>>
  BY <1>1, <1>3, OnlyGoes, Running, ReaderStays DEF IInv, TypeOK, Whereabouts
<1> QED
  BY <1>2, <1>3 DEF Place

LEMMA RemoveOldIInv ==
  ASSUME IInv, NEW c \in Converters, RemoveOld(c)
  PROVE  IInv'
<1>1. at[c] = "remove" /\ UNCHANGED <<dst, tmp, reader>>
  BY DEF RemoveOld, reading
<1>2. old[c] = Store(old[c].by, old[c].rows) /\ old[c].by # "other"
  BY <1>1 DEF IInv, Prepared
<1>3. /\ at' \in [Converters -> Whereabouts] /\ DOMAIN old' = Converters
      /\ \A d \in Converters : d # c => at'[d] = at[d] /\ old'[d] = old[d]
      /\ \/ at'[c] = "remove" /\ old'[c] = Store(old[c].by, {})
         \/ at'[c] = "idle" /\ (old'[c] = None \/ old'[c] = old[c])
  <2>1. CASE old' = [old EXCEPT ![c].rows = {}] /\ UNCHANGED at
    <3>1. old'[c] = [old[c] EXCEPT !.rows = {}]
      BY <2>1 DEF IInv, TypeOK
    <3>2. old'[c] = Store(old[c].by, {})
      BY <1>2, <3>1 DEF Store
    <3> QED
      BY <1>1, <2>1, <3>2 DEF IInv, TypeOK
  <2>2. CASE old' = [old EXCEPT ![c] = None] /\ Goto(c, "idle")
    BY <2>2 DEF IInv, TypeOK, Goto, Whereabouts
  <2>3. CASE UNCHANGED old /\ Goto(c, "idle")
    BY <2>3 DEF IInv, TypeOK, Goto, Whereabouts
  <2> QED
    BY <2>1, <2>2, <2>3 DEF RemoveOld
<1>4. old'[c] # None => old'[c] = Store(old'[c].by, old'[c].rows) /\ old'[c].by # "other"
  BY <1>2, <1>3, StoreFields
<1>5. at'[c] = "remove" => old'[c] = Store(old'[c].by, old'[c].rows) /\ old'[c].by # "other"
  BY <1>2, <1>3, StoreFields
<1>6. TypeOK'
  BY <1>1, <1>3, <1>4 DEF IInv, TypeOK
<1>7. Prepared'
  BY <1>1, <1>3, <1>5 DEF IInv, Prepared
<1>8. Respected'
  BY <1>1, Running DEF Respected
<1>9. Spared'
  BY <1>1, <1>3 DEF IInv, Spared
<1>10. DstWhole'
  BY <1>1, <1>3, <1>4 DEF IInv, DstWhole
<1> QED
  BY <1>6, <1>7, <1>8, <1>9, <1>10 DEF IInv

(***************************************************************************)
(* Readers, whatever they read, change no store, and open whole ones.      *)
(***************************************************************************)
LEMMA OpenFacts ==
  ASSUME NEW kind, NEW by, NEW missing \in BOOLEAN, NEW use, Open(kind, by, missing, use)
  PROVE  UNCHANGED conversion /\ reader'.warned = missing
BY DEF Open

LEMMA ReadingFacts ==
  ASSUME IInv, Reading
  PROVE  UNCHANGED conversion /\ (UNCHANGED reader \/ reader'.warned = FALSE)
<1>1. CASE OpenZarr
  <2>1. (dst.rows # ShardRows) = FALSE
    BY <1>1 DEF IInv, DstWhole, OpenZarr, IsStore
  <2>2. PICK use : Open("zarr", dst.by, dst.rows # ShardRows, use)
    BY <1>1 DEF OpenZarr
  <2> QED
    BY <2>1, <2>2, OpenFacts
<1>2. CASE OpenRaw
  BY <1>2, OpenFacts DEF OpenRaw
<1>3. CASE Export
  BY <1>3 DEF Export
<1>4. ASSUME NEW box \in Boxes, Read(box)
      PROVE  UNCHANGED conversion /\ UNCHANGED reader
  BY <1>4 DEF Read
<1> QED
  BY <1>1, <1>2, <1>3, <1>4 DEF Reading

LEMMA ReadingIInv ==
  ASSUME IInv, Reading
  PROVE  IInv'
<1>1. UNCHANGED conversion /\ (UNCHANGED reader \/ reader'.warned = FALSE)
  BY ReadingFacts
<1>2. UNCHANGED <<dst, tmp, old, at>>
  BY <1>1 DEF conversion
<1>3. DstWhole'
  BY <1>1, <1>2 DEF IInv, DstWhole
<1> QED
  BY <1>2, <1>3 DEF IInv, TypeOK, Prepared, Respected, Spared, IsWhole, IsStore

(***************************************************************************)
(* The theorems.                                                           *)
(***************************************************************************)
LEMMA InitIInv == VolumesInit => IInv
<1> SUFFICES ASSUME VolumesInit
             PROVE  IInv
  OBVIOUS
<1>1. /\ dst # None => \E v : dst = Store(v, ShardRows)
      /\ tmp = [c \in Converters |-> None] /\ old = [c \in Converters |-> None]
      /\ at = [c \in Converters |-> "idle"] /\ reader = None
  BY DEF VolumesInit
<1> QED
  BY <1>1, StoreFields DEF IInv, TypeOK, Prepared, Respected, Spared, DstWhole, Whereabouts

LEMMA NextIInv == IInv /\ [VolumesNext]_vars => IInv'
<1> SUFFICES ASSUME IInv, [VolumesNext]_vars
             PROVE  IInv'
  OBVIOUS
<1>1. ASSUME NEW c \in Converters, Convert(c)
      PROVE  IInv'
  BY <1>1, StartIInv, CreateIInv, WriteSlabIInv, WrittenIInv, MoveAsideIInv, PlaceIInv, RemoveOldIInv, CleanIInv,
     KillIInv DEF Convert
<1>2. CASE Reading
  BY <1>2, ReadingIInv
<1>3. CASE UNCHANGED vars
  <2>1. UNCHANGED <<dst, tmp, old, at, reader>>
    BY <1>3 DEF vars, conversion, reading
  <2> QED
    BY <2>1 DEF IInv, TypeOK, Prepared, Respected, Spared, IsWhole, IsStore, DstWhole
<1> QED
  BY <1>1, <1>2, <1>3 DEF VolumesNext

\* The invariant above, of every reachable state.
THEOREM Invariance == Spec => []IInv
BY InitIInv, NextIInv, PTL DEF Spec

\* DstWhole: convert_to_ome_zarr leaves no partial destination, replaces
\* nothing but Zarr stores, and places none that ZarrVolume warns of.
THEOREM DstWholeCorrect == Spec => []DstWhole
<1>1. IInv => DstWhole
  BY DEF IInv
<1> QED
  BY <1>1, Invariance, PTL

\* Kept: while there is a whole store, every step leaves one, at the
\* destination or under a hidden name.
THEOREM KeptCorrect == Spec => Kept
<1>1. IInv /\ [VolumesNext]_vars => (SomeWhole => SomeWhole')
  <2> SUFFICES ASSUME IInv, [VolumesNext]_vars, SomeWhole
               PROVE  SomeWhole'
    OBVIOUS
  <2>1. ASSUME UNCHANGED <<dst, old>>
        PROVE  SomeWhole'
    BY <2>1 DEF SomeWhole, IsWhole, IsStore
  <2>2. ASSUME NEW c \in Converters, MoveAside(c)
        PROVE  SomeWhole'
    <3>1. CASE dst # None /\ old[c] = None /\ dst' = None /\ old' = [old EXCEPT ![c] = dst]
      <4>1. old'[c] = dst /\ \A d \in Converters : d # c => old'[d] = old[d]
        BY <3>1 DEF IInv, TypeOK
      <4> QED
        BY <3>1, <4>1 DEF SomeWhole, IsWhole, IsStore
    <3> QED
      BY <2>1, <2>2, <3>1 DEF MoveAside
  <2>3. ASSUME NEW c \in Converters, Place(c)
        PROVE  SomeWhole'
    <3>1. CASE dst = None /\ dst' = tmp[c]
      <4>1. tmp[c] = Store(c, ShardRows)
        BY <2>3 DEF IInv, Prepared, Place
      <4> QED
        BY <3>1, <4>1, PlacedWhole DEF SomeWhole, IsWhole, IsStore
    <3> QED
      BY <2>1, <2>3, <3>1 DEF Place
  <2>4. ASSUME NEW c \in Converters, RemoveOld(c)
        PROVE  SomeWhole'
    <3>1. at[c] = "remove" /\ UNCHANGED dst /\ \A d \in Converters : d # c => old'[d] = old[d]
      BY <2>4 DEF IInv, TypeOK, RemoveOld
    <3> QED
      BY <3>1 DEF IInv, Spared, SomeWhole, IsWhole, IsStore
  <2>5. CASE ~ \E c \in Converters : MoveAside(c) \/ Place(c) \/ RemoveOld(c)
    <3>1. UNCHANGED <<dst, old>>
      <4>1. ASSUME NEW c \in Converters, Convert(c)
            PROVE  UNCHANGED <<dst, old>>
        BY <2>5, <4>1 DEF Convert, Start, Create, WriteSlab, Written, Clean, KillConverter
      <4>2. CASE Reading \/ UNCHANGED vars
        BY <4>2, ReadingFacts DEF conversion, vars
      <4> QED
        BY <4>1, <4>2 DEF VolumesNext
    <3> QED
      BY <2>1, <3>1
  <2> QED
    BY <2>2, <2>3, <2>4, <2>5
<1> QED
  BY <1>1, Invariance, PTL DEF Spec, Kept

(***************************************************************************)
(* Numbers: two of them, quotients, and products.                          *)
(***************************************************************************)
LEMMA MaxOfTwo ==
  ASSUME NEW a \in Int, NEW b \in Int
  PROVE  Max({a, b}) = IF a >= b THEN a ELSE b
<1>1. \E m \in {a, b} : \A x \in {a, b} : m >= x
  OBVIOUS
<1> QED
  BY <1>1 DEF Max

LEMMA ClampedIs ==
  ASSUME NEW i \in Int, NEW lo \in Int, NEW hi \in Int
  PROVE  Clamped(i, lo, hi) = IF hi < lo \/ i < lo THEN lo ELSE IF i > hi THEN hi ELSE i
<1>1. Min({i, hi}) = (IF i <= hi THEN i ELSE hi) /\ Min({i, hi}) \in Int
  BY MinOfTwo
<1> QED
  BY <1>1, MaxOfTwo DEF Clamped

LEMMA DivBounds ==
  ASSUME NEW x \in Int, NEW d \in Nat \ {0}
  PROVE  /\ x \div d \in Int /\ x % d \in 0 .. d - 1
         /\ x = d * (x \div d) + (x % d)
OBVIOUS

LEMMA DivUnique ==
  ASSUME NEW q \in Int, NEW r \in Int, NEW d \in Nat \ {0}, 0 <= r, r < d
  PROVE  (q * d + r) \div d = q /\ (q * d + r) % d = r
OBVIOUS

LEMMA PlusPair ==
  ASSUME NEW p, NEW q
  PROVE  Plus(p, q) = <<p[1] + q[1], p[2] + q[2]>>
BY DEF Axes, Plus

LEMMA MulMono ==
  ASSUME NEW a \in Int, NEW b \in Int, NEW d \in Nat, a <= b
  PROVE  a * d <= b * d /\ a * d \in Int /\ b * d \in Int
OBVIOUS

LEMMA DivLess ==
  ASSUME NEW x \in Int, NEW b \in Int, NEW d \in Nat \ {0}
  PROVE  x \div d < b <=> x < b * d
<1>1. x \div d \in Int /\ d * (x \div d) <= x /\ x < d * (x \div d) + d
  BY DivBounds
<1> DEFINE q == x \div d
<1>2. q \in Int
  BY <1>1
<1>3. d * q <= x /\ x < d * q + d
  BY <1>1
<1> HIDE DEF q
<1>4. CASE q < b
  <2>1. (q + 1) * d <= b * d
    BY <1>2, <1>4, MulMono
  <2>2. (q + 1) * d = d * q + d
    BY <1>2
  <2> QED
    BY <1>2, <1>3, <1>4, <2>1, <2>2 DEF q
<1>5. CASE q >= b
  <2>1. b * d <= q * d
    BY <1>2, <1>5, MulMono
  <2>2. q * d = d * q
    BY <1>2
  <2> QED
    BY <1>2, <1>3, <1>5, <2>1, <2>2 DEF q
<1> QED
  BY <1>2, <1>4, <1>5

LEMMA CeilDivIs ==
  ASSUME NEW x \in Int, NEW d \in Nat \ {0}
  PROVE  /\ CeilDiv(x, d) \in Int
         /\ x <= CeilDiv(x, d) * d /\ CeilDiv(x, d) * d < x + d
<1> DEFINE q == (-x) \div d
<1>1. -x \in Int /\ q \in Int /\ d * q <= -x /\ -x < d * q + d
  BY DivBounds
<1>2. CeilDiv(x, d) = -q
  BY DEF CeilDiv
<1> HIDE DEF q
<1>3. (-q) * d = -(d * q)
  BY <1>1
<1> QED
  BY <1>1, <1>2, <1>3

LEMMA DivDiv ==
  ASSUME NEW x \in Int, NEW c \in Nat \ {0}, NEW m \in Nat \ {0}
  PROVE  (x \div c) \div m = x \div (c * m)
<1> DEFINE q == x \div c  r == x % c  s == q \div m  t == q % m
<1>1. q \in Int /\ r \in 0 .. c - 1 /\ x = c * q + r
  BY DivBounds
<1>2. s \in Int /\ t \in 0 .. m - 1 /\ q = m * s + t
  <2> HIDE DEF q
  <2> QED
    BY <1>1, DivBounds
<1> HIDE DEF q, r, s, t
<1>3. c * m \in Nat \ {0}
  BY MulMono
<1>4. c * t + r \in Int /\ 0 <= c * t + r /\ c * t + r < c * m
  <2>1. c * t <= c * (m - 1) /\ 0 <= c * t
    <3>1. t * c <= (m - 1) * c /\ 0 * c <= t * c
      BY <1>2, MulMono
    <3> QED
      BY <1>2, <3>1
  <2>2. c * (m - 1) = c * m - c
    OBVIOUS
  <2> DEFINE u == c * t  v == c * m
  <2>3. u \in Int /\ v \in Int
    BY <1>2
  <2> HIDE DEF u, v
  <2> QED
    BY <1>1, <2>1, <2>2, <2>3 DEF u, v
<1>5. x = s * (c * m) + (c * t + r)
  BY <1>1, <1>2
<1>6. x \div (c * m) = s
  <2> DEFINE w == c * m  z == c * t + r
  <2> HIDE DEF w, z
  <2>1. (s * w + z) \div w = s
    BY <1>2, <1>3, <1>4, DivUnique DEF w, z
  <2> QED
    BY <1>5, <2>1 DEF w, z
<1> QED
  BY <1>6 DEF s, q

(***************************************************************************)
(* Boxes, the parts of them inside the volume, and what is in a file.      *)
(***************************************************************************)
Voxel(v, x, y) == <<v, <<x, y>>>>

Edge(a, i) == IF i < 0 THEN 0 ELSE IF i > Size[a] - 1 THEN Size[a] - 1 ELSE i

IsBox(b) == \A a \in Axes : b.lo[a] \in Int /\ b.hi[a] \in Int

\* v is the part of b inside the volume.
Cut(v, b) ==
  \A a \in Axes :
    /\ v.lo[a] \in Nat /\ v.hi[a] \in Nat /\ v.lo[a] < v.hi[a] /\ v.hi[a] <= Size[a]
    /\ v.lo[a] = (IF b.lo[a] >= 0 THEN b.lo[a] ELSE 0)
    /\ v.hi[a] = (IF b.hi[a] <= Size[a] THEN b.hi[a] ELSE Size[a])

\* The store or the file that is read has been opened whole.
Opened ==
  /\ reader.kind \in {"zarr", "raw"}
  /\ reader.kind = "zarr" => IsStore(dst) /\ dst.by = reader.by /\ dst.rows = ShardRows
  /\ reader.kind = "raw" => reader.by = "raw"

Right(data, box) ==
  /\ DOMAIN data = Cells(Shape(box))
  /\ \A p \in Cells(Shape(box)) :
       data[p] = Voxel(reader.by, Edge(1, box.lo[1] + p[1]), Edge(2, box.lo[2] + p[2]))

LEMMA Sizes ==
  /\ Size[1] \in Nat \ {0} /\ Size[2] \in Nat \ {0} /\ Size = <<Size[1], Size[2]>>
  /\ Chunk \in Nat \ {0} /\ Shard \in Nat \ {0} /\ SlabVoxels \in Nat \ {0} /\ ExportSlab \in Nat \ {0}
  /\ FilterSlab \in Nat \ {0} /\ Header \in Nat /\ Margin \in Nat
BY VolumesAssumption

LEMMA BothAxes == 1 \in Axes /\ 2 \in Axes /\ Axes = {1, 2}
BY DEF Axes

LEMMA IntersectCut ==
  ASSUME NEW b, IsBox(b), Intersect(b, Whole) # None
  PROVE  Cut(Intersect(b, Whole), b)
<1> DEFINE lo == [a \in Axes |-> Max({b.lo[a], Whole.lo[a]})]
           hi == [a \in Axes |-> Min({b.hi[a], Whole.hi[a]})]
<1>1. \A a \in Axes : b.lo[a] \in Int /\ b.hi[a] \in Int /\ Size[a] \in Nat /\ Whole.lo[a] = 0 /\ Whole.hi[a] = Size[a]
  BY Sizes DEF IsBox, Whole, Axes
<1>2. \A a \in Axes : lo[a] = IF b.lo[a] >= 0 THEN b.lo[a] ELSE 0
  BY <1>1, MaxOfTwo
<1>3. \A a \in Axes : hi[a] = IF b.hi[a] <= Size[a] THEN b.hi[a] ELSE Size[a]
  BY <1>1, MinOfTwo
<1>4. /\ ~ \E a \in Axes : hi[a] <= lo[a]
      /\ Intersect(b, Whole) = [lo |-> lo, hi |-> hi]
  BY DEF Intersect
<1> HIDE DEF lo, hi
<1>5. Intersect(b, Whole).lo = lo /\ Intersect(b, Whole).hi = hi
  BY <1>4
<1> SUFFICES ASSUME NEW a \in Axes
             PROVE  /\ lo[a] \in Nat /\ hi[a] \in Nat /\ lo[a] < hi[a] /\ hi[a] <= Size[a]
                    /\ lo[a] = (IF b.lo[a] >= 0 THEN b.lo[a] ELSE 0)
                    /\ hi[a] = (IF b.hi[a] <= Size[a] THEN b.hi[a] ELSE Size[a])
  BY <1>5 DEF Cut
<1>6. lo[a] = (IF b.lo[a] >= 0 THEN b.lo[a] ELSE 0) /\ hi[a] = (IF b.hi[a] <= Size[a] THEN b.hi[a] ELSE Size[a])
  BY <1>2, <1>3
<1>7. ~(hi[a] <= lo[a]) /\ b.lo[a] \in Int /\ b.hi[a] \in Int /\ Size[a] \in Nat
  BY <1>1, <1>4
<1> QED
  BY <1>6, <1>7

LEMMA CellPair ==
  ASSUME NEW shape, NEW p
  PROVE  /\ p \in Cells(shape) => p = <<p[1], p[2]>> /\ p[1] \in 0 .. shape[1] - 1 /\ p[2] \in 0 .. shape[2] - 1
         /\ \A i \in 0 .. shape[1] - 1, j \in 0 .. shape[2] - 1 : <<i, j>> \in Cells(shape)
BY DEF Cells

LEMMA ShapeIs ==
  ASSUME NEW b
  PROVE  Shape(b)[1] = b.hi[1] - b.lo[1] /\ Shape(b)[2] = b.hi[2] - b.lo[2]
BY BothAxes DEF Shape

LEMMA MinusPair ==
  ASSUME NEW p, NEW q
  PROVE  Minus(p, q) = <<p[1] - q[1], p[2] - q[2]>>
BY DEF Axes, Minus

\* Where a voxel of the volume lies in a file, and which one is there.
LEMMA FilePlace ==
  ASSUME NEW x \in 0 .. Size[1] - 1, NEW y \in 0 .. Size[2] - 1
  PROVE  /\ x * Size[2] + y + 1 \in 1 .. Size[1] * Size[2]
         /\ \A v : VoxelsOf(v)[x * Size[2] + y + 1] = Voxel(v, x, y)
         /\ File[Header + x * Size[2] + y + 1] = Voxel("raw", x, y)
         /\ File[Header + (x * Size[2] + y) + 1] = Voxel("raw", x, y)
<1> DEFINE S1 == Size[1]  S2 == Size[2]  k == x * S2 + y  N == S1 * S2
<1>1. S1 \in Nat \ {0} /\ S2 \in Nat \ {0} /\ x \in Nat /\ y \in Nat /\ y < S2 /\ x + 1 <= S1 /\ Header \in Nat
  BY Sizes
<1> HIDE DEF S1, S2
<1>2. (x + 1) * S2 <= N /\ (x + 1) * S2 = x * S2 + S2 /\ N \in Nat /\ x * S2 \in Nat
  BY <1>1, MulMono
<1>3. k \in Nat /\ k < N
  <2> DEFINE z == x * S2
  <2> HIDE DEF z, N
  <2> QED
    BY <1>1, <1>2 DEF z
<1>4. k \div S2 = x /\ k % S2 = y
  <2>1. x \in Int /\ y \in Int /\ S2 \in Nat \ {0} /\ 0 <= y /\ y < S2
    BY <1>1
  <2>2. (x * S2 + y) \div S2 = x /\ (x * S2 + y) % S2 = y
    BY <2>1, DivUnique
  <2> QED
    BY <2>2
<1> HIDE DEF k, N
<1>5. k + 1 \in 1 .. N /\ (k + 1) - 1 = k
  BY <1>2, <1>3
<1>6. \A v : VoxelsOf(v)[k + 1] = Voxel(v, x, y)
  <2> SUFFICES ASSUME NEW v
               PROVE  VoxelsOf(v)[k + 1] = Voxel(v, x, y)
    OBVIOUS
  <2>1. VoxelsOf(v) = [i \in 1 .. N |-> <<v, <<(i - 1) \div S2, (i - 1) % S2>>>>]
    BY DEF VoxelsOf, N, S1, S2
  <2>2. VoxelsOf(v)[k + 1] = <<v, <<k \div S2, k % S2>>>>
    BY <1>5, <2>1
  <2> QED
    BY <1>4, <2>2 DEF Voxel
<1>7. File = [i \in 1 .. Header + N |-> IF i <= Header THEN "header" ELSE VoxelsOf("raw")[i - Header]]
  BY DEF File, N, S1, S2
<1>8. Header + k + 1 \in 1 .. Header + N /\ ~(Header + k + 1 <= Header) /\ (Header + k + 1) - Header = k + 1
  BY <1>1, <1>2, <1>3
<1>9. File[Header + k + 1] = VoxelsOf("raw")[k + 1]
  BY <1>7, <1>8
<1>10. File[Header + k + 1] = Voxel("raw", x, y)
  BY <1>6, <1>9
<1>11. Header + x * S2 + y + 1 = Header + k + 1
  <2> DEFINE z == x * S2
  <2>1. z \in Nat /\ k = z + y
    BY <1>2 DEF k
  <2> HIDE DEF z
  <2> QED
    BY <1>1, <2>1 DEF z
<1> QED
  BY <1>5, <1>6, <1>10, <1>11 DEF k, N, S1, S2

(***************************************************************************)
(* Stores, and what the host path reads.                                   *)
(***************************************************************************)
\* A shard is a whole number of chunks on each axis.
LEMMA ShardIs ==
  ASSUME NEW a \in Axes
  PROVE  /\ ChunkShape[a] \in Nat \ {0} /\ PerShard[a] \in Nat \ {0}
         /\ ShardShape[a] = ChunkShape[a] * PerShard[a] /\ ShardShape[a] \in Nat \ {0}
<1> DEFINE C == Min({Chunk, Size[a]})  K == Min({Shard, Size[a]})  M == CeilDiv(K, C)
<1>1. Size[a] \in Nat \ {0} /\ Chunk \in Nat \ {0} /\ Shard \in Nat \ {0}
  BY Sizes, BothAxes
<1>2. C \in Nat \ {0} /\ K \in Nat \ {0}
  BY <1>1, MinOfTwo
<1>3. ChunkShape[a] = C /\ ShardShape[a] = C * M /\ PerShard[a] = ShardShape[a] \div ChunkShape[a]
  BY DEF ChunkShape, ShardShape, PerShard
<1> HIDE DEF C, K
<1>4. M \in Int /\ K <= M * C
  BY <1>2, CeilDivIs
<1> HIDE DEF M
<1>5. M > 0
  <2> SUFFICES ASSUME M <= 0
               PROVE  FALSE
    BY <1>4
  <2>1. M * C <= 0 * C
    BY <1>2, <1>4, MulMono
  <2> QED
    BY <1>2, <1>4, <2>1
<1>6. C * M \in Nat \ {0}
  BY <1>2, <1>4, <1>5
<1>7. (M * C + 0) \div C = M
  BY <1>2, <1>4, DivUnique
<1>8. (C * M) \div C = M
  BY <1>2, <1>4, <1>7
<1> QED
  BY <1>2, <1>3, <1>4, <1>5, <1>6, <1>8

LEMMA RowStored ==
  ASSUME NEW x \in 0 .. Size[1] - 1
  PROVE  x \div ShardShape[1] \in ShardRows /\ (x \div ChunkShape[1]) \div PerShard[1] \in ShardRows
<1> DEFINE W == ShardShape[1]  N == CeilDiv(Size[1], W)
<1>1. Size[1] \in Nat \ {0} /\ W \in Nat \ {0} /\ x \in Int /\ 0 <= x /\ x < Size[1]
  BY Sizes, ShardIs, BothAxes
<1>2. ShardRows = 0 .. N - 1
  BY DEF ShardRows
<1> HIDE DEF W
<1>3. N \in Int /\ Size[1] <= N * W
  <2>1. Size[1] \in Int /\ W \in Nat \ {0}
    BY <1>1
  <2>2. CeilDiv(Size[1], W) \in Int /\ Size[1] <= CeilDiv(Size[1], W) * W
    BY <2>1, CeilDivIs
  <2> QED
    BY <2>2
<1> HIDE DEF N
<1>4. x < N * W /\ ~(x < 0 * W)
  <2> DEFINE z == N * W
  <2>1. z \in Int /\ Size[1] <= z
    BY <1>1, <1>3
  <2> HIDE DEF z
  <2>2. x < z
    BY <1>1, <2>1
  <2> QED
    BY <1>1, <2>2 DEF z
<1>5. x \div W \in Int /\ x \div W < N /\ ~(x \div W < 0)
  <2>1. x \div W < N
    BY <1>1, <1>3, <1>4, DivLess
  <2>2. ~(x \div W < 0)
    BY <1>1, <1>4, DivLess
  <2>3. x \div W \in Int
    BY <1>1, DivBounds
  <2> QED
    BY <2>1, <2>2, <2>3
<1>6. x \div W \in ShardRows
  <2> DEFINE q == x \div W
  <2> HIDE DEF q
  <2> QED
    BY <1>2, <1>3, <1>5 DEF q
<1>7. (x \div ChunkShape[1]) \div PerShard[1] = x \div (ChunkShape[1] * PerShard[1])
  BY <1>1, ShardIs, BothAxes, DivDiv
<1> QED
  BY <1>6, <1>7, ShardIs, BothAxes DEF W

LEMMA AtVoxelRight ==
  ASSUME Opened, NEW x \in 0 .. Size[1] - 1, NEW y \in 0 .. Size[2] - 1
  PROVE  AtVoxel(<<x, y>>) = Voxel(reader.by, x, y)
<1>1. CASE reader.kind = "zarr"
  <2>1. <<x, y>>[1] = x /\ x \div ShardShape[1] \in dst.rows /\ IsStore(dst) /\ dst.by = reader.by
    BY <1>1, RowStored DEF Opened
  <2> QED
    BY <1>1, <2>1 DEF AtVoxel, Stored, Voxel
<1>2. CASE reader.kind = "raw"
  <2>1. reader.by = "raw" /\ reader.kind # "zarr" /\ <<x, y>>[1] = x /\ <<x, y>>[2] = y
    BY <1>2 DEF Opened
  <2> QED
    BY <2>1, FilePlace DEF AtVoxel
<1> QED
  BY <1>1, <1>2 DEF Opened

\* Clamping inside a part and then placing it is clamping inside the volume.
LEMMA HostClamp ==
  ASSUME NEW a \in Axes, NEW b, NEW v, IsBox(b), Cut(v, b), NEW i \in 0 .. Shape(b)[a] - 1
  PROVE  LET c == Clamped(i - (v.lo[a] - b.lo[a]), 0, Shape(v)[a] - 1) IN
         /\ c \in 0 .. Shape(v)[a] - 1
         /\ v.lo[a] + c = Edge(a, b.lo[a] + i)
         /\ v.lo[a] + c \in 0 .. Size[a] - 1
<1>1. /\ b.lo[a] \in Int /\ b.hi[a] \in Int /\ Size[a] \in Nat
      /\ v.lo[a] \in Nat /\ v.hi[a] \in Nat /\ v.lo[a] < v.hi[a] /\ v.hi[a] <= Size[a]
      /\ v.lo[a] = (IF b.lo[a] >= 0 THEN b.lo[a] ELSE 0)
      /\ v.hi[a] = (IF b.hi[a] <= Size[a] THEN b.hi[a] ELSE Size[a])
  BY BothAxes, Sizes DEF IsBox, Cut
<1>2. Shape(b)[a] = b.hi[a] - b.lo[a] /\ Shape(v)[a] = v.hi[a] - v.lo[a]
  BY DEF Shape
<1> DEFINE vl == v.lo[a]  vh == v.hi[a]  bl == b.lo[a]  bh == b.hi[a]  S == Size[a]  j == i - (vl - bl)  n == Shape(v)[a] - 1
<1>3. i \in Int /\ i >= 0 /\ i < bh - bl
  BY <1>1, <1>2
<1>4. j \in Int /\ n \in Int /\ n = vh - vl - 1
  BY <1>1, <1>2, <1>3
<1>5. Clamped(j, 0, n) = IF n < 0 \/ j < 0 THEN 0 ELSE IF j > n THEN n ELSE j
  BY <1>4, ClampedIs
<1>6. Edge(a, bl + i) = IF bl + i < 0 THEN 0 ELSE IF bl + i > S - 1 THEN S - 1 ELSE bl + i
  BY DEF Edge
<1> DEFINE c == Clamped(j, 0, n)  e == Edge(a, bl + i)
<1> SUFFICES /\ c \in 0 .. n
             /\ vl + c = e
             /\ vl + c \in 0 .. S - 1
  BY <1>5
<1>7. j = i - (vl - bl)
  OBVIOUS
<1> HIDE DEF c, e, vl, vh, bl, bh, S, j, n
<1> QED
  BY <1>1, <1>3, <1>4, <1>5, <1>6, <1>7 DEF vl, vh, bl, bh, S, c, e

LEMMA HostReadRight ==
  ASSUME Opened, NEW b, NEW v, IsBox(b), Cut(v, b)
  PROVE  Right(HostRead(b, v), b)
<1> DEFINE part == [p \in Cells(Shape(v)) |-> AtVoxel(Plus(v.lo, p))]
           pad  == Minus(v.lo, b.lo)
           at1(p, a) == Clamped(p[a] - pad[a], 0, Shape(v)[a] - 1)
<1>1. HostRead(b, v) = [p \in Cells(Shape(b)) |-> part[[a \in Axes |-> at1(p, a)]]]
  BY DEF HostRead
<1> SUFFICES ASSUME NEW p \in Cells(Shape(b))
             PROVE  part[[a \in Axes |-> at1(p, a)]] = Voxel(reader.by, Edge(1, b.lo[1] + p[1]), Edge(2, b.lo[2] + p[2]))
  BY <1>1 DEF Right
<1>2. p[1] \in 0 .. Shape(b)[1] - 1 /\ p[2] \in 0 .. Shape(b)[2] - 1
  BY CellPair
<1> DEFINE c1 == Clamped(p[1] - (v.lo[1] - b.lo[1]), 0, Shape(v)[1] - 1)
           c2 == Clamped(p[2] - (v.lo[2] - b.lo[2]), 0, Shape(v)[2] - 1)
<1>3. [a \in Axes |-> at1(p, a)] = <<c1, c2>>
  <2>1. pad[1] = v.lo[1] - b.lo[1] /\ pad[2] = v.lo[2] - b.lo[2]
    BY MinusPair
  <2>2. at1(p, 1) = c1 /\ at1(p, 2) = c2
    BY <2>1
  <2> HIDE DEF at1, c1, c2
  <2> QED
    BY <2>2, BothAxes DEF Axes
<1>4. c1 \in 0 .. Shape(v)[1] - 1 /\ v.lo[1] + c1 = Edge(1, b.lo[1] + p[1]) /\ v.lo[1] + c1 \in 0 .. Size[1] - 1
  BY <1>2, BothAxes, HostClamp
<1>5. c2 \in 0 .. Shape(v)[2] - 1 /\ v.lo[2] + c2 = Edge(2, b.lo[2] + p[2]) /\ v.lo[2] + c2 \in 0 .. Size[2] - 1
  BY <1>2, BothAxes, HostClamp
<1> HIDE DEF c1, c2, at1, pad
<1>6. <<c1, c2>> \in Cells(Shape(v))
  BY <1>4, <1>5, CellPair
<1>7. part[<<c1, c2>>] = AtVoxel(<<v.lo[1] + c1, v.lo[2] + c2>>)
  BY <1>6, PlusPair
<1>8. AtVoxel(<<v.lo[1] + c1, v.lo[2] + c2>>) = Voxel(reader.by, v.lo[1] + c1, v.lo[2] + c2)
  BY <1>4, <1>5, AtVoxelRight
<1> HIDE DEF part
<1> QED
  BY <1>3, <1>4, <1>5, <1>7, <1>8

(***************************************************************************)
(* Copying turn by turn, and padding in place.                             *)
(***************************************************************************)
\* A loop that writes some places at each turn, and leaves the others.
Fills(e, N, D, out, into, g) ==
  /\ e = [s \in 0 .. N |-> e[s]] /\ e[0] = out
  /\ \A s \in 1 .. N : e[s] = [p \in D |-> IF p \in into[s] THEN g[s][p] ELSE e[s - 1][p]]

LEMMA FillExists ==
  ASSUME NEW N \in Nat, NEW D, NEW out, out = [p \in D |-> out[p]], NEW into, NEW g
  PROVE  \E e : Fills(e, N, D, out, into, g)
<1> DEFINE T(s, p) == {t \in 1 .. s : p \in into[t]}
           value(s, p) == IF T(s, p) = {} THEN out[p] ELSE g[Max(T(s, p))][p]
           e == [s \in 0 .. N |-> [p \in D |-> value(s, p)]]
<1>1. e[0] = out
  <2>1. e[0] = [p \in D |-> value(0, p)]
    OBVIOUS
  <2>2. \A p \in D : value(0, p) = out[p]
    OBVIOUS
  <2> HIDE DEF value, e
  <2>3. [p \in D |-> value(0, p)] = [p \in D |-> out[p]]
    BY <2>2
  <2> QED
    BY <2>1, <2>3
<1>2. ASSUME NEW s \in 1 .. N
      PROVE  e[s] = [p \in D |-> IF p \in into[s] THEN g[s][p] ELSE e[s - 1][p]]
  <2>1. s \in 0 .. N /\ s - 1 \in 0 .. N /\ s \in Nat
    OBVIOUS
  <2>2. e[s] = [p \in D |-> value(s, p)] /\ e[s - 1] = [p \in D |-> value(s - 1, p)]
    BY <2>1
  <2>3. ASSUME NEW p \in D
        PROVE  value(s, p) = IF p \in into[s] THEN g[s][p] ELSE value(s - 1, p)
    <3>1. CASE p \in into[s]
      <4>1. s \in T(s, p) /\ T(s, p) \subseteq 1 .. s
        BY <2>1, <3>1
      <4> DEFINE S == T(s, p)
      <4> HIDE DEF T
      <4>2. \E m \in S : \A x \in S : m >= x
        <5>1. s \in S /\ \A x \in S : s >= x
          BY <4>1
        <5> QED
          BY <5>1
      <4>3. Max(S) \in S /\ \A x \in S : Max(S) >= x
        <5> HIDE DEF S
        <5> QED
          BY <4>2 DEF Max
      <4>4. Max(S) = s
        <5>1. Max(S) >= s /\ Max(S) \in 1 .. s
          BY <4>1, <4>3
        <5> QED
          BY <2>1, <5>1
      <4>5. value(s, p) = g[Max(S)][p]
        BY <4>1
      <4> QED
        BY <3>1, <4>4, <4>5
    <3>2. CASE p \notin into[s]
      <4>1. T(s, p) = T(s - 1, p)
        BY <2>1, <3>2
      <4> HIDE DEF T
      <4> QED
        BY <3>2, <4>1
    <3> QED
      BY <3>1, <3>2
  <2> HIDE DEF value, e
  <2>4. \A p \in D : e[s - 1][p] = value(s - 1, p)
    BY <2>2
  <2>5. [p \in D |-> value(s, p)] = [p \in D |-> IF p \in into[s] THEN g[s][p] ELSE e[s - 1][p]]
    BY <2>3, <2>4
  <2> QED
    BY <2>2, <2>5
<1>3. e = [s \in 0 .. N |-> e[s]]
  <2> DEFINE w(s) == [p \in D |-> value(s, p)]
  <2> HIDE DEF value
  <2>1. e = [s \in 0 .. N |-> w(s)]
    OBVIOUS
  <2> HIDE DEF w, e
  <2> QED
    BY <2>1
<1> HIDE DEF e, value, T
<1>4. Fills(e, N, D, out, into, g)
  BY <1>1, <1>2, <1>3 DEF Fills
<1> QED
  BY <1>4

\* A place that all who write it give the same value has that value.
LEMMA FillResult ==
  ASSUME NEW N \in Nat, NEW D, NEW out, NEW into, NEW g, NEW e, Fills(e, N, D, out, into, g),
         NEW p \in D, NEW val, \E s \in 1 .. N : p \in into[s], \A s \in 1 .. N : p \in into[s] => g[s][p] = val
  PROVE  e[N][p] = val
<1> DEFINE Good == {s \in 0 .. N : (\E t \in 1 .. s : p \in into[t]) => e[s][p] = val}
<1>1. 0 \in Good
  OBVIOUS
<1>2. ASSUME NEW s \in 0 .. N - 1, s \in Good
      PROVE  s + 1 \in Good
  <2>1. s + 1 \in 1 .. N /\ (s + 1) - 1 = s /\ s \in 0 .. N /\ s + 1 \in 0 .. N
    OBVIOUS
  <2>2. e[s + 1] = [q \in D |-> IF q \in into[s + 1] THEN g[s + 1][q] ELSE e[s][q]]
    BY <2>1 DEF Fills
  <2>3. e[s + 1][p] = IF p \in into[s + 1] THEN g[s + 1][p] ELSE e[s][p]
    BY <2>2
  <2>4. CASE p \in into[s + 1]
    <3>1. e[s + 1][p] = val
      BY <2>1, <2>3, <2>4
    <3> QED
      BY <2>1, <3>1
  <2>5. CASE p \notin into[s + 1]
    <3>1. e[s + 1][p] = e[s][p]
      BY <2>3, <2>5
    <3> SUFFICES ASSUME NEW t \in 1 .. s + 1, p \in into[t]
                 PROVE  e[s + 1][p] = val
      BY <2>1
    <3>2. t \in 1 .. s
      <4>1. t # s + 1
        BY <2>5
      <4> QED
        BY <2>1, <4>1
    <3> QED
      BY <1>2, <3>1, <3>2
  <2> QED
    BY <2>4, <2>5
<1>3. 0 .. N \subseteq Good
  <2> HIDE DEF Good
  <2> QED
    BY <1>1, <1>2, IndUpTo
<1>4. N \in Good
  BY <1>3
<1> QED
  BY <1>4

\* What a reader puts into a brick: the part inside the volume.
Filled(data, b, v) ==
  /\ data = [p \in Cells(Shape(b)) |-> data[p]]
  /\ \A p \in Cells(Shape(b)) :
       (\A a \in Axes : v.lo[a] <= b.lo[a] + p[a] /\ b.lo[a] + p[a] < v.hi[a])
         => data[p] = Voxel(reader.by, b.lo[1] + p[1], b.lo[2] + p[2])

LEMMA PadClamp ==
  ASSUME NEW a \in Axes, NEW b, NEW v, IsBox(b), Cut(v, b), NEW i \in 0 .. Shape(b)[a] - 1
  PROVE  LET c == Clamped(i, v.lo[a] - b.lo[a], (v.lo[a] - b.lo[a]) + Shape(v)[a] - 1) IN
         /\ c \in 0 .. Shape(b)[a] - 1
         /\ b.lo[a] + c = Edge(a, b.lo[a] + i)
         /\ v.lo[a] <= b.lo[a] + c /\ b.lo[a] + c < v.hi[a]
<1>1. /\ b.lo[a] \in Int /\ b.hi[a] \in Int /\ Size[a] \in Nat
      /\ v.lo[a] \in Nat /\ v.hi[a] \in Nat /\ v.lo[a] < v.hi[a] /\ v.hi[a] <= Size[a]
      /\ v.lo[a] = (IF b.lo[a] >= 0 THEN b.lo[a] ELSE 0)
      /\ v.hi[a] = (IF b.hi[a] <= Size[a] THEN b.hi[a] ELSE Size[a])
  BY BothAxes, Sizes DEF IsBox, Cut
<1>2. Shape(b)[a] = b.hi[a] - b.lo[a] /\ Shape(v)[a] = v.hi[a] - v.lo[a]
  BY DEF Shape
<1> DEFINE vl == v.lo[a]  vh == v.hi[a]  bl == b.lo[a]  bh == b.hi[a]  S == Size[a]  j == vl - bl  n == j + Shape(v)[a] - 1
<1>3. i \in Int /\ i >= 0 /\ i < bh - bl
  BY <1>1, <1>2
<1>4. j \in Int /\ n \in Int /\ n = j + (vh - vl) - 1
  BY <1>1, <1>2, <1>3
<1>5. Clamped(i, j, n) = IF n < j \/ i < j THEN j ELSE IF i > n THEN n ELSE i
  BY <1>3, <1>4, ClampedIs
<1>6. Edge(a, bl + i) = IF bl + i < 0 THEN 0 ELSE IF bl + i > S - 1 THEN S - 1 ELSE bl + i
  BY DEF Edge
<1> DEFINE c == Clamped(i, j, n)  e == Edge(a, bl + i)  sb == Shape(b)[a]
<1> SUFFICES /\ c \in 0 .. sb - 1
             /\ bl + c = e
             /\ vl <= bl + c /\ bl + c < vh
  OBVIOUS
<1>7. j = vl - bl /\ sb = bh - bl
  BY <1>2
<1> HIDE DEF c, e, vl, vh, bl, bh, S, j, n, sb
<1> QED
  BY <1>1, <1>3, <1>4, <1>5, <1>6, <1>7 DEF vl, vh, bl, bh, S, c, e

LEMMA EdgePadRight ==
  ASSUME NEW o, NEW b, NEW v, IsBox(b), Cut(v, b), Filled(o, b, v)
  PROVE  Right(EdgePad(o, Minus(v.lo, b.lo), Shape(v)), b)
<1> DEFINE pad == Minus(v.lo, b.lo)  n == Shape(v)  D == Cells(Shape(b))
           k(p, a) == Clamped(p[a], pad[a], pad[a] + n[a] - 1)
           first == [p \in DOMAIN o |-> o[<<k(p, 1), p[2]>>]]
<1>1. DOMAIN o = D
  BY DEF Filled
<1>2. EdgePad(o, pad, n) = [p \in DOMAIN o |-> first[<<p[1], k(p, 2)>>]]
  BY DEF EdgePad
<1> SUFFICES ASSUME NEW p \in D
             PROVE  first[<<p[1], k(p, 2)>>] = Voxel(reader.by, Edge(1, b.lo[1] + p[1]), Edge(2, b.lo[2] + p[2]))
  BY <1>1, <1>2 DEF Right
<1>3. p[1] \in 0 .. Shape(b)[1] - 1 /\ p[2] \in 0 .. Shape(b)[2] - 1
  BY CellPair
<1> DEFINE c1 == Clamped(p[1], v.lo[1] - b.lo[1], (v.lo[1] - b.lo[1]) + Shape(v)[1] - 1)
           c2 == Clamped(p[2], v.lo[2] - b.lo[2], (v.lo[2] - b.lo[2]) + Shape(v)[2] - 1)
<1>4. pad[1] = v.lo[1] - b.lo[1] /\ pad[2] = v.lo[2] - b.lo[2]
  BY MinusPair
<1>5. k(p, 2) = c2 /\ k(<<p[1], c2>>, 1) = c1
  BY <1>4
<1>6. /\ c1 \in 0 .. Shape(b)[1] - 1 /\ b.lo[1] + c1 = Edge(1, b.lo[1] + p[1])
      /\ v.lo[1] <= b.lo[1] + c1 /\ b.lo[1] + c1 < v.hi[1]
  BY <1>3, BothAxes, PadClamp
<1>7. /\ c2 \in 0 .. Shape(b)[2] - 1 /\ b.lo[2] + c2 = Edge(2, b.lo[2] + p[2])
      /\ v.lo[2] <= b.lo[2] + c2 /\ b.lo[2] + c2 < v.hi[2]
  BY <1>3, BothAxes, PadClamp
<1> HIDE DEF c1, c2, k, pad
<1>8. <<p[1], c2>> \in D /\ <<c1, c2>> \in D
  BY <1>3, <1>6, <1>7, CellPair
<1>9. first[<<p[1], c2>>] = o[<<c1, c2>>]
  <2> DEFINE q == <<p[1], c2>>
  <2>1. q \in DOMAIN o /\ q[2] = c2
    BY <1>1, <1>8
  <2> HIDE DEF q
  <2>2. first[q] = o[<<k(q, 1), q[2]>>]
    BY <2>1
  <2> HIDE DEF first
  <2> QED
    BY <1>5, <2>1, <2>2 DEF q
<1>10. o[<<c1, c2>>] = Voxel(reader.by, b.lo[1] + c1, b.lo[2] + c2)
  <2> DEFINE q == <<c1, c2>>
  <2>1. q[1] = c1 /\ q[2] = c2 /\ q \in D
    BY <1>8
  <2> HIDE DEF q
  <2>2. \A a \in Axes : v.lo[a] <= b.lo[a] + q[a] /\ b.lo[a] + q[a] < v.hi[a]
    BY <1>6, <1>7, <2>1, BothAxes
  <2>3. o[q] = Voxel(reader.by, b.lo[1] + q[1], b.lo[2] + q[2])
    BY <2>1, <2>2 DEF Filled
  <2> QED
    BY <2>1, <2>3 DEF q
<1> HIDE DEF first
<1> QED
  BY <1>5, <1>6, <1>7, <1>9, <1>10

(***************************************************************************)
(* Planes of a file, read by slabs.                                        *)
(***************************************************************************)
\* The place of voxel j of plane i among n planes of so many rows.
LEMMA PlaneIndex ==
  ASSUME NEW n \in Nat, NEW rows \in Nat \ {0}, NEW i \in 0 .. n - 1, NEW j \in 0 .. rows - 1
  PROVE  /\ i * rows + j + 1 \in 1 .. n * rows
         /\ ((i * rows + j + 1) - 1) \div rows = i /\ ((i * rows + j + 1) - 1) % rows = j
<1> DEFINE z == i * rows  N == n * rows
<1>1. (i + 1) * rows <= N /\ (i + 1) * rows = z + rows /\ N \in Nat /\ z \in Nat
  BY MulMono
<1>2. (z + j) \div rows = i /\ (z + j) % rows = j
  BY DivUnique
<1> HIDE DEF z, N
<1>3. (z + j + 1) - 1 = z + j /\ z + j + 1 \in 1 .. N
  BY <1>1
<1> QED
  BY <1>2, <1>3 DEF z, N

LEMMA WholePlanes ==
  ASSUME NEW z \in Nat, NEW n \in Nat, NEW i \in 0 .. n - 1, NEW j \in 0 .. Size[2] - 1, z + i \in 0 .. Size[1] - 1
  PROVE  [k \in 1 .. n * Size[2] |-> File[Header + z * Size[2] + k]][i * Size[2] + j + 1] = Voxel("raw", z + i, j)
<1> DEFINE S2 == Size[2]  idx == i * S2 + j + 1
<1>1. S2 \in Nat \ {0} /\ Header \in Nat /\ i \in Nat /\ j \in Nat
  BY Sizes
<1>2. idx \in 1 .. n * S2
  BY <1>1, PlaneIndex
<1>3. Header + z * S2 + idx = Header + ((z + i) * S2 + j) + 1
  <2> DEFINE x == z * S2  y == i * S2
  <2>1. x \in Nat /\ y \in Nat /\ (z + i) * S2 = x + y
    BY <1>1
  <2>2. idx = y + j + 1
    OBVIOUS
  <2> HIDE DEF x, y, idx, S2
  <2>3. Header + x + idx = Header + (x + y + j) + 1
    BY <1>1, <2>1, <2>2
  <2> QED
    BY <2>1, <2>3 DEF x
<1>4. File[Header + ((z + i) * S2 + j) + 1] = Voxel("raw", z + i, j)
  BY FilePlace
<1> HIDE DEF idx
<1>5. [k \in 1 .. n * S2 |-> File[Header + z * S2 + k]][idx] = File[Header + z * S2 + idx]
  BY <1>2
<1> QED
  BY <1>3, <1>4, <1>5 DEF idx

\* The rows read of n planes, one plane after the other.
PartOf(z, n, rows, y) ==
  [k \in 1 .. n * rows |->
    [m \in 1 .. rows |-> File[Header + ((z + (k - 1) \div rows) * Size[2] + y) + m]][((k - 1) % rows) + 1]]

LEMMA PartPlanes ==
  ASSUME NEW z \in Nat, NEW n \in Nat, NEW i \in 0 .. n - 1, NEW rows \in Nat \ {0}, NEW j \in 0 .. rows - 1,
         NEW y \in Nat, z + i \in 0 .. Size[1] - 1, y + j \in 0 .. Size[2] - 1
  PROVE  PartOf(z, n, rows, y)[i * rows + j + 1] = Voxel("raw", z + i, y + j)
<1> DEFINE S2 == Size[2]  idx == i * rows + j + 1
           plane(k) == [m \in 1 .. rows |-> File[Header + ((z + (k - 1) \div rows) * Size[2] + y) + m]]
<1>1. S2 \in Nat \ {0} /\ Header \in Nat /\ i \in Nat /\ j \in Nat
  BY Sizes
<1>2. idx \in 1 .. n * rows /\ (idx - 1) \div rows = i /\ (idx - 1) % rows = j
  BY <1>1, PlaneIndex
<1> HIDE DEF idx
<1>3. [k \in 1 .. n * rows |-> plane(k)[((k - 1) % rows) + 1]][idx] = plane(idx)[j + 1]
  <2> HIDE DEF plane
  <2> QED
    BY <1>2
<1>4. plane(idx) = [m \in 1 .. rows |-> File[Header + ((z + i) * S2 + y) + m]]
  BY <1>2
<1>5. j + 1 \in 1 .. rows
  BY <1>1
<1>6. plane(idx)[j + 1] = File[Header + ((z + i) * S2 + y) + (j + 1)]
  BY <1>4, <1>5
<1>7. Header + ((z + i) * S2 + y) + (j + 1) = Header + ((z + i) * S2 + (y + j)) + 1
  <2> DEFINE x == (z + i) * S2
  <2>1. x \in Int
    BY <1>1
  <2> HIDE DEF x
  <2>2. Header + (x + y) + (j + 1) = Header + (x + (y + j)) + 1
    BY <1>1, <2>1
  <2> QED
    BY <2>2 DEF x
<1>8. File[Header + ((z + i) * S2 + (y + j)) + 1] = Voxel("raw", z + i, y + j)
  BY FilePlace
<1> HIDE DEF plane
<1>9. plane(idx)[j + 1] = Voxel("raw", z + i, y + j)
  BY <1>6, <1>7, <1>8
<1>10. PartOf(z, n, rows, y)[idx] = Voxel("raw", z + i, y + j)
  BY <1>3, <1>9 DEF PartOf, plane
<1> QED
  BY <1>10 DEF idx

\* The turn of the loop that reads a plane, and the planes each turn reads.
LEMMA SlabTurns ==
  ASSUME NEW lo \in Nat, NEW hi \in Nat, lo < hi, NEW slab \in Nat \ {0}, NEW pad \in Int
  PROVE  LET N == CeilDiv(hi - lo, slab)
             z(s) == lo + (s - 1) * slab
             n(s) == Min({hi, z(s) + slab}) - z(s)
             dz(s) == pad + (z(s) - lo)
         IN  /\ N \in Nat
             /\ \A s \in 1 .. N : z(s) \in Nat /\ n(s) \in Int /\ dz(s) \in Int /\ z(s) + n(s) <= hi
             /\ \A s \in 1 .. N : n(s) \in Nat
             /\ \A q \in pad .. pad + (hi - lo) - 1 : \E s \in 1 .. N : q \in dz(s) .. dz(s) + n(s) - 1
<1> DEFINE N == CeilDiv(hi - lo, slab)
           z(s) == lo + (s - 1) * slab
           n(s) == Min({hi, z(s) + slab}) - z(s)
           dz(s) == pad + (z(s) - lo)
<1>1. hi - lo \in Int /\ N \in Int /\ hi - lo <= N * slab /\ N * slab < (hi - lo) + slab
  BY CeilDivIs
<1> HIDE DEF N
<1>2. N > 0
  <2> SUFFICES ASSUME N <= 0
               PROVE  FALSE
    BY <1>1
  <2>1. N * slab <= 0 * slab
    BY <1>1, MulMono
  <2> QED
    BY <1>1, <2>1
<1>3. ASSUME NEW s \in 1 .. N
      PROVE  /\ (s - 1) * slab \in Nat /\ (s - 1) * slab < hi - lo
             /\ n(s) = IF hi <= z(s) + slab THEN hi - z(s) ELSE slab
  <2>1. (s - 1) * slab \in Nat
    BY MulMono
  <2>2. s * slab <= N * slab /\ s * slab = (s - 1) * slab + slab
    BY <1>1, MulMono
  <2> DEFINE x == (s - 1) * slab  w == s * slab  M == N * slab
  <2>3. x \in Nat /\ w \in Int /\ M \in Int
    BY <1>1, <2>1
  <2>4. x < hi - lo
    <3> HIDE DEF x, w, M
    <3> QED
      BY <1>1, <2>2, <2>3 DEF x, w, M
  <2>5. z(s) \in Int /\ z(s) + slab \in Int
    BY <2>1
  <2>6. Min({hi, z(s) + slab}) = IF hi <= z(s) + slab THEN hi ELSE z(s) + slab
    <3> HIDE DEF z
    <3> QED
      BY <2>5, MinOfTwo
  <2> HIDE DEF x, z
  <2>7. n(s) = IF hi <= z(s) + slab THEN hi - z(s) ELSE slab
    BY <2>5, <2>6
  <2> QED
    BY <2>1, <2>4, <2>7 DEF x
<1>4. ASSUME NEW s \in 1 .. N
      PROVE  z(s) \in Nat /\ n(s) \in Nat /\ dz(s) \in Int /\ z(s) + n(s) <= hi
  <2> DEFINE x == (s - 1) * slab
  <2>1. z(s) = lo + x /\ dz(s) = pad + (z(s) - lo)
    OBVIOUS
  <2>2. x \in Nat /\ x < hi - lo /\ n(s) = IF hi <= z(s) + slab THEN hi - z(s) ELSE slab
    BY <1>3
  <2> HIDE DEF x, z, n, dz
  <2> QED
    BY <2>1, <2>2
<1>5. ASSUME NEW q \in pad .. pad + (hi - lo) - 1
      PROVE  \E s \in 1 .. N : q \in dz(s) .. dz(s) + n(s) - 1
  <2> DEFINE x == q - pad  k == x \div slab  s == k + 1
  <2>1. x \in Int /\ 0 <= x /\ x < hi - lo /\ q = pad + x
    OBVIOUS
  <2> HIDE DEF x
  <2>2. k \in Int /\ slab * k <= x /\ x < slab * k + slab
    BY <2>1, DivBounds
  <2>3. k < N /\ ~(k < 0)
    <3>1. x < N * slab
      <4> DEFINE M == N * slab
      <4>1. M \in Int /\ hi - lo <= M
        BY <1>1
      <4> HIDE DEF M
      <4>2. x < M
        BY <2>1, <4>1
      <4> QED
        BY <4>2 DEF M
    <3>2. ~(x < 0 * slab)
      BY <2>1
    <3> QED
      BY <1>1, <2>1, <3>1, <3>2, DivLess
  <2> HIDE DEF k
  <2>4. s \in 1 .. N /\ s - 1 = k
    BY <1>1, <2>2, <2>3
  <2> HIDE DEF s
  <2>5. (s - 1) * slab = slab * k
    BY <2>2, <2>4
  <2> DEFINE y == (s - 1) * slab
  <2>6. z(s) = lo + y /\ dz(s) = pad + (z(s) - lo)
    OBVIOUS
  <2>7. y \in Nat /\ y <= x /\ x < y + slab /\ n(s) = IF hi <= z(s) + slab THEN hi - z(s) ELSE slab
    BY <1>3, <2>2, <2>4, <2>5
  <2> HIDE DEF y, z, n, dz
  <2>8. q \in dz(s) .. dz(s) + n(s) - 1
    BY <2>1, <2>6, <2>7
  <2> QED
    BY <2>4, <2>8
<1> HIDE DEF z, n, dz
<1>6. N \in Nat
  BY <1>1, <1>2
<1>7. /\ N \in Nat
      /\ \A s \in 1 .. N : z(s) \in Nat /\ n(s) \in Int /\ dz(s) \in Int /\ z(s) + n(s) <= hi
      /\ \A s \in 1 .. N : n(s) \in Nat
      /\ \A q \in pad .. pad + (hi - lo) - 1 : \E s \in 1 .. N : q \in dz(s) .. dz(s) + n(s) - 1
  BY <1>4, <1>5, <1>6
<1> QED
  BY <1>7 DEF N, z, n, dz

LEMMA RawReadRight ==
  ASSUME Opened, reader.by = "raw", NEW b, NEW v, IsBox(b), Cut(v, b),
         NEW out, out = [p \in Cells(Shape(b)) |-> out[p]]
  PROVE  Filled(RawReadInto(out, v, Minus(v.lo, b.lo)), b, v)
<1> DEFINE D     == Cells(Shape(b))
           pad   == Minus(v.lo, b.lo)
           rows  == Shape(v)[2]
           whole == v.lo[2] = 0 /\ v.hi[2] = Size[2]
           slab  == Max({1, SlabVoxels \div rows})
           N     == CeilDiv(Shape(v)[1], slab)
           pread(first, count) == [i \in 1 .. count |-> File[Header + first + i]]
           z0(s) == v.lo[1] + (s - 1) * slab
           n(s)  == Min({v.hi[1], z0(s) + slab}) - z0(s)
           got(s) == IF whole THEN pread(z0(s) * Size[2], n(s) * rows)
                     ELSE [i \in 1 .. n(s) * rows |->
                             pread((z0(s) + (i - 1) \div rows) * Size[2] + v.lo[2], rows)[((i - 1) % rows) + 1]]
           dz(s) == pad[1] + (z0(s) - v.lo[1])
           into(s) == (dz(s) .. dz(s) + n(s) - 1) \X (pad[2] .. pad[2] + rows - 1)
           put(s, p) == got(s)[(p[1] - dz(s)) * rows + p[2] - pad[2] + 1]
           step(r, s) == IF s = 0 THEN out
                         ELSE [p \in DOMAIN out |-> IF p \in into(s) THEN put(s, p) ELSE r[s - 1][p]]
           h == CHOOSE r : r = [s \in 0 .. N |-> step(r, s)]
           I == [s \in 1 .. N |-> into(s)]
           G == [s \in 1 .. N |-> [p \in D |-> put(s, p)]]
<1>1. RawReadInto(out, v, pad) = h[N]
  BY DEF RawReadInto
<1>2. /\ rows = v.hi[2] - v.lo[2] /\ Shape(v)[1] = v.hi[1] - v.lo[1]
      /\ pad[1] = v.lo[1] - b.lo[1] /\ pad[2] = v.lo[2] - b.lo[2]
  BY ShapeIs, MinusPair
<1>3. /\ v.lo[1] \in Nat /\ v.hi[1] \in Nat /\ v.lo[1] < v.hi[1] /\ v.hi[1] <= Size[1]
      /\ v.lo[2] \in Nat /\ v.hi[2] \in Nat /\ v.lo[2] < v.hi[2] /\ v.hi[2] <= Size[2]
      /\ b.lo[1] \in Int /\ b.lo[2] \in Int /\ Size[1] \in Nat /\ Size[2] \in Nat
  BY BothAxes, Sizes DEF Cut, IsBox
<1>4. rows \in Nat \ {0} /\ pad[1] \in Int /\ pad[2] \in Int
  BY <1>2, <1>3
<1>5. slab \in Nat \ {0}
  <2>1. SlabVoxels \div rows \in Int
    BY <1>4, Sizes
  <2> DEFINE q == SlabVoxels \div rows
  <2> HIDE DEF q
  <2>2. Max({1, q}) = IF 1 >= q THEN 1 ELSE q
    BY <2>1, MaxOfTwo DEF q
  <2> QED
    BY <2>1, <2>2 DEF q
<1>6. /\ N \in Nat
      /\ \A s \in 1 .. N : z0(s) \in Nat /\ n(s) \in Int /\ dz(s) \in Int /\ z0(s) + n(s) <= v.hi[1]
      /\ \A s \in 1 .. N : n(s) \in Nat
      /\ \A q \in pad[1] .. pad[1] + (v.hi[1] - v.lo[1]) - 1 : \E s \in 1 .. N : q \in dz(s) .. dz(s) + n(s) - 1
  <2> DEFINE sl == slab  pd == pad[1]  sh == Shape(v)[1]
  <2> HIDE DEF sl, pd, sh
  <2>1. sl \in Nat \ {0} /\ pd \in Int /\ sh = v.hi[1] - v.lo[1]
    BY <1>2, <1>4, <1>5 DEF sl, pd, sh
  <2>2. LET M == CeilDiv(v.hi[1] - v.lo[1], sl)
            z(s) == v.lo[1] + (s - 1) * sl
            m(s) == Min({v.hi[1], z(s) + sl}) - z(s)
            d(s) == pd + (z(s) - v.lo[1])
        IN  /\ M \in Nat
            /\ \A s \in 1 .. M : z(s) \in Nat /\ m(s) \in Int /\ d(s) \in Int /\ z(s) + m(s) <= v.hi[1]
            /\ \A s \in 1 .. M : m(s) \in Nat
            /\ \A q \in pd .. pd + (v.hi[1] - v.lo[1]) - 1 : \E s \in 1 .. M : q \in d(s) .. d(s) + m(s) - 1
    BY <1>3, <2>1, SlabTurns
  <2>3. N = CeilDiv(v.hi[1] - v.lo[1], sl)
    BY <2>1 DEF sl, sh
  <2> QED
    BY <2>2, <2>3 DEF sl, pd
<1> HIDE DEF slab
<1>7. DOMAIN out = D
  OBVIOUS
<1>8. Fills(h, N, D, out, I, G)
  <2> HIDE DEF N, into, put, D, pad
  <2>1. PICK e : Fills(e, N, D, out, I, G)
    <3> HIDE DEF I, G
    <3> QED
      BY <1>6, FillExists DEF D
  <2>2. \A s \in 1 .. N : I[s] = into(s) /\ \A p \in D : G[s][p] = put(s, p)
    OBVIOUS
  <2> HIDE DEF I, G
  <2>3. \A s \in 0 .. N : e[s] = step(e, s)
    <3> SUFFICES ASSUME NEW s \in 0 .. N
                 PROVE  e[s] = step(e, s)
      OBVIOUS
    <3>1. CASE s = 0
      BY <2>1, <3>1 DEF Fills
    <3>2. CASE s # 0
      <4>1. s \in 1 .. N
        BY <1>6, <3>2
      <4>2. e[s] = [p \in D |-> IF p \in I[s] THEN G[s][p] ELSE e[s - 1][p]]
        BY <2>1, <4>1 DEF Fills
      <4>3. [p \in D |-> IF p \in I[s] THEN G[s][p] ELSE e[s - 1][p]]
              = [p \in D |-> IF p \in into(s) THEN put(s, p) ELSE e[s - 1][p]]
        BY <2>2, <4>1
      <4> QED
        BY <1>7, <3>2, <4>2, <4>3
    <3> QED
      BY <3>1, <3>2
  <2>4. e = [s \in 0 .. N |-> e[s]]
    BY <2>1 DEF Fills
  <2> HIDE DEF step
  <2>5. e = [s \in 0 .. N |-> step(e, s)]
    BY <2>3, <2>4
  <2>6. h = [s \in 0 .. N |-> step(h, s)]
    BY <2>5
  <2> HIDE DEF h
  <2>7. \A s \in 0 .. N : h[s] = step(h, s)
    BY <2>6
  <2>8. h = [s \in 0 .. N |-> h[s]]
    <3> DEFINE w(s) == step(h, s)
    <3>1. h = [s \in 0 .. N |-> w(s)]
      BY <2>6
    <3> HIDE DEF w
    <3>2. \A s \in 0 .. N : h[s] = w(s)
      BY <3>1
    <3> QED
      BY <3>1, <3>2
  <2>9. h[0] = out
    <3>1. 0 \in 0 .. N
      BY <1>6
    <3> QED
      BY <2>7, <3>1 DEF step
  <2>10. ASSUME NEW s \in 1 .. N
         PROVE  h[s] = [p \in D |-> IF p \in I[s] THEN G[s][p] ELSE h[s - 1][p]]
    <3>1. s \in 0 .. N /\ s # 0
      BY <1>6
    <3>2. h[s] = [p \in D |-> IF p \in into(s) THEN put(s, p) ELSE h[s - 1][p]]
      BY <1>7, <2>7, <3>1 DEF step
    <3> QED
      BY <2>2, <3>2
  <2> QED
    BY <2>8, <2>9, <2>10 DEF Fills
<1>9. h[N] = [p \in D |-> h[N][p]]
  <2> HIDE DEF N, D, h, I, G
  <2>1. CASE N = 0
    BY <1>8, <2>1 DEF Fills, D
  <2>2. CASE N # 0
    <3>1. N \in 1 .. N
      BY <1>6, <2>2
    <3>2. h[N] = [p \in D |-> IF p \in I[N] THEN G[N][p] ELSE h[N - 1][p]]
      BY <1>8, <3>1 DEF Fills
    <3> QED
      BY <3>2
  <2> QED
    BY <2>1, <2>2
<1>10. ASSUME NEW p \in D, \A a \in Axes : v.lo[a] <= b.lo[a] + p[a] /\ b.lo[a] + p[a] < v.hi[a]
       PROVE  h[N][p] = Voxel("raw", b.lo[1] + p[1], b.lo[2] + p[2])
  <2> DEFINE val == Voxel("raw", b.lo[1] + p[1], b.lo[2] + p[2])
  <2>1. /\ p[1] \in Int /\ p[2] \in Int /\ p = <<p[1], p[2]>>
        /\ v.lo[1] <= b.lo[1] + p[1] /\ b.lo[1] + p[1] < v.hi[1]
        /\ v.lo[2] <= b.lo[2] + p[2] /\ b.lo[2] + p[2] < v.hi[2]
    BY <1>10, CellPair, BothAxes
  <2>2. p[1] \in pad[1] .. pad[1] + (v.hi[1] - v.lo[1]) - 1 /\ p[2] \in pad[2] .. pad[2] + rows - 1
    BY <1>2, <1>3, <1>4, <2>1
  <2>3. \E s \in 1 .. N : p \in I[s]
    <3>1. PICK s \in 1 .. N : p[1] \in dz(s) .. dz(s) + n(s) - 1
      BY <1>6, <2>2
    <3> HIDE DEF dz, n, N, pad, rows
    <3>2. <<p[1], p[2]>> \in into(s)
      BY <2>2, <3>1
    <3> HIDE DEF into
    <3>3. p \in I[s]
      BY <2>1, <3>2
    <3> QED
      BY <3>3
  <2>4. ASSUME NEW s \in 1 .. N, p \in I[s]
        PROVE  G[s][p] = val
    <3>1. G[s][p] = put(s, p)
      <4> HIDE DEF put, N, D
      <4> QED
        BY <2>4
    <3>2. p \in into(s)
      <4> HIDE DEF into, N
      <4> QED
        BY <2>4
    <3> DEFINE i == p[1] - dz(s)  j == p[2] - pad[2]
    <3>3. p[1] \in dz(s) .. dz(s) + n(s) - 1 /\ p[2] \in pad[2] .. pad[2] + rows - 1
      <4> HIDE DEF dz, n, rows, pad
      <4> QED
        BY <2>1, <3>2
    <3>4. z0(s) \in Nat /\ n(s) \in Nat /\ dz(s) \in Int /\ z0(s) + n(s) <= v.hi[1] /\ dz(s) = pad[1] + (z0(s) - v.lo[1])
      BY <1>6
    <3> HIDE DEF z0, n, dz, rows, pad
    <3>5. i \in 0 .. n(s) - 1 /\ j \in 0 .. rows - 1 /\ i \in Nat /\ j \in Nat
      BY <1>4, <2>1, <3>3, <3>4
    <3>6. z0(s) + i = b.lo[1] + p[1] /\ v.lo[2] + j = b.lo[2] + p[2]
      BY <1>2, <1>3, <2>1, <3>4
    <3>7. z0(s) + i \in 0 .. Size[1] - 1 /\ v.lo[2] + j \in 0 .. Size[2] - 1
      BY <1>3, <2>1, <3>6
    <3>8. put(s, p) = got(s)[i * rows + j + 1]
      <4> DEFINE x == (p[1] - dz(s)) * rows
      <4>1. x \in Int
        BY <1>4, <2>1, <3>4
      <4> HIDE DEF x
      <4>2. x + p[2] - pad[2] + 1 = x + (p[2] - pad[2]) + 1
        BY <1>4, <2>1, <4>1
      <4> HIDE DEF got
      <4> QED
        BY <4>2 DEF x
    <3> HIDE DEF i, j, put
    <3>9. CASE whole
      <4>1. rows = Size[2] /\ v.lo[2] = 0
        BY <1>2, <1>3, <3>9
      <4>2. got(s) = [k \in 1 .. n(s) * Size[2] |-> File[Header + z0(s) * Size[2] + k]]
        BY <3>9, <4>1
      <4>3. j \in 0 .. Size[2] - 1
        BY <3>5, <4>1
      <4>4. got(s)[i * Size[2] + j + 1] = Voxel("raw", z0(s) + i, j)
        <5> HIDE DEF got
        <5> QED
          BY <3>4, <3>5, <3>7, <4>2, <4>3, WholePlanes
      <4>5. j = b.lo[2] + p[2]
        BY <3>5, <3>6, <4>1
      <4> HIDE DEF got, whole
      <4> QED
        BY <3>1, <3>6, <3>8, <4>1, <4>4, <4>5
    <3>10. CASE ~whole
      <4>1. got(s) = [k \in 1 .. n(s) * rows |->
              [m \in 1 .. rows |-> File[Header + ((z0(s) + (k - 1) \div rows) * Size[2] + v.lo[2]) + m]][((k - 1) % rows) + 1]]
        BY <3>10
      <4>2. got(s)[i * rows + j + 1] = Voxel("raw", z0(s) + i, v.lo[2] + j)
        <5> DEFINE z == z0(s)  m == n(s)  y == v.lo[2]
        <5>1. z \in Nat /\ m \in Nat /\ y \in Nat /\ i \in 0 .. m - 1 /\ j \in 0 .. rows - 1 /\ rows \in Nat \ {0}
          BY <1>3, <1>4, <3>4, <3>5
        <5>2. z + i \in 0 .. Size[1] - 1 /\ y + j \in 0 .. Size[2] - 1
          BY <3>7
        <5>3. got(s) = PartOf(z, m, rows, y)
          BY <4>1 DEF PartOf, z, m, y
        <5> HIDE DEF z, m, y, got
        <5>4. PartOf(z, m, rows, y)[i * rows + j + 1] = Voxel("raw", z + i, y + j)
          BY <5>1, <5>2, PartPlanes
        <5> QED
          BY <5>3, <5>4 DEF z, y
      <4> HIDE DEF got, whole
      <4> QED
        BY <3>1, <3>6, <3>8, <4>2
    <3> QED
      BY <3>9, <3>10
  <2> HIDE DEF val, I, G, h, N, D
  <2>5. h[N][p] = val
    <3>1. N \in Nat /\ p \in D /\ \A s \in 1 .. N : p \in I[s] => G[s][p] = val
      BY <1>6, <2>4
    <3> QED
      BY <1>8, <2>3, <3>1, FillResult
  <2> QED
    BY <2>5 DEF val
<1> HIDE DEF h, N
<1> QED
  BY <1>1, <1>9, <1>10 DEF Filled

(***************************************************************************)
(* Chunks of a store.                                                      *)
(***************************************************************************)
\* What is copied of a chunk, on one axis: the part of the box that lies in it.
CopiedPart(lo, hi, bl, C, ca, pa) ==
  LET c0 == ca * C
      s0 == Max({lo, c0})
      s1 == Min({hi, c0 + C})
      to == (lo - bl) + (s0 - lo)
  IN  /\ pa \in to .. to + s1 - s0 - 1 <=> (lo <= bl + pa /\ bl + pa < hi /\ (bl + pa) \div C = ca)
      /\ c0 + ((pa - to) + (s0 - c0)) = bl + pa

LEMMA ChunkAxis ==
  ASSUME NEW lo \in Int, NEW hi \in Int, NEW bl \in Int, NEW C \in Nat \ {0}, NEW ca \in Int, NEW pa \in Int
  PROVE  CopiedPart(lo, hi, bl, C, ca, pa)
<1> DEFINE c0 == ca * C
           s0 == Max({lo, c0})
           s1 == Min({hi, c0 + C})
           to == (lo - bl) + (s0 - lo)
           x  == bl + pa
<1>1. c0 \in Int /\ c0 + C \in Int /\ x \in Int
  OBVIOUS
<1>2. x \div C = ca <=> c0 <= x /\ x < c0 + C
  <2>1. x \div C < ca <=> x < ca * C
    BY <1>1, DivLess
  <2>2. x \div C < ca + 1 <=> x < (ca + 1) * C
    BY <1>1, DivLess
  <2>3. (ca + 1) * C = c0 + C /\ x \div C \in Int
    BY <1>1, DivBounds
  <2> DEFINE q == x \div C
  <2> HIDE DEF q, x
  <2>4. q = ca <=> ~(q < ca) /\ q < ca + 1
    BY <2>3 DEF q
  <2> HIDE DEF c0
  <2> QED
    BY <1>1, <2>1, <2>2, <2>3, <2>4 DEF q, c0
<1> HIDE DEF c0
<1>3. s0 = (IF lo >= c0 THEN lo ELSE c0) /\ s1 = (IF hi <= c0 + C THEN hi ELSE c0 + C)
  BY <1>1, MaxOfTwo, MinOfTwo
<1>4. to = s0 - bl /\ s0 \in Int
  BY <1>1, <1>3
<1>5. to = (lo - bl) + (s0 - lo) /\ x = bl + pa
  OBVIOUS
<1> HIDE DEF s0, s1, to
<1>6. pa \in to .. to + s1 - s0 - 1 <=> (lo <= x /\ x < hi /\ x \div C = ca)
  <2> HIDE DEF x
  <2> QED
    BY <1>1, <1>2, <1>3, <1>4, <1>5
<1>7. c0 + ((pa - to) + (s0 - c0)) = x
  BY <1>1, <1>4
<1> QED
  BY <1>6, <1>7 DEF CopiedPart, c0, s0, s1, to, x

LEMMA ZarrReadRight ==
  ASSUME Opened, reader.kind = "zarr", NEW b, NEW v, IsBox(b), Cut(v, b),
         NEW out, out = [p \in Cells(Shape(b)) |-> out[p]]
  PROVE  Filled(ZarrReadInto(out, v, Minus(v.lo, b.lo)), b, v)
<1> DEFINE D     == Cells(Shape(b))
           pad   == Minus(v.lo, b.lo)
           first == [a \in Axes |-> v.lo[a] \div ChunkShape[a]]
           count == [a \in Axes |-> (v.hi[a] - 1) \div ChunkShape[a] + 1 - first[a]]
           N     == count[1] * count[2]
           stored(c) == c[1] \div PerShard[1] \in dst.rows
           inner(c, p) == IF stored(c) THEN <<dst.by, [a \in Axes |-> c[a] * ChunkShape[a] + p[a]]>> ELSE Fill
           c(k)  == Plus(first, <<(k - 1) \div count[2], (k - 1) % count[2]>>)
           c0(k) == [a \in Axes |-> c(k)[a] * ChunkShape[a]]
           s0(k) == [a \in Axes |-> Max({v.lo[a], c0(k)[a]})]
           s1(k) == [a \in Axes |-> Min({v.hi[a], c0(k)[a] + ChunkShape[a]})]
           to(k) == Plus(pad, Minus(s0(k), v.lo))
           into(k, p) == \A a \in Axes : p[a] \in to(k)[a] .. to(k)[a] + s1(k)[a] - s0(k)[a] - 1
           put(k, p) == inner(c(k), Plus(Minus(p, to(k)), Minus(s0(k), c0(k))))
           step(r, k) == IF k = 0 THEN out
                         ELSE [p \in DOMAIN out |-> IF into(k, p) THEN put(k, p) ELSE r[k - 1][p]]
           h == CHOOSE r : r = [k \in 0 .. N |-> step(r, k)]
           I == [k \in 1 .. N |-> {p \in D : into(k, p)}]
           G == [k \in 1 .. N |-> [p \in D |-> put(k, p)]]
<1>1. ZarrReadInto(out, v, pad) = h[N]
  BY DEF ZarrReadInto
<1>2. ASSUME NEW a \in Axes
      PROVE  /\ ChunkShape[a] \in Nat \ {0} /\ v.lo[a] \in Nat /\ v.hi[a] \in Nat /\ v.lo[a] < v.hi[a] /\ v.hi[a] <= Size[a]
             /\ b.lo[a] \in Int /\ Size[a] \in Nat /\ pad[a] = v.lo[a] - b.lo[a]
  BY ShardIs, BothAxes, MinusPair, Sizes DEF Cut, IsBox
<1>3. ASSUME NEW a \in Axes
      PROVE  /\ first[a] \in Int /\ count[a] \in Nat \ {0}
             /\ \A x \in v.lo[a] .. v.hi[a] - 1 :
                  x \div ChunkShape[a] \in Int /\ x \div ChunkShape[a] - first[a] \in 0 .. count[a] - 1
  <2> DEFINE C == ChunkShape[a]  lo == v.lo[a]  hi == v.hi[a]  f == lo \div C  l == (hi - 1) \div C
  <2>1. C \in Nat \ {0} /\ lo \in Int /\ hi \in Int /\ lo < hi /\ hi - 1 \in Int
    BY <1>2
  <2>2. first[a] = f /\ count[a] = l + 1 - f
    OBVIOUS
  <2> HIDE DEF C, lo, hi
  <2>3. f \in Int /\ l \in Int
    BY <2>1, DivBounds
  <2>4. ASSUME NEW x \in lo .. hi - 1
        PROVE  x \div C \in Int /\ f <= x \div C /\ x \div C <= l
    <3>1. x \in Int /\ lo <= x /\ x <= hi - 1
      BY <2>1
    <3>2. x \div C \in Int /\ C * (x \div C) <= x /\ x < C * (x \div C) + C
      BY <2>1, <3>1, DivBounds
    <3> DEFINE q == x \div C
    <3>5. q \in Int /\ q + 1 \in Int /\ C * q <= x /\ x < C * q + C
      BY <3>2
    <3> HIDE DEF q
    <3>3. lo \div C < q + 1 <=> lo < (q + 1) * C
      BY <2>1, <3>5, DivLess
    <3>4. (hi - 1) \div C < q <=> hi - 1 < q * C
      BY <2>1, <3>5, DivLess
    <3> HIDE DEF f, l
    <3>6. (q + 1) * C = C * q + C /\ q * C = C * q
      BY <2>1, <3>5
    <3> DEFINE z == C * q
    <3>7. z \in Int
      BY <2>1, <3>5
    <3> HIDE DEF z
    <3>8. lo < z + C /\ ~(hi - 1 < z)
      BY <2>1, <3>1, <3>5, <3>7 DEF z
    <3>9. f < q + 1 /\ ~(l < q)
      BY <3>3, <3>4, <3>6, <3>8 DEF z, f, l
    <3> QED
      BY <2>3, <3>5, <3>9 DEF q
  <2>5. f <= l
    <3>1. lo \in lo .. hi - 1
      BY <2>1
    <3> QED
      BY <2>4, <3>1
  <2> HIDE DEF f, l, first, count
  <2>6. first[a] \in Int /\ count[a] \in Nat \ {0}
    BY <2>2, <2>3, <2>5
  <2>7. ASSUME NEW x \in lo .. hi - 1
        PROVE  x \div C \in Int /\ x \div C - first[a] \in 0 .. count[a] - 1
    <3> DEFINE q == x \div C
    <3>1. q \in Int /\ f <= q /\ q <= l
      BY <2>4
    <3> HIDE DEF q
    <3> QED
      BY <2>2, <2>3, <3>1 DEF q
  <2> QED
    BY <2>6, <2>7 DEF C, lo, hi
<1> HIDE DEF first, count
<1>4. N \in Nat /\ count[1] \in Nat \ {0} /\ count[2] \in Nat \ {0} /\ first[1] \in Int /\ first[2] \in Int
  <2>1. count[1] \in Nat \ {0} /\ count[2] \in Nat \ {0} /\ first[1] \in Int /\ first[2] \in Int
    BY <1>3, BothAxes
  <2> QED
    BY <2>1, MulMono
<1>5. \A k : c(k)[1] = first[1] + (k - 1) \div count[2] /\ c(k)[2] = first[2] + ((k - 1) % count[2])
  BY PlusPair
<1>6. ASSUME NEW k \in 1 .. N
      PROVE  c(k)[1] \in Int /\ c(k)[2] \in Int
  <2>1. k - 1 \in Int
    BY <1>4
  <2>2. (k - 1) \div count[2] \in Int /\ (k - 1) % count[2] \in Int
    BY <1>4, <2>1, DivBounds
  <2> QED
    BY <1>4, <1>5, <2>2
<1> HIDE DEF c
<1>7. ASSUME NEW k \in 1 .. N, NEW a \in Axes, NEW p, p[a] \in Int
      PROVE  /\ p[a] \in to(k)[a] .. to(k)[a] + s1(k)[a] - s0(k)[a] - 1
                  <=> (v.lo[a] <= b.lo[a] + p[a] /\ b.lo[a] + p[a] < v.hi[a] /\ (b.lo[a] + p[a]) \div ChunkShape[a] = c(k)[a])
             /\ c(k)[a] * ChunkShape[a] + Plus(Minus(p, to(k)), Minus(s0(k), c0(k)))[a] = b.lo[a] + p[a]
  <2> DEFINE lo == v.lo[a]  hi == v.hi[a]  bl == b.lo[a]  C == ChunkShape[a]  ca == c(k)[a]  pa == p[a]
             d0 == ca * C
             t0 == Max({lo, d0})
             t1 == Min({hi, d0 + C})
             tt == (lo - bl) + (t0 - lo)
  <2>1. lo \in Int /\ hi \in Int /\ bl \in Int /\ C \in Nat \ {0} /\ ca \in Int /\ pa \in Int
    BY <1>2, <1>6, <1>7, BothAxes
  <2>2. c0(k)[a] = d0 /\ s0(k)[a] = t0 /\ s1(k)[a] = t1
    OBVIOUS
  <2>3. to(k)[a] = tt
    <3>1. to(k)[a] = pad[a] + (s0(k)[a] - v.lo[a])
      <4> HIDE DEF pad, s0
      <4> QED
        BY DEF Plus, Minus
    <3> QED
      BY <1>2, <2>2, <3>1
  <2>4. Plus(Minus(p, to(k)), Minus(s0(k), c0(k)))[a] = (p[a] - to(k)[a]) + (s0(k)[a] - c0(k)[a])
    <3> HIDE DEF to, s0, c0
    <3> QED
      BY DEF Plus, Minus
  <2> HIDE DEF lo, hi, bl, C, ca, pa
  <2>5. /\ pa \in tt .. tt + t1 - t0 - 1 <=> (lo <= bl + pa /\ bl + pa < hi /\ (bl + pa) \div C = ca)
        /\ d0 + ((pa - tt) + (t0 - d0)) = bl + pa
    <3>1. CopiedPart(lo, hi, bl, C, ca, pa)
      BY <2>1, ChunkAxis
    <3> QED
      BY <3>1 DEF CopiedPart
  <2> HIDE DEF d0, t0, t1, tt, to, s0, s1, c0
  <2>6. pa \in to(k)[a] .. to(k)[a] + s1(k)[a] - s0(k)[a] - 1 <=> (lo <= bl + pa /\ bl + pa < hi /\ (bl + pa) \div C = ca)
    BY <2>2, <2>3, <2>5
  <2>7. ca * C + Plus(Minus(p, to(k)), Minus(s0(k), c0(k)))[a] = bl + pa
    BY <2>2, <2>3, <2>4, <2>5 DEF pa, d0
  <2> QED
    BY <2>6, <2>7 DEF lo, hi, bl, C, ca, pa
<1>8. DOMAIN out = D
  OBVIOUS
<1>9. Fills(h, N, D, out, I, G)
  <2> HIDE DEF N, into, put, D, pad
  <2>1. PICK e : Fills(e, N, D, out, I, G)
    <3> HIDE DEF I, G
    <3> QED
      BY <1>4, FillExists DEF D
  <2>2. \A k \in 1 .. N : \A p \in D : (p \in I[k] <=> into(k, p)) /\ G[k][p] = put(k, p)
    OBVIOUS
  <2> HIDE DEF I, G
  <2>3. \A k \in 0 .. N : e[k] = step(e, k)
    <3> SUFFICES ASSUME NEW k \in 0 .. N
                 PROVE  e[k] = step(e, k)
      OBVIOUS
    <3>1. CASE k = 0
      BY <2>1, <3>1 DEF Fills
    <3>2. CASE k # 0
      <4>1. k \in 1 .. N
        BY <1>4, <3>2
      <4>2. e[k] = [p \in D |-> IF p \in I[k] THEN G[k][p] ELSE e[k - 1][p]]
        BY <2>1, <4>1 DEF Fills
      <4>3. [p \in D |-> IF p \in I[k] THEN G[k][p] ELSE e[k - 1][p]]
              = [p \in D |-> IF into(k, p) THEN put(k, p) ELSE e[k - 1][p]]
        BY <2>2, <4>1
      <4> QED
        BY <1>8, <3>2, <4>2, <4>3
    <3> QED
      BY <3>1, <3>2
  <2>4. e = [k \in 0 .. N |-> e[k]]
    BY <2>1 DEF Fills
  <2> HIDE DEF step
  <2>5. e = [k \in 0 .. N |-> step(e, k)]
    BY <2>3, <2>4
  <2>6. h = [k \in 0 .. N |-> step(h, k)]
    BY <2>5
  <2> HIDE DEF h
  <2>7. \A k \in 0 .. N : h[k] = step(h, k)
    BY <2>6
  <2>8. h = [k \in 0 .. N |-> h[k]]
    <3> DEFINE w(k) == step(h, k)
    <3>1. h = [k \in 0 .. N |-> w(k)]
      BY <2>6
    <3> HIDE DEF w
    <3>2. \A k \in 0 .. N : h[k] = w(k)
      BY <3>1
    <3> QED
      BY <3>1, <3>2
  <2>9. h[0] = out
    <3>1. 0 \in 0 .. N
      BY <1>4
    <3> QED
      BY <2>7, <3>1 DEF step
  <2>10. ASSUME NEW k \in 1 .. N
         PROVE  h[k] = [p \in D |-> IF p \in I[k] THEN G[k][p] ELSE h[k - 1][p]]
    <3>1. k \in 0 .. N /\ k # 0
      BY <1>4
    <3>2. h[k] = [p \in D |-> IF into(k, p) THEN put(k, p) ELSE h[k - 1][p]]
      BY <1>8, <2>7, <3>1 DEF step
    <3> QED
      BY <2>2, <3>2
  <2> QED
    BY <2>8, <2>9, <2>10 DEF Fills
<1>10. h[N] = [p \in D |-> h[N][p]]
  <2> HIDE DEF N, D, h, I, G
  <2>1. CASE N = 0
    BY <1>9, <2>1 DEF Fills, D
  <2>2. CASE N # 0
    <3>1. N \in 1 .. N
      BY <1>4, <2>2
    <3>2. h[N] = [p \in D |-> IF p \in I[N] THEN G[N][p] ELSE h[N - 1][p]]
      BY <1>9, <3>1 DEF Fills
    <3> QED
      BY <3>2
  <2> QED
    BY <2>1, <2>2
<1>11. ASSUME NEW p \in D, \A a \in Axes : v.lo[a] <= b.lo[a] + p[a] /\ b.lo[a] + p[a] < v.hi[a]
       PROVE  h[N][p] = Voxel(reader.by, b.lo[1] + p[1], b.lo[2] + p[2])
  <2> DEFINE x == b.lo[1] + p[1]  y == b.lo[2] + p[2]
             val == Voxel(reader.by, x, y)
             k1 == x \div ChunkShape[1]  k2 == y \div ChunkShape[2]
             k == (k1 - first[1]) * count[2] + (k2 - first[2]) + 1
  <2>1. p[1] \in Int /\ p[2] \in Int
    BY CellPair
  <2>2. x \in v.lo[1] .. v.hi[1] - 1 /\ y \in v.lo[2] .. v.hi[2] - 1
    BY <1>2, <1>11, <2>1, BothAxes
  <2>3. x \in 0 .. Size[1] - 1 /\ y \in 0 .. Size[2] - 1
    BY <1>2, <2>2, BothAxes
  <2>4. /\ k1 \in Int /\ k2 \in Int
        /\ k1 - first[1] \in 0 .. count[1] - 1 /\ k2 - first[2] \in 0 .. count[2] - 1
    BY <1>3, <2>2, BothAxes
  <2>5. k \in 1 .. N /\ c(k)[1] = k1 /\ c(k)[2] = k2
    <3> DEFINE i == k1 - first[1]  j == k2 - first[2]
    <3>1. i \in 0 .. count[1] - 1 /\ j \in 0 .. count[2] - 1 /\ k1 = first[1] + i /\ k2 = first[2] + j
      <4> HIDE DEF k1, k2
      <4> QED
        BY <1>4, <2>4
    <3> HIDE DEF i, j, k1, k2
    <3>2. /\ i * count[2] + j + 1 \in 1 .. count[1] * count[2]
          /\ ((i * count[2] + j + 1) - 1) \div count[2] = i /\ ((i * count[2] + j + 1) - 1) % count[2] = j
      BY <1>4, <3>1, PlaneIndex
    <3>3. k = i * count[2] + j + 1
      BY DEF i, j
    <3> HIDE DEF k
    <3> QED
      BY <1>5, <3>1, <3>2, <3>3
  <2>6. p \in I[k]
    <3>1. into(k, p)
      <4> HIDE DEF k, to, s0, s1, c0, N, D
      <4>1. /\ p[1] \in to(k)[1] .. to(k)[1] + s1(k)[1] - s0(k)[1] - 1
            /\ p[2] \in to(k)[2] .. to(k)[2] + s1(k)[2] - s0(k)[2] - 1
        BY <1>7, <1>11, <2>1, <2>5, BothAxes
      <4> QED
        BY <4>1, BothAxes
    <3> HIDE DEF into, k, N, D
    <3> QED
      BY <2>5, <3>1
  <2>7. ASSUME NEW s \in 1 .. N, p \in I[s]
        PROVE  G[s][p] = val
    <3>1. G[s][p] = put(s, p) /\ into(s, p)
      <4> HIDE DEF put, N, D, into
      <4> QED
        BY <2>7
    <3> DEFINE w == Plus(Minus(p, to(s)), Minus(s0(s), c0(s)))
    <3>2. put(s, p) = inner(c(s), w)
      OBVIOUS
    <3>3. /\ p[1] \in to(s)[1] .. to(s)[1] + s1(s)[1] - s0(s)[1] - 1
          /\ p[2] \in to(s)[2] .. to(s)[2] + s1(s)[2] - s0(s)[2] - 1
      <4> HIDE DEF to, s0, s1
      <4> QED
        BY <3>1, BothAxes
    <3> HIDE DEF to, s0, s1, c0, put, into, N
    <3>4. x \div ChunkShape[1] = c(s)[1]
      <4> HIDE DEF D
      <4> QED
        BY <1>7, <2>1, <3>3, BothAxes
    <3>5. c(s)[1] * ChunkShape[1] + w[1] = x /\ c(s)[2] * ChunkShape[2] + w[2] = y
      <4> HIDE DEF D
      <4> QED
        BY <1>7, <2>1, BothAxes
    <3> HIDE DEF w
    <3>6. c(s)[1] \div PerShard[1] \in dst.rows /\ dst.by = reader.by
      <4>1. dst.rows = ShardRows /\ dst.by = reader.by
        BY DEF Opened
      <4>2. (x \div ChunkShape[1]) \div PerShard[1] \in ShardRows
        <5> HIDE DEF x
        <5> QED
          BY <2>3, RowStored
      <4> QED
        BY <3>4, <4>1, <4>2
    <3>7. inner(c(s), w) = <<reader.by, [a \in Axes |-> c(s)[a] * ChunkShape[a] + w[a]]>>
      BY <3>6
    <3>8. [a \in Axes |-> c(s)[a] * ChunkShape[a] + w[a]] = <<x, y>>
      <4> HIDE DEF x, y
      <4> QED
        BY <3>5 DEF Axes
    <3> HIDE DEF inner, x, y
    <3> QED
      BY <3>1, <3>2, <3>7, <3>8 DEF Voxel
  <2> HIDE DEF val, I, G, h, N, D, k
  <2>8. h[N][p] = val
    <3>1. N \in Nat /\ p \in D /\ \A s \in 1 .. N : p \in I[s] => G[s][p] = val
      BY <1>4, <2>7
    <3> QED
      BY <1>9, <2>5, <2>6, <3>1, FillResult
  <2> QED
    BY <2>8 DEF val
<1> HIDE DEF h, N
<1> QED
  BY <1>1, <1>10, <1>11 DEF Filled

LEMMA DeviceReadRight ==
  ASSUME Opened, NEW b, NEW v, IsBox(b), Cut(v, b)
  PROVE  Right(DeviceRead(b, v), b)
<1> DEFINE empty == [p \in Cells(Shape(b)) |-> Garbage]
           pad   == Minus(v.lo, b.lo)
           got   == IF reader.kind = "zarr" THEN ZarrReadInto(empty, v, pad) ELSE RawReadInto(empty, v, pad)
<1>1. empty = [p \in Cells(Shape(b)) |-> empty[p]]
  OBVIOUS
<1>2. DeviceRead(b, v) = EdgePad(got, pad, Shape(v))
  BY DEF DeviceRead
<1> HIDE DEF empty
<1>3. Filled(got, b, v)
  <2>1. CASE reader.kind = "zarr"
    BY <1>1, <2>1, ZarrReadRight
  <2>2. CASE reader.kind = "raw"
    <3>1. reader.by = "raw" /\ reader.kind # "zarr"
      BY <2>2 DEF Opened
    <3> QED
      BY <1>1, <3>1, RawReadRight
  <2> QED
    BY <2>1, <2>2 DEF Opened
<1> HIDE DEF got
<1> QED
  BY <1>2, <1>3, EdgePadRight

(***************************************************************************)
(* The filter, with the planes each slab of it needs.                      *)
(***************************************************************************)
\* Voxel q, counted from the volume's corner, or the nearest one in the volume.
LEMMA NearestIs ==
  ASSUME NEW x \in Int, NEW y \in Int
  PROVE  \A q : q[1] = x /\ q[2] = y =>
           <<reader.by, [a \in Axes |-> Clamped(q[a], 0, Size[a] - 1)]>> = Voxel(reader.by, Edge(1, x), Edge(2, y))
<1>1. /\ Size[1] \in Nat \ {0} /\ Size[2] \in Nat \ {0} /\ Size[1] - 1 \in Int /\ Size[2] - 1 \in Int
      /\ ~(Size[1] - 1 < 0) /\ ~(Size[2] - 1 < 0)
  BY Sizes
<1>2. Clamped(x, 0, Size[1] - 1) = Edge(1, x) /\ Clamped(y, 0, Size[2] - 1) = Edge(2, y)
  BY <1>1, ClampedIs DEF Edge
<1> SUFFICES ASSUME NEW q, q[1] = x, q[2] = y
             PROVE  [a \in Axes |-> Clamped(q[a], 0, Size[a] - 1)] = <<Edge(1, x), Edge(2, y)>>
  BY DEF Voxel
<1> DEFINE w(a) == Clamped(q[a], 0, Size[a] - 1)
<1>3. w(1) = Edge(1, x) /\ w(2) = Edge(2, y)
  BY <1>2
<1> HIDE DEF w
<1>4. [a \in Axes |-> w(a)] = <<Edge(1, x), Edge(2, y)>>
  BY <1>3 DEF Axes
<1> QED
  BY <1>4 DEF w

\* Inside a slab of planes and its margins nothing is clamped.
LEMMA SlabClamp ==
  ASSUME NEW S \in Int, NEW x \in Int, NEW d \in -Margin .. Margin, Margin <= x, x <= S - 1 - Margin
  PROVE  LET z0 == (x \div FilterSlab) * FilterSlab
             n  == Min({z0 + FilterSlab, S}) - z0 + 2 * Margin
             q  == Clamped((x - z0 + Margin) + d, 0, n - 1)
         IN  /\ q \in 0 .. n - 1
             /\ Clamped(z0 - Margin + q, Max({z0 - Margin, 0}), Min({z0 + FilterSlab + Margin, S}) - 1) = x + d
<1> DEFINE M  == Margin
           F  == FilterSlab
           z0 == (x \div F) * F
           m  == Min({z0 + F, S})
           n  == m - z0 + 2 * M
           q  == Clamped((x - z0 + M) + d, 0, n - 1)
           lo == Max({z0 - M, 0})
           m2 == Min({z0 + F + M, S})
<1>1. M \in Nat /\ F \in Nat \ {0} /\ d \in Int /\ -M <= d /\ d <= M
  BY Sizes
<1> HIDE DEF M, F
<1>2. z0 \in Int /\ z0 <= x /\ x < z0 + F
  <2> DEFINE k == x \div F
  <2>1. k \in Int /\ F * k <= x /\ x < F * k + F
    BY <1>1, DivBounds
  <2> HIDE DEF k
  <2>2. k * F = F * k /\ k * F \in Int
    BY <1>1, <2>1
  <2> QED
    BY <2>1, <2>2 DEF k
<1> HIDE DEF z0
<1>3. m = (IF z0 + F <= S THEN z0 + F ELSE S) /\ m2 = (IF z0 + F + M <= S THEN z0 + F + M ELSE S)
  BY <1>1, <1>2, MinOfTwo
<1>4. lo = IF z0 - M >= 0 THEN z0 - M ELSE 0
  BY <1>1, <1>2, MaxOfTwo
<1> HIDE DEF m, m2, lo
<1>5. Margin <= x /\ x <= S - 1 - Margin /\ Margin = M
  BY DEF M
<1>6. (x - z0 + M) + d \in Int /\ n - 1 \in Int /\ 0 <= (x - z0 + M) + d /\ (x - z0 + M) + d <= n - 1
  BY <1>1, <1>2, <1>3, <1>5
<1>7. q = (x - z0 + M) + d
  <2> DEFINE i == (x - z0 + M) + d  l == n - 1
  <2>1. i \in Int /\ l \in Int /\ 0 <= i /\ i <= l
    BY <1>6
  <2>2. q = Clamped(i, 0, l)
    OBVIOUS
  <2> HIDE DEF i, l, q
  <2>3. q = i
    BY <2>1, <2>2, ClampedIs
  <2> QED
    BY <2>3 DEF i
<1>8. q \in 0 .. n - 1
  <2> HIDE DEF q
  <2> QED
    BY <1>1, <1>2, <1>6, <1>7
<1>9. Clamped(z0 - M + q, lo, m2 - 1) = x + d
  <2> DEFINE l == m2 - 1  i == x + d
  <2>1. z0 - M + q = i
    <3> HIDE DEF q
    <3> QED
      BY <1>1, <1>2, <1>7
  <2>2. i \in Int /\ lo \in Int /\ l \in Int /\ lo <= i /\ i <= l
    BY <1>1, <1>2, <1>3, <1>4, <1>5
  <2> HIDE DEF i, l, q
  <2>3. Clamped(i, lo, l) = i
    BY <2>2, ClampedIs
  <2> QED
    BY <2>1, <2>3 DEF i, l
<1> QED
  BY <1>8, <1>9 DEF M, F, z0, m, n, q, lo, m2

\* What the filter sees around a voxel of the box.
Seen(box, p) ==
  [d \in (-Margin .. Margin) \X (-Margin .. Margin) |->
     Voxel(reader.by, Edge(1, box.lo[1] + p[1] + d[1]), Edge(2, box.lo[2] + p[2] + d[2]))]

LEMMA GrownBox ==
  ASSUME NEW box, IsBox(box)
  PROVE  LET g == GrowBox(box, Margin) IN
         /\ IsBox(g)
         /\ \A a \in Axes : g.lo[a] = box.lo[a] - Margin /\ Shape(g)[a] = Shape(box)[a] + 2 * Margin
         /\ \A a \in Axes : Shape(box)[a] \in Int
<1> DEFINE g == GrowBox(box, Margin)
<1>1. \A a \in Axes : box.lo[a] \in Int /\ box.hi[a] \in Int /\ Margin \in Nat
  BY Sizes DEF IsBox
<1>2. \A a \in Axes : g.lo[a] = box.lo[a] - Margin /\ g.hi[a] = box.hi[a] + Margin
  BY DEF GrowBox
<1> HIDE DEF g
<1>3. \A a \in Axes : g.lo[a] \in Int /\ g.hi[a] \in Int
  BY <1>1, <1>2
<1>4. \A a \in Axes : Shape(g)[a] = g.hi[a] - g.lo[a] /\ Shape(box)[a] = box.hi[a] - box.lo[a]
  BY DEF Shape
<1>5. \A a \in Axes : Shape(g)[a] = Shape(box)[a] + 2 * Margin /\ Shape(box)[a] \in Int
  BY <1>1, <1>2, <1>4
<1> QED
  BY <1>2, <1>3, <1>5 DEF IsBox, g

LEMMA FilteredRight ==
  ASSUME NEW box, IsBox(box), NEW data, Right(data, GrowBox(box, Margin)), NEW p \in Cells(Shape(box))
  PROVE  Filtered(data, Shape(GrowBox(box, Margin)))[Plus(p, <<Margin, Margin>>)] = Seen(box, p)
<1> DEFINE g     == GrowBox(box, Margin)
           shape == Shape(g)
           x     == p[1] + Margin
           y     == p[2] + Margin
           z(q)  == (q[1] \div FilterSlab) * FilterSlab
           n(f) == <<Min({f + FilterSlab, shape[1]}) - f + 2 * Margin, shape[2]>>
           part(f) ==
             [q \in Cells(n(f)) |->
               data[<<Clamped(f - Margin + q[1], Max({f - Margin, 0}),
                              Min({f + FilterSlab + Margin, shape[1]}) - 1), q[2]>>]]
           z0    == z(<<x, y>>)
<1>1. Filtered(data, shape) = [q \in DOMAIN data |-> Window(part(z(q)), n(z(q)), <<q[1] - z(q) + Margin, q[2]>>)]
  BY DEF Filtered
<1>2. /\ IsBox(g) /\ Margin \in Nat /\ shape[1] \in Int /\ shape[2] \in Int
      /\ shape[1] = Shape(box)[1] + 2 * Margin /\ shape[2] = Shape(box)[2] + 2 * Margin
      /\ g.lo[1] = box.lo[1] - Margin /\ g.lo[2] = box.lo[2] - Margin
      /\ Shape(box)[1] \in Int /\ Shape(box)[2] \in Int
      /\ box.lo[1] \in Int /\ box.lo[2] \in Int
  <2>1. /\ IsBox(g)
        /\ \A a \in Axes : g.lo[a] = box.lo[a] - Margin /\ shape[a] = Shape(box)[a] + 2 * Margin
        /\ \A a \in Axes : Shape(box)[a] \in Int
    BY GrownBox
  <2>2. box.lo[1] \in Int /\ box.lo[2] \in Int /\ Margin \in Nat
    BY BothAxes, Sizes DEF IsBox
  <2> HIDE DEF g, shape
  <2>3. /\ shape[1] = Shape(box)[1] + 2 * Margin /\ shape[2] = Shape(box)[2] + 2 * Margin
        /\ g.lo[1] = box.lo[1] - Margin /\ g.lo[2] = box.lo[2] - Margin
        /\ Shape(box)[1] \in Int /\ Shape(box)[2] \in Int
    BY <2>1, BothAxes
  <2>4. shape[1] \in Int /\ shape[2] \in Int
    BY <2>2, <2>3
  <2> QED
    BY <2>1, <2>2, <2>3, <2>4
<1> HIDE DEF g, shape
<1>3. p[1] \in 0 .. Shape(box)[1] - 1 /\ p[2] \in 0 .. Shape(box)[2] - 1
  BY CellPair
<1>4. /\ x \in Int /\ Margin <= x /\ x <= shape[1] - 1 - Margin
      /\ y \in Int /\ Margin <= y /\ y <= shape[2] - 1 - Margin
  BY <1>2, <1>3
<1>5. Plus(p, <<Margin, Margin>>) = <<x, y>>
  BY PlusPair
<1>6. x = p[1] + Margin /\ y = p[2] + Margin
  OBVIOUS
<1> HIDE DEF x, y
<1>7. <<x, y>> \in Cells(shape)
  <2>1. x \in 0 .. shape[1] - 1 /\ y \in 0 .. shape[2] - 1
    BY <1>2, <1>4
  <2> QED
    BY <2>1, CellPair
<1>8. /\ DOMAIN data = Cells(shape)
      /\ \A q \in Cells(shape) : data[q] = Voxel(reader.by, Edge(1, g.lo[1] + q[1]), Edge(2, g.lo[2] + q[2]))
  BY DEF Right, g, shape
<1> DEFINE r == <<x - z0 + Margin, y>>
<1>9. Filtered(data, shape)[<<x, y>>] = Window(part(z0), n(z0), r)
  <2> DEFINE q == <<x, y>>
  <2>1. q \in DOMAIN data /\ q[1] = x /\ q[2] = y
    BY <1>7, <1>8
  <2> HIDE DEF q, part, n, z
  <2>2. Filtered(data, shape)[q] = Window(part(z(q)), n(z(q)), <<q[1] - z(q) + Margin, q[2]>>)
    BY <1>1, <2>1
  <2> QED
    BY <2>1, <2>2 DEF q
<1>10. z0 = (x \div FilterSlab) * FilterSlab
  OBVIOUS
<1> DEFINE Ds == (-Margin .. Margin) \X (-Margin .. Margin)
           seen(d) == part(z0)[[a \in Axes |-> Clamped(r[a] + d[a], 0, n(z0)[a] - 1)]]
<1>11. Window(part(z0), n(z0), r) = [d \in Ds |-> seen(d)]
  BY DEF Window
<1>12. ASSUME NEW d \in Ds
       PROVE  seen(d) = Voxel(reader.by, Edge(1, box.lo[1] + p[1] + d[1]), Edge(2, box.lo[2] + p[2] + d[2]))
  <2> DEFINE n1 == Min({z0 + FilterSlab, shape[1]}) - z0 + 2 * Margin
             q1 == Clamped((x - z0 + Margin) + d[1], 0, n1 - 1)
             q2 == Clamped(y + d[2], 0, shape[2] - 1)
             l1 == Max({z0 - Margin, 0})
             h1 == Min({z0 + FilterSlab + Margin, shape[1]}) - 1
  <2>1. d[1] \in -Margin .. Margin /\ d[2] \in -Margin .. Margin
    OBVIOUS
  <2>2. q1 \in 0 .. n1 - 1 /\ Clamped(z0 - Margin + q1, l1, h1) = x + d[1]
    <3> HIDE DEF Ds
    <3>1. shape[1] \in Int /\ x \in Int /\ Margin <= x /\ x <= shape[1] - 1 - Margin
      BY <1>2, <1>4
    <3> QED
      BY <1>10, <2>1, <3>1, SlabClamp
  <2>3. q2 = y + d[2] /\ q2 \in 0 .. shape[2] - 1
    <3> DEFINE i == y + d[2]  l == shape[2] - 1
    <3>1. i \in Int /\ l \in Int /\ 0 <= i /\ i <= l
      BY <1>2, <1>4, <2>1
    <3>2. q2 = Clamped(i, 0, l)
      OBVIOUS
    <3> HIDE DEF i, l, q2
    <3>3. q2 = i
      BY <3>1, <3>2, ClampedIs
    <3> QED
      BY <3>1, <3>3 DEF i, l
  <2>4. [a \in Axes |-> Clamped(r[a] + d[a], 0, n(z0)[a] - 1)] = <<q1, q2>>
    <3> DEFINE w(a) == Clamped(r[a] + d[a], 0, n(z0)[a] - 1)
    <3>1. w(1) = q1 /\ w(2) = q2
      <4> HIDE DEF z0
      <4> QED
        OBVIOUS
    <3> HIDE DEF w, q1, q2
    <3>2. [a \in Axes |-> w(a)] = <<q1, q2>>
      BY <3>1 DEF Axes
    <3> QED
      BY <3>2 DEF w
  <2> HIDE DEF z0
  <2>5. <<q1, q2>> \in Cells(n(z0))
    <3>1. n(z0)[1] = n1 /\ n(z0)[2] = shape[2]
      OBVIOUS
    <3> HIDE DEF n, q1, q2, n1
    <3> QED
      BY <2>2, <2>3, <3>1, CellPair
  <2>6. part(z0)[<<q1, q2>>] = data[<<x + d[1], y + d[2]>>]
    <3> DEFINE q == <<q1, q2>>
    <3>1. q[1] = q1 /\ q[2] = q2 /\ q \in Cells(n(z0))
      BY <2>5
    <3> HIDE DEF q, n
    <3>2. part(z0)[q] = data[<<Clamped(z0 - Margin + q[1], l1, h1), q[2]>>]
      BY <3>1
    <3> HIDE DEF part, q1, q2, l1, h1
    <3> QED
      BY <2>2, <2>3, <3>1, <3>2 DEF q
  <2>7. data[<<x + d[1], y + d[2]>>] = Voxel(reader.by, Edge(1, g.lo[1] + (x + d[1])), Edge(2, g.lo[2] + (y + d[2])))
    <3> DEFINE q == <<x + d[1], y + d[2]>>
    <3>1. x + d[1] \in 0 .. shape[1] - 1 /\ y + d[2] \in 0 .. shape[2] - 1
      BY <1>2, <1>4, <2>1
    <3>2. q \in Cells(shape) /\ q[1] = x + d[1] /\ q[2] = y + d[2]
      BY <3>1, CellPair
    <3> HIDE DEF q
    <3> QED
      BY <1>8, <3>2 DEF q
  <2>8. g.lo[1] + (x + d[1]) = box.lo[1] + p[1] + d[1] /\ g.lo[2] + (y + d[2]) = box.lo[2] + p[2] + d[2]
    BY <1>2, <1>3, <1>6, <2>1
  <2> HIDE DEF part, n, q1, q2
  <2> QED
    BY <2>4, <2>6, <2>7, <2>8
<1> HIDE DEF seen, part, n, z, z0, r
<1>13. Filtered(data, shape)[<<x, y>>] = Seen(box, p)
  BY <1>9, <1>11, <1>12 DEF Seen
<1> QED
  BY <1>5, <1>13 DEF shape, g

(***************************************************************************)
(* What write_raw writes, and the invariant of what has been read.         *)
(***************************************************************************)
\* The first planes of a volume, as a file has them.
Planes(v, k) == [i \in 1 .. k * Size[2] |-> VoxelsOf(v)[i]]

LEMMA PlanesSeq ==
  ASSUME NEW v, NEW k \in 0 .. Size[1]
  PROVE  /\ k * Size[2] \in Nat
         /\ DOMAIN Planes(v, k) = 1 .. k * Size[2] /\ Len(Planes(v, k)) = k * Size[2]
         /\ Planes(v, k) = SubSeq(VoxelsOf(v), 1, k * Size[2])
         /\ Planes(v, k) \in Seq({VoxelsOf(v)[i] : i \in 1 .. k * Size[2]})
<1> DEFINE K == k * Size[2]  N == Size[1] * Size[2]  V == VoxelsOf(v)  S == {V[i] : i \in 1 .. K}
<1>1. Size[1] \in Nat /\ Size[2] \in Nat /\ k \in Nat /\ k <= Size[1]
  BY Sizes
<1>2. K \in Nat /\ N \in Nat /\ K <= N
  BY <1>1, MulMono
<1>3. V = [i \in 1 .. N |-> V[i]]
  <2> DEFINE w(i) == <<v, <<(i - 1) \div Size[2], (i - 1) % Size[2]>>>>
  <2>1. V = [i \in 1 .. N |-> w(i)]
    BY DEF VoxelsOf
  <2> HIDE DEF w, V, N
  <2> QED
    BY <2>1
<1>4. Planes(v, k) = [i \in 1 .. K |-> V[i]]
  BY DEF Planes
<1> HIDE DEF K, N, V
<1>5. SubSeq(V, 1, K) = [i \in 1 .. K |-> V[i]]
  <2>1. V \in Seq({V[i] : i \in 1 .. N}) /\ Len(V) = N
    BY <1>2, <1>3
  <2>2. SubSeq(V, 1, K) = [i \in 1 .. K |-> SubSeq(V, 1, K)[i]] /\ \A i \in 1 .. K : SubSeq(V, 1, K)[i] = V[i]
    BY <1>2, <2>1
  <2> QED
    BY <2>2
<1>6. [i \in 1 .. K |-> V[i]] \in Seq(S) /\ Len([i \in 1 .. K |-> V[i]]) = K /\ DOMAIN [i \in 1 .. K |-> V[i]] = 1 .. K
  BY <1>2
<1> QED
  BY <1>2, <1>4, <1>5, <1>6 DEF K, V

\* What is written of n planes from plane k.
PlanesFrom(f, v, k, n) ==
  /\ f = [i \in 1 .. n * Size[2] |-> f[i]]
  /\ \A r \in 0 .. n - 1, c \in 0 .. Size[2] - 1 : f[r * Size[2] + c + 1] = Voxel(v, k + r, c)

LEMMA PlaceFrom ==
  ASSUME NEW v, NEW k \in Nat, NEW n \in Nat, k + n <= Size[1], NEW f, PlanesFrom(f, v, k, n), NEW i \in 1 .. n * Size[2]
  PROVE  f[i] = VoxelsOf(v)[k * Size[2] + i]
<1> DEFINE S2 == Size[2]  r == (i - 1) \div S2  c == (i - 1) % S2
<1>1. S2 \in Nat \ {0} /\ Size[1] \in Nat
  BY Sizes
<1>2. n * S2 \in Nat /\ i \in Nat /\ i - 1 \in Nat /\ i <= n * S2
  BY <1>1, MulMono
<1> HIDE DEF S2
<1>3. r \in Int /\ c \in 0 .. S2 - 1 /\ i - 1 = S2 * r + c
  BY <1>1, <1>2, DivBounds
<1>4. (r < n <=> i - 1 < n * S2) /\ (r < 0 <=> i - 1 < 0 * S2)
  <2>1. i - 1 \in Int /\ n \in Int /\ 0 \in Int
    BY <1>2
  <2> DEFINE x == i - 1
  <2> HIDE DEF x
  <2>2. (x \div S2 < n <=> x < n * S2) /\ (x \div S2 < 0 <=> x < 0 * S2)
    BY <1>1, <2>1, DivLess DEF x
  <2> QED
    BY <2>2 DEF x
<1> HIDE DEF r, c
<1>5. r < n /\ ~(r < 0)
  <2> DEFINE N == n * S2
  <2>1. N \in Nat /\ i <= N /\ 0 * S2 = 0
    BY <1>1, <1>2
  <2> HIDE DEF N
  <2>2. i - 1 < N
    BY <1>2, <2>1
  <2> QED
    BY <1>2, <1>4, <2>1, <2>2 DEF N
<1>6. r \in 0 .. n - 1 /\ r \in Nat /\ c \in Nat
  BY <1>1, <1>3, <1>5
<1>7. f[r * S2 + c + 1] = Voxel(v, k + r, c)
  BY <1>3, <1>6 DEF PlanesFrom, S2
<1>8. k + r \in 0 .. Size[1] - 1
  BY <1>1, <1>6
<1>9. VoxelsOf(v)[(k + r) * S2 + c + 1] = Voxel(v, k + r, c)
  BY <1>3, <1>8, FilePlace DEF S2
<1>10. r * S2 + c + 1 = i /\ (k + r) * S2 + c + 1 = k * S2 + i
  <2> DEFINE y == r * S2  K == k * S2
  <2>1. y \in Int /\ K \in Int /\ (k + r) * S2 = K + y /\ S2 * r = y
    BY <1>1, <1>6
  <2> HIDE DEF y, K
  <2>2. y + c + 1 = i /\ (K + y) + c + 1 = K + i
    BY <1>2, <1>3, <1>6, <2>1
  <2> QED
    BY <2>1, <2>2 DEF y, K
<1> QED
  BY <1>7, <1>9, <1>10 DEF S2

\* Planes written after the first ones.
LEMMA PlanesNext ==
  ASSUME NEW v, NEW k \in Nat, NEW n \in Nat, k + n <= Size[1], NEW f, PlanesFrom(f, v, k, n)
  PROVE  Planes(v, k) \o f = Planes(v, k + n)
<1> DEFINE S2 == Size[2]  K == k * S2  M == n * S2  g == Planes(v, k)  V == VoxelsOf(v)
<1>1. S2 \in Nat \ {0} /\ Size[1] \in Nat /\ k \in 0 .. Size[1] /\ k + n \in 0 .. Size[1]
  BY Sizes
<1>2. K \in Nat /\ M \in Nat /\ (k + n) * S2 = K + M
  <2> HIDE DEF S2
  <2>1. k * S2 \in Int /\ n * S2 \in Int /\ 0 * S2 <= k * S2 /\ 0 * S2 <= n * S2 /\ 0 * S2 = 0
    BY <1>1, MulMono
  <2>2. (k + n) * S2 = k * S2 + n * S2
    BY <1>1
  <2> QED
    BY <2>1, <2>2
<1>3. Len(g) = K
  BY <1>1, PlanesSeq
<1>4. g = [i \in 1 .. K |-> V[i]] /\ Planes(v, k + n) = [i \in 1 .. (k + n) * S2 |-> V[i]]
  BY DEF Planes
<1>5. \A i \in 1 .. M : f[i] = V[K + i]
  BY PlaceFrom
<1>6. f = [i \in 1 .. M |-> f[i]]
  BY DEF PlanesFrom
<1> HIDE DEF K, M, V, g
<1> DEFINE S == {V[i] : i \in 1 .. K + M}
<1>7. g \in Seq(S)
  <2>1. \A i \in 1 .. K : V[i] \in S
    BY <1>2
  <2> HIDE DEF S
  <2> QED
    BY <1>2, <1>4, <2>1
<1>8. f \in Seq(S) /\ Len(f) = M
  <2>1. \A i \in 1 .. M : f[i] \in S
    <3> SUFFICES ASSUME NEW i \in 1 .. M
                 PROVE  V[K + i] \in S
      <4> HIDE DEF S
      <4> QED
        BY <1>5
    <3>1. K + i \in 1 .. K + M
      BY <1>2
    <3> QED
      BY <3>1
  <2> HIDE DEF S
  <2> QED
    BY <1>2, <1>6, <2>1
<1> HIDE DEF S
<1>9. /\ g \o f \in Seq(S) /\ Len(g \o f) = K + M
      /\ \A x \in 1 .. K : (g \o f)[x] = g[x]
      /\ \A x \in 1 .. M : (g \o f)[K + x] = f[x]
  <2>1. /\ g \o f \in Seq(S) /\ Len(g) \in Nat /\ Len(f) \in Nat
        /\ Len(g \o f) = Len(g) + Len(f)
        /\ \A x \in 1 .. Len(g) : (g \o f)[x] = g[x]
        /\ \A x \in 1 .. Len(f) : (g \o f)[Len(g) + x] = f[x]
    <3>1. g \in Seq(S) /\ f \in Seq(S)
      BY <1>7, <1>8
    <3> QED
      BY <3>1, ConcatFacts
  <2> QED
    BY <1>3, <1>8, <2>1
<1> DEFINE h == g \o f
<1>10. h \in Seq(S) /\ Len(h) = K + M /\ (\A x \in 1 .. K : h[x] = g[x]) /\ \A x \in 1 .. M : h[K + x] = f[x]
  BY <1>9
<1> HIDE DEF h
<1>11. h = [i \in 1 .. K + M |-> h[i]]
  BY <1>10
<1>12. ASSUME NEW i \in 1 .. K + M
       PROVE  h[i] = V[i]
  <2>1. CASE i <= K
    <3>1. i \in 1 .. K
      BY <1>2, <2>1
    <3> QED
      BY <1>4, <1>10, <3>1
  <2>2. CASE i > K
    <3> DEFINE x == i - K
    <3>1. x \in 1 .. M /\ K + x = i
      BY <1>2, <2>2
    <3> HIDE DEF x
    <3>2. h[K + x] = V[K + x]
      BY <1>5, <1>10, <3>1
    <3> QED
      BY <3>1, <3>2
  <2> QED
    BY <1>2, <2>1, <2>2
<1>13. h = [i \in 1 .. K + M |-> V[i]]
  BY <1>11, <1>12
<1> QED
  BY <1>2, <1>4, <1>13 DEF h, g, S2

\* The parts of BrickRight.
FileRight == exported # None => exported = SubSeq(VoxelsOf(reader.by), 1, Len(exported))
ReachOf(box) == Intersect(IF reader.filtered THEN GrowBox(box, Margin) ELSE box, Whole)
BrickIs(box, refused, valid, data) ==
  /\ refused <=> (ReachOf(box) = None \/ HasNonFinite(ReachOf(box)))
  /\ ~refused /\ Intersect(box, Whole) # None => valid = Intersect(box, Whole)
  /\ ~refused => \A p \in Cells(Shape(box)) :
       data[p] = IF ~reader.filtered THEN Voxel(reader.by, Edge(1, box.lo[1] + p[1]), Edge(2, box.lo[2] + p[2]))
                 ELSE Seen(box, p)

LEMMA ExportedRight ==
  ASSUME NEW k \in 0 .. Size[1], exported = Planes(reader.by, k)
  PROVE  FileRight
BY PlanesSeq DEF FileRight

LEMMA ValuesRight ==
  ASSUME NEW box \in Boxes, NEW p \in Cells(Shape(box))
  PROVE  LET value(q) == <<reader.by, [a \in Axes |-> Clamped(q[a], 0, Size[a] - 1)]>> IN
         /\ value(Plus(box.lo, p)) = Voxel(reader.by, Edge(1, box.lo[1] + p[1]), Edge(2, box.lo[2] + p[2]))
         /\ [d \in (-Margin .. Margin) \X (-Margin .. Margin) |-> value(Plus(Plus(box.lo, p), d))] = Seen(box, p)
<1> DEFINE value(q) == <<reader.by, [a \in Axes |-> Clamped(q[a], 0, Size[a] - 1)]>>
           x == box.lo[1] + p[1]  y == box.lo[2] + p[2]
           Ds == (-Margin .. Margin) \X (-Margin .. Margin)
<1>1. box.lo[1] \in Int /\ box.lo[2] \in Int /\ p[1] \in Int /\ p[2] \in Int
  BY CellPair, VolumesAssumption
<1>2. Plus(box.lo, p) = <<x, y>> /\ x \in Int /\ y \in Int
  BY <1>1, PlusPair
<1> HIDE DEF x, y
<1>3. \A q : \A u, w \in Int : q[1] = u /\ q[2] = w => value(q) = Voxel(reader.by, Edge(1, u), Edge(2, w))
  BY NearestIs
<1> HIDE DEF value
<1>4. value(<<x, y>>) = Voxel(reader.by, Edge(1, x), Edge(2, y))
  BY <1>2, <1>3
<1>5. ASSUME NEW d \in Ds
      PROVE  value(Plus(<<x, y>>, d)) = Voxel(reader.by, Edge(1, x + d[1]), Edge(2, y + d[2]))
  <2>1. d[1] \in Int /\ d[2] \in Int /\ Plus(<<x, y>>, d) = <<x + d[1], y + d[2]>>
    BY PlusPair, Sizes
  <2>2. x + d[1] \in Int /\ y + d[2] \in Int
    BY <1>2, <2>1
  <2> QED
    BY <1>3, <2>1, <2>2
<1>6. [d \in Ds |-> value(Plus(<<x, y>>, d))] = Seen(box, p)
  BY <1>5 DEF Seen, x, y
<1> QED
  BY <1>2, <1>4, <1>6 DEF x, y, value

BrickParts ==
  /\ FileRight
  /\ brick # None => brick.box \in Boxes /\ BrickIs(brick.box, brick.refused, brick.valid, brick.data)

\* A volume is opened whole and stays what it is as long as it is open.
ReadInv ==
  /\ reader = None => brick = None /\ exported = None
  /\ reader # None =>
       /\ Opened
       /\ exported # None => \E k \in 0 .. Size[1] : exported = Planes(reader.by, k)
       /\ brick # None => brick.box \in Boxes /\ BrickIs(brick.box, brick.refused, brick.valid, brick.data)

LEMMA BrickRightParts == ReadInv => BrickRight
<1> SUFFICES ASSUME ReadInv, reader # None
             PROVE  BrickRight
  BY DEF BrickRight
<1>0. BrickParts
  BY ExportedRight DEF ReadInv, BrickParts, FileRight
<1> SUFFICES ASSUME BrickParts
             PROVE  BrickRight
  BY <1>0
<1> USE DEF BrickParts
<1> DEFINE value(q) == <<reader.by, [a \in Axes |-> Clamped(q[a], 0, Size[a] - 1)]>>
           wide(p) == [d \in (-Margin .. Margin) \X (-Margin .. Margin) |-> value(Plus(Plus(brick.box.lo, p), d))]
<1>1. ASSUME brick # None, NEW p \in Cells(Shape(brick.box))
      PROVE  /\ value(Plus(brick.box.lo, p)) = Voxel(reader.by, Edge(1, brick.box.lo[1] + p[1]), Edge(2, brick.box.lo[2] + p[2]))
             /\ wide(p) = Seen(brick.box, p)
  <2> DEFINE box == brick.box
  <2>1. box \in Boxes
    BY <1>1
  <2> HIDE DEF box
  <2>2. p \in Cells(Shape(box))
    BY DEF box
  <2>3. /\ value(Plus(box.lo, p)) = Voxel(reader.by, Edge(1, box.lo[1] + p[1]), Edge(2, box.lo[2] + p[2]))
        /\ [d \in (-Margin .. Margin) \X (-Margin .. Margin) |-> value(Plus(Plus(box.lo, p), d))] = Seen(box, p)
    BY <2>1, <2>2, ValuesRight
  <2> QED
    BY <2>3 DEF box
<1>2. brick # None =>
        /\ brick.refused <=> (ReachOf(brick.box) = None \/ HasNonFinite(ReachOf(brick.box)))
        /\ ~brick.refused /\ Intersect(brick.box, Whole) # None => brick.valid = Intersect(brick.box, Whole)
        /\ ~brick.refused => \A p \in Cells(Shape(brick.box)) :
             brick.data[p] = IF ~reader.filtered THEN value(Plus(brick.box.lo, p)) ELSE wide(p)
  <2> HIDE DEF value, wide
  <2> QED
    BY <1>1 DEF BrickIs
<1> QED
  BY <1>2 DEF BrickRight, FileRight, ReachOf

(***************************************************************************)
(* Every step keeps it.                                                    *)
(***************************************************************************)
LEMMA AskedBox ==
  ASSUME NEW box \in Boxes
  PROVE  IsBox(box) /\ IsBox(GrowBox(box, Margin))
<1>1. IsBox(box)
  BY VolumesAssumption DEF IsBox, Axes
<1> QED
  BY <1>1, GrownBox

\* A brick that is read is right.
LEMMA ReadRight ==
  ASSUME reader # None, Opened, NEW box \in Boxes,
         NEW asked, asked = (IF reader.filtered THEN GrowBox(box, Margin) ELSE box),
         NEW valid, valid = Intersect(asked, Whole), valid # None,
         NEW data, data = (IF reader.io = "kvikio" THEN DeviceRead(asked, valid) ELSE HostRead(asked, valid)),
         NEW out, out = (IF reader.filtered
                         THEN [p \in Cells(Shape(box)) |-> Filtered(data, Shape(asked))[Plus(p, <<Margin, Margin>>)]]
                         ELSE data),
         NEW p \in Cells(Shape(box))
  PROVE  out[p] = IF ~reader.filtered THEN Voxel(reader.by, Edge(1, box.lo[1] + p[1]), Edge(2, box.lo[2] + p[2]))
                  ELSE Seen(box, p)
<1>1. IsBox(box) /\ IsBox(asked)
  BY AskedBox
<1>2. Cut(valid, asked)
  BY <1>1, IntersectCut
<1>3. Right(data, asked)
  <2>1. Right(DeviceRead(asked, valid), asked)
    BY <1>1, <1>2, DeviceReadRight
  <2>2. Right(HostRead(asked, valid), asked)
    BY <1>1, <1>2, HostReadRight
  <2> QED
    BY <2>1, <2>2
<1>4. CASE reader.filtered
  <2>1. asked = GrowBox(box, Margin)
    BY <1>4
  <2>2. Filtered(data, Shape(GrowBox(box, Margin)))[Plus(p, <<Margin, Margin>>)] = Seen(box, p)
    BY <1>1, <1>3, <2>1, FilteredRight
  <2> QED
    BY <1>4, <2>1, <2>2
<1>5. CASE ~reader.filtered
  BY <1>3, <1>5 DEF Right
<1> QED
  BY <1>4, <1>5

\* What has been read stays right as long as the volume is the same.
LEMMA BrickStays ==
  ASSUME reader' = reader, NEW b, NEW r, NEW v, NEW d, BrickIs(b, r, v, d)
  PROVE  (BrickIs(b, r, v, d))'
<1>1. (ReachOf(b))' = ReachOf(b)
  BY DEF ReachOf
<1>2. \A p : (Seen(b, p))' = Seen(b, p)
  BY DEF Seen
<1>3. (HasNonFinite(ReachOf(b)))' <=> HasNonFinite(ReachOf(b))
  <2> DEFINE x == ReachOf(b)
  <2>1. x' = x
    BY <1>1
  <2>2. (HasNonFinite(ReachOf(b)))'
          <=> \E y \in NonFinite : y[1] = reader.by /\ \A a \in Axes : y[2][a] \in x.lo[a] .. x.hi[a] - 1
    BY <2>1 DEF HasNonFinite
  <2> QED
    BY <2>2 DEF HasNonFinite
<1> QED
  BY <1>1, <1>2, <1>3 DEF BrickIs

LEMMA ReadReadInv ==
  ASSUME ReadInv, NEW box \in Boxes, Read(box)
  PROVE  ReadInv'
<1> DEFINE asked == IF reader.filtered THEN GrowBox(box, Margin) ELSE box
           valid == Intersect(asked, Whole)
           data  == IF reader.io = "kvikio" THEN DeviceRead(asked, valid) ELSE HostRead(asked, valid)
           inside == IF ~reader.filtered THEN valid
                     ELSE IF Intersect(box, Whole) = None THEN box ELSE Intersect(box, Whole)
           crop(f) == [p \in Cells(Shape(box)) |-> f[Plus(p, <<Margin, Margin>>)]]
           out   == IF reader.filtered THEN crop(Filtered(data, Shape(asked))) ELSE data
           refused == valid = None \/ HasNonFinite(valid)
<1>1. /\ reader # None /\ UNCHANGED <<conversion, reader, exported>>
      /\ brick' = IF refused THEN [box |-> box, refused |-> TRUE, valid |-> None, data |-> None]
                  ELSE [box |-> box, refused |-> FALSE, valid |-> inside, data |-> out]
  BY DEF Read
<1>2. Opened /\ dst' = dst /\ reader' = reader /\ exported' = exported
  BY <1>1 DEF ReadInv, conversion
<1>3. valid = ReachOf(box)
  BY DEF ReachOf
<1>4. brick'.box = box /\ (brick'.refused <=> refused)
      /\ (~refused => brick'.valid = inside /\ brick'.data = out)
  <2> HIDE DEF refused, inside, out
  <2> QED
    BY <1>1
<1>5. ASSUME ~refused, NEW p \in Cells(Shape(box))
      PROVE  out[p] = IF ~reader.filtered THEN Voxel(reader.by, Edge(1, box.lo[1] + p[1]), Edge(2, box.lo[2] + p[2]))
                      ELSE Seen(box, p)
  <2>1. valid # None
    BY <1>5
  <2>2. out = (IF reader.filtered
                 THEN [q \in Cells(Shape(box)) |-> Filtered(data, Shape(asked))[Plus(q, <<Margin, Margin>>)]] ELSE data)
    OBVIOUS
  <2>3. asked = (IF reader.filtered THEN GrowBox(box, Margin) ELSE box) /\ valid = Intersect(asked, Whole)
        /\ data = (IF reader.io = "kvikio" THEN DeviceRead(asked, valid) ELSE HostRead(asked, valid))
    OBVIOUS
  <2> HIDE DEF asked, valid, data, out
  <2> QED
    BY <1>1, <1>2, <2>1, <2>2, <2>3, ReadRight
<1>6. ~refused /\ Intersect(box, Whole) # None => inside = Intersect(box, Whole)
  OBVIOUS
<1>7. BrickIs(brick'.box, brick'.refused, brick'.valid, brick'.data)
  <2> HIDE DEF asked, valid, data, out, inside
  <2> QED
    BY <1>3, <1>4, <1>5, <1>6 DEF BrickIs
<1> HIDE DEF asked, valid, data, out, inside, refused
<1>8. (BrickIs(brick.box, brick.refused, brick.valid, brick.data))'
  BY <1>2, <1>7, BrickStays
<1>9. Opened'
  BY <1>2 DEF Opened, IsStore
<1>10. (brick.box \in Boxes)'
  BY <1>4
<1>11. exported' # None => \E k \in 0 .. Size[1] : exported' = (Planes(reader.by, k))'
  BY <1>1, <1>2 DEF ReadInv, Planes, VoxelsOf
<1> QED
  BY <1>1, <1>2, <1>8, <1>9, <1>10, <1>11 DEF ReadInv

\* The file grows by whole planes.
LEMMA ExportReadInv ==
  ASSUME ReadInv, Export
  PROVE  ReadInv'
<1> DEFINE v    == reader.by
           done == IF exported = None THEN 0 ELSE Len(exported) \div Size[2]
           hi1  == Min({done + ExportSlab, Size[1]})
           box  == [lo |-> <<done, 0>>, hi |-> <<hi1, Size[2]>>]
           cut  == Intersect(box, Whole)
           got  == HostRead(box, cut)
           f    == [i \in 1 .. Shape(box)[1] * Size[2] |-> got[<<(i - 1) \div Size[2], (i - 1) % Size[2]>>]]
<1>1. /\ reader # None /\ reader' = reader /\ brick' = brick /\ dst' = dst
      /\ \/ exported = None /\ exported' = <<>>
         \/ exported # None /\ done < Size[1] /\ exported' = exported \o f
  BY DEF Export, conversion
<1>2. Opened /\ Opened'
  BY <1>1 DEF ReadInv, Opened, IsStore
<1>3. Size[1] \in Nat \ {0} /\ Size[2] \in Nat \ {0} /\ ExportSlab \in Nat \ {0}
  BY Sizes
<1>4. \E k \in 0 .. Size[1] : exported' = Planes(v, k)
  <2>1. CASE exported = None /\ exported' = <<>>
    <3>1. 0 * Size[2] = 0
      BY <1>3
    <3>2. Planes(v, 0) = [i \in 1 .. 0 |-> VoxelsOf(v)[i]]
      BY <3>1 DEF Planes
    <3>3. Planes(v, 0) = <<>>
      <4> HIDE DEF v
      <4> QED
        BY <3>2
    <3> QED
      BY <1>3, <2>1, <3>3
  <2>2. CASE exported # None /\ done < Size[1] /\ exported' = exported \o f
    <3>1. PICK k \in 0 .. Size[1] : exported = Planes(v, k)
      BY <1>1, <2>2 DEF ReadInv
    <3>2. done = k
      <4>1. Len(exported) = k * Size[2]
        BY <3>1, PlanesSeq
      <4>2. (k * Size[2] + 0) \div Size[2] = k
        BY <1>3, DivUnique
      <4>3. k * Size[2] + 0 = k * Size[2]
        BY <1>3
      <4> QED
        BY <2>2, <4>1, <4>2, <4>3
    <3> HIDE DEF done, v
    <3>3. k \in Nat /\ k < Size[1] /\ hi1 \in Int /\ k < hi1 /\ hi1 <= Size[1]
      <4> DEFINE e == k + ExportSlab
      <4>1. e \in Int /\ e > k /\ k \in Nat /\ k < Size[1]
        BY <1>3, <2>2, <3>2
      <4>2. hi1 = Min({e, Size[1]})
        BY <3>2
      <4> HIDE DEF e, hi1
      <4>3. hi1 = IF e <= Size[1] THEN e ELSE Size[1]
        BY <1>3, <4>1, <4>2, MinOfTwo
      <4> QED
        BY <1>3, <4>1, <4>3
    <3> HIDE DEF hi1
    <3>4. /\ box.lo[1] = k /\ box.lo[2] = 0 /\ box.hi[1] = hi1 /\ box.hi[2] = Size[2]
          /\ Shape(box)[1] = hi1 - k /\ Shape(box)[2] = Size[2]
      <4>1. box.lo[1] = k /\ box.lo[2] = 0 /\ box.hi[1] = hi1 /\ box.hi[2] = Size[2]
        BY <3>2
      <4> HIDE DEF box
      <4>2. Shape(box)[1] = hi1 - k /\ Shape(box)[2] = Size[2] - 0
        BY <4>1, ShapeIs
      <4> QED
        BY <1>3, <4>1, <4>2
    <3> HIDE DEF box
    <3>5. IsBox(box)
      BY <1>3, <3>3, <3>4, BothAxes DEF IsBox
    <3>6. Cut(cut, box)
      <4> DEFINE lo == [a \in Axes |-> Max({box.lo[a], Whole.lo[a]})]
                 hi == [a \in Axes |-> Min({box.hi[a], Whole.hi[a]})]
      <4>1. Whole.lo[1] = 0 /\ Whole.lo[2] = 0 /\ Whole.hi[1] = Size[1] /\ Whole.hi[2] = Size[2]
        BY DEF Whole
      <4>2. lo[1] = k /\ lo[2] = 0
        <5>1. lo[1] = Max({k, 0}) /\ lo[2] = Max({0, 0})
          BY <3>4, <4>1, BothAxes
        <5> HIDE DEF lo
        <5> QED
          BY <3>3, <5>1, MaxOfTwo
      <4>3. hi[1] = hi1 /\ hi[2] = Size[2]
        <5>1. hi[1] = Min({hi1, Size[1]}) /\ hi[2] = Min({Size[2], Size[2]})
          BY <3>4, <4>1, BothAxes
        <5> HIDE DEF hi
        <5> QED
          BY <1>3, <3>3, <5>1, MinOfTwo
      <4>4. cut = IF \E a \in Axes : hi[a] <= lo[a] THEN None ELSE [lo |-> lo, hi |-> hi]
        BY DEF Intersect
      <4> HIDE DEF lo, hi, cut
      <4>5. ~(hi[1] <= lo[1]) /\ ~(hi[2] <= lo[2])
        BY <1>3, <3>3, <4>2, <4>3
      <4>6. cut.lo = lo /\ cut.hi = hi
        BY <4>4, <4>5, BothAxes
      <4> QED
        BY <1>3, <3>3, <3>4, <4>2, <4>3, <4>6, BothAxes DEF Cut
    <3>7. Right(got, box)
      <4> HIDE DEF cut
      <4> QED
        BY <1>2, <3>5, <3>6, HostReadRight
    <3> HIDE DEF got
    <3> DEFINE n == hi1 - k
    <3>8. n \in Nat /\ k + n <= Size[1] /\ k + n = hi1
      BY <1>3, <3>3
    <3>9. PlanesFrom(f, v, k, n)
      <4>1. f = [i \in 1 .. n * Size[2] |-> got[<<(i - 1) \div Size[2], (i - 1) % Size[2]>>]]
        BY <3>4
      <4>2. f = [i \in 1 .. n * Size[2] |-> f[i]]
        BY <4>1
      <4>3. ASSUME NEW r \in 0 .. n - 1, NEW c \in 0 .. Size[2] - 1
            PROVE  f[r * Size[2] + c + 1] = Voxel(v, k + r, c)
        <5> DEFINE i == r * Size[2] + c + 1
        <5>1. i \in 1 .. n * Size[2] /\ (i - 1) \div Size[2] = r /\ (i - 1) % Size[2] = c
          <6> DEFINE S2 == Size[2]
          <6>1. n \in Nat /\ S2 \in Nat \ {0} /\ r \in 0 .. n - 1 /\ c \in 0 .. S2 - 1
            BY <1>3, <3>8
          <6> HIDE DEF n, S2
          <6>2. /\ r * S2 + c + 1 \in 1 .. n * S2
                /\ ((r * S2 + c + 1) - 1) \div S2 = r /\ ((r * S2 + c + 1) - 1) % S2 = c
            BY <6>1, PlaneIndex
          <6> QED
            BY <6>2 DEF S2
        <5> HIDE DEF i, f
        <5>2. f[i] = got[<<r, c>>]
          BY <4>1, <5>1
        <5>3. <<r, c>> \in Cells(Shape(box))
          <6>1. r \in 0 .. Shape(box)[1] - 1 /\ c \in 0 .. Shape(box)[2] - 1
            BY <3>4
          <6> QED
            BY <6>1, CellPair
        <5>4. got[<<r, c>>] = Voxel(reader.by, Edge(1, k + r), Edge(2, 0 + c))
          BY <3>4, <3>7, <5>3 DEF Right
        <5>5. Edge(1, k + r) = k + r /\ Edge(2, 0 + c) = c
          BY <1>3, <3>3, <3>8 DEF Edge
        <5> QED
          BY <5>2, <5>4, <5>5 DEF i, v
      <4> HIDE DEF f, n
      <4> QED
        BY <4>2, <4>3 DEF PlanesFrom
    <3> HIDE DEF f
    <3>10. exported' = Planes(v, k + n)
      <4> HIDE DEF n
      <4> QED
        BY <2>2, <3>1, <3>3, <3>8, <3>9, PlanesNext
    <3> QED
      BY <1>3, <3>3, <3>8, <3>10
  <2> QED
    BY <1>1, <2>1, <2>2
<1>5. \A k : (Planes(reader.by, k))' = Planes(v, k)
  BY <1>1
<1>6. brick' # None => (brick.box \in Boxes /\ BrickIs(brick.box, brick.refused, brick.valid, brick.data))'
  <2> SUFFICES ASSUME brick' # None
               PROVE  (brick.box \in Boxes /\ BrickIs(brick.box, brick.refused, brick.valid, brick.data))'
    OBVIOUS
  <2>1. brick.box \in Boxes /\ BrickIs(brick.box, brick.refused, brick.valid, brick.data)
    BY <1>1 DEF ReadInv
  <2> QED
    BY <1>1, <2>1, BrickStays
<1> HIDE DEF v, done, f
<1> QED
  BY <1>1, <1>2, <1>4, <1>5, <1>6 DEF ReadInv

LEMMA OpenReadInv ==
  ASSUME ReadInv, NEW kind, NEW by, NEW missing, NEW use, Open(kind, by, missing, use),
         \/ kind = "zarr" /\ IsStore(dst) /\ by = dst.by /\ dst.rows = ShardRows
         \/ kind = "raw" /\ by = "raw"
  PROVE  ReadInv'
<1>1. /\ reader = None /\ UNCHANGED <<conversion, brick, exported>>
      /\ reader'.kind = kind /\ reader'.by = by
  BY DEF Open
<1>2. brick' = None /\ exported' = None /\ dst' = dst
  BY <1>1 DEF ReadInv, conversion
<1>3. Opened'
  BY <1>1, <1>2 DEF Opened, IsStore
<1> QED
  BY <1>2, <1>3 DEF ReadInv

LEMMA StaysReadInv ==
  ASSUME ReadInv, UNCHANGED <<reader, brick, exported>>,
         dst' = dst \/ dst = None \/ reader = None \/ reader.kind # "zarr"
  PROVE  ReadInv'
<1>1. CASE reader = None
  BY <1>1 DEF ReadInv
<1>2. CASE reader # None
  <2>1. Opened'
    BY <1>2 DEF ReadInv, Opened, IsStore
  <2>2. exported' # None => \E k \in 0 .. Size[1] : exported' = (Planes(reader.by, k))'
    <3>1. \A k : (Planes(reader.by, k))' = Planes(reader.by, k)
      OBVIOUS
    <3> QED
      BY <1>2, <3>1 DEF ReadInv
  <2>3. brick' # None => (brick.box \in Boxes /\ BrickIs(brick.box, brick.refused, brick.valid, brick.data))'
    <3> SUFFICES ASSUME brick' # None
                 PROVE  (brick.box \in Boxes /\ BrickIs(brick.box, brick.refused, brick.valid, brick.data))'
      OBVIOUS
    <3>1. brick.box \in Boxes /\ BrickIs(brick.box, brick.refused, brick.valid, brick.data)
      BY <1>2 DEF ReadInv
    <3> QED
      BY <3>1, BrickStays
  <2> QED
    BY <1>2, <2>1, <2>2, <2>3 DEF ReadInv
<1> QED
  BY <1>1, <1>2

\* A store that is opened was whole and stays: nobody writes into it, and one who
\* moves it away is no longer followed.
LEMMA ConvertReadInv ==
  ASSUME ReadInv, NEW c \in Converters, Convert(c)
  PROVE  ReadInv'
<1>1. CASE MoveAside(c)
  <2>1. CASE LeaveReader
    <3>1. CASE reader # None /\ reader.kind = "zarr"
      BY <2>1, <3>1 DEF LeaveReader, ReadInv
    <3>2. CASE ~(reader # None /\ reader.kind = "zarr")
      BY <2>1, <3>2, StaysReadInv DEF LeaveReader
    <3> QED
      BY <3>1, <3>2
  <2>2. CASE UNCHANGED <<dst, reader, brick, exported>>
    BY <2>2, StaysReadInv
  <2> QED
    BY <1>1, <2>1, <2>2 DEF MoveAside
<1>2. CASE Place(c)
  BY <1>2, StaysReadInv DEF Place, reading
<1>3. CASE ~MoveAside(c) /\ ~Place(c)
  <2>1. UNCHANGED <<dst, reader, brick, exported>>
    BY <1>3 DEF Convert, Start, Create, WriteSlab, Written, RemoveOld, Clean, KillConverter, reading
  <2> QED
    BY <2>1, StaysReadInv
<1> QED
  BY <1>1, <1>2, <1>3

LEMMA ReadingReadInv ==
  ASSUME ReadInv, DstWhole, Reading
  PROVE  ReadInv'
<1>1. CASE OpenZarr
  <2>1. PICK use : Open("zarr", dst.by, dst.rows # ShardRows, use)
    BY <1>1 DEF OpenZarr
  <2>2. IsStore(dst) /\ dst.rows = ShardRows
    BY <1>1 DEF OpenZarr, IsStore, DstWhole
  <2> QED
    BY <2>1, <2>2, OpenReadInv
<1>2. CASE OpenRaw
  <2>1. Open("raw", "raw", FALSE, "solve")
    BY <1>2 DEF OpenRaw
  <2> QED
    BY <2>1, OpenReadInv
<1>3. CASE Export
  BY <1>3, ExportReadInv
<1>4. ASSUME NEW box \in Boxes, Read(box)
      PROVE  ReadInv'
  BY <1>4, ReadReadInv
<1> QED
  BY <1>1, <1>2, <1>3, <1>4 DEF Reading

LEMMA InitReadInv == VolumesInit => ReadInv
BY DEF VolumesInit, ReadInv

LEMMA NextReadInv == ReadInv /\ DstWhole /\ [VolumesNext]_vars => ReadInv'
<1> SUFFICES ASSUME ReadInv, DstWhole, [VolumesNext]_vars
             PROVE  ReadInv'
  OBVIOUS
<1>1. CASE UNCHANGED vars
  BY <1>1, StaysReadInv DEF vars, conversion, reading
<1> QED
  BY <1>1, ConvertReadInv, ReadingReadInv DEF VolumesNext

\* The invariant of the readers, of every reachable state.
THEOREM ReadInvariance == Spec => []ReadInv
<1>1. IInv => DstWhole
  BY DEF IInv
<1> QED
  BY <1>1, Invariance, InitReadInv, NextReadInv, PTL DEF Spec

\* BrickRight: read_brick gives the box asked for, on either path, from either
\* format, filtered or not, and refuses only what it must; write_raw's file
\* grows into the volume.
THEOREM BrickRightCorrect == Spec => []BrickRight
BY ReadInvariance, BrickRightParts, PTL

=============================================================================
