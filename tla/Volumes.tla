------------------------------- MODULE Volumes -------------------------------
(***************************************************************************)
(* The image volumes.  zvdvc convert writes a Zarr store next to its       *)
(* destination and renames it into place; write_raw streams a volume to a  *)
(* flat file; a run opens one or the other and reads bricks, decoded on    *)
(* the host or read straight into device memory, filtered or not, padded   *)
(* where they reach past the volume.                                       *)
(*                                                                         *)
(* Two axes, planes and rows, stand for three.  The voxel at p of the      *)
(* volume that v wrote is <<v, p>>.  A filter is what it looks at.  What   *)
(* happens to the store of one process is interleaved with the others; a   *)
(* brick is read in one step.                                              *)
(***************************************************************************)
EXTENDS Integers, FiniteSets, Sequences, SequencesExt, FiniteSetsExt

CONSTANTS
  Converters,    \* processes, each with its own pid, which a restart gets again
  Overwriting,   \* of these, the ones with --overwrite
  Source,        \* what a converter reads: the flat file ("raw") or the destination ("dst")
  First,         \* what may be at the destination: None, "other" (no Zarr store) or a writer
  DeviceReads,   \* writers whose layout the device readers know
  Machines,      \* of "none" (no kvikio), "compat" and "gds"
  Size, Chunk, Shard, \* of the volume, per axis; of chunks and shards
  Header,        \* of a flat file, in voxels
  SlabVoxels,    \* SLAB_BYTES
  ExportSlab,    \* planes write_raw writes at a time
  NonFinite,     \* voxels that are NaN or infinite
  Boxes, Margin, FilterSlab,
  MaxStarts, MaxKills, MaxFaults, \* bounds
  MaxOpens,      \* bound: one brick is read at each opening
  None

ASSUME VolumesAssumption ==
  /\ Overwriting \subseteq Converters
  /\ {Size[1], Size[2], Chunk, Shard, SlabVoxels, ExportSlab, FilterSlab} \subseteq Nat \ {0}
  /\ Size = <<Size[1], Size[2]>> /\ {Header, Margin} \subseteq Nat
  /\ \A box \in Boxes : {box.lo[1], box.lo[2], box.hi[1], box.hi[2]} \subseteq Int

VARIABLES
  dst, tmp, old, \* the destination; per pid, .tmp-pid and .old-pid
  at,            \* per converter, where it is; "idle" before and after
  starts, kills, faults,
  raw,           \* whether the flat file has the size it should
  reader, opens, \* the open volume
  brick,         \* the last brick read
  exported       \* the voxels write_raw has written, or None

conversion == <<dst, tmp, old, at, starts, kills, faults>>
reading    == <<raw, reader, opens, brick, exported>>
vars       == <<conversion, reading>>

Fill    == <<"fill", <<0, 0>>>>
Garbage == <<"uninitialised", <<0, 0>>>>
Axes    == 1..2

CeilDiv(a, b) == -((-a) \div b)
Clamped(i, lo, hi) == Max({lo, Min({i, hi})})

\* Boxes, and the voxels in one counted from its corner.
Cells(shape) == (0..shape[1] - 1) \X (0..shape[2] - 1)
Shape(box)   == [a \in Axes |-> box.hi[a] - box.lo[a]]
Plus(p, q)   == [a \in Axes |-> p[a] + q[a]]
Minus(p, q)  == [a \in Axes |-> p[a] - q[a]]
GrowBox(box, m) == [lo |-> [a \in Axes |-> box.lo[a] - m], hi |-> [a \in Axes |-> box.hi[a] + m]]
Whole        == [lo |-> <<0, 0>>, hi |-> Size]
Intersect(b, c) ==
  LET lo == [a \in Axes |-> Max({b.lo[a], c.lo[a]})]
      hi == [a \in Axes |-> Min({b.hi[a], c.hi[a]})]
  IN  IF \E a \in Axes : hi[a] <= lo[a] THEN None ELSE [lo |-> lo, hi |-> hi]

-----------------------------------------------------------------------------
(* Stores.                                                                  *)

\* create_ome_zarr: shards are whole chunks and no larger than the volume needs.
ChunkShape == [a \in Axes |-> Min({Chunk, Size[a]})]
ShardShape == [a \in Axes |-> ChunkShape[a] * CeilDiv(Min({Shard, Size[a]}), ChunkShape[a])]
PerShard   == [a \in Axes |-> ShardShape[a] \div ChunkShape[a]]

\* A store: who writes it and the rows of shards that are complete.
ShardRows == 0..CeilDiv(Size[1], ShardShape[1]) - 1
Store(v, rows) == [by |-> v, rows |-> rows]
IsStore(d) == d # None /\ d.by # "other"
IsWhole(d) == IsStore(d) /\ d.rows = ShardRows

ASSUME WritersAssumption == \A c \in Converters : c # "other" /\ Store(c, ShardRows) # None

VolumesInit ==
  /\ dst \in {IF v = None THEN None ELSE Store(v, ShardRows) : v \in First}
  /\ tmp = [c \in Converters |-> None] /\ old = [c \in Converters |-> None]
  /\ at = [c \in Converters |-> "idle"] /\ starts = 0 /\ kills = 0 /\ faults = 0
  /\ raw \in BOOLEAN /\ reader = None /\ opens = 0 /\ brick = None /\ exported = None

Goto(c, where) == at' = [at EXCEPT ![c] = where]
Fault == faults < MaxFaults /\ faults' = faults + 1

\* One who has the store open that is moved away is followed no further: on the
\* host it goes on with what it finds at dst, fill or another store, on the device
\* with offsets it remembers, and nothing promises what that gives.
LeaveReader ==
  IF reader # None /\ reader.kind = "zarr"
  THEN reader' = None /\ brick' = None /\ exported' = None ELSE UNCHANGED <<reader, brick, exported>>

\* convert_to_ome_zarr: the checks, made once, at the start.
Start(c) ==
  /\ at[c] = "idle" /\ starts < MaxStarts /\ starts' = starts + 1
  /\ LET refused == \/ Source[c] = "dst"
                    \/ dst # None /\ c \notin Overwriting
                    \/ dst # None /\ ~IsStore(dst)
                    \/ ~raw
     IN  Goto(c, IF refused THEN "idle" ELSE "create")
  /\ UNCHANGED <<dst, tmp, old, kills, faults, reading>>

\* What a killed process with this pid left is removed first.
Create(c) ==
  /\ at[c] = "create"
  /\ \/ tmp' = [tmp EXCEPT ![c] = Store(c, {})] /\ Goto(c, "write") /\ UNCHANGED faults
     \/ tmp' = [tmp EXCEPT ![c] = None] /\ Fault /\ Goto(c, "clean")
  /\ UNCHANGED <<dst, old, starts, kills, reading>>

\* A slab of the source fills a row of shards.
WriteSlab(c) ==
  /\ at[c] = "write" /\ tmp[c].rows # ShardRows
  /\ \/ tmp' = [tmp EXCEPT ![c].rows = @ \union {Min(ShardRows \ @)}] /\ UNCHANGED <<at, faults>>
     \/ Fault /\ Goto(c, "clean") /\ UNCHANGED tmp
  /\ UNCHANGED <<dst, old, starts, kills, reading>>

\* Mutant: a slab short.
WrittenShort(c) ==
  /\ at[c] = "write" /\ Cardinality(ShardRows \ tmp[c].rows) <= 1
  /\ Goto(c, IF dst # None THEN "aside" ELSE "place")
  /\ UNCHANGED <<dst, tmp, old, starts, kills, faults, reading>>

\* All is written: dst.exists() is asked once more.
Written(c) ==
  /\ at[c] = "write" /\ tmp[c].rows = ShardRows
  /\ Goto(c, IF dst # None THEN "aside" ELSE "place")
  /\ UNCHANGED <<dst, tmp, old, starts, kills, faults, reading>>

\* Mutant: the store in the way is deleted at once.
MoveAsideAway(c) ==
  /\ at[c] = "aside"
  /\ \/ dst # None /\ dst' = None /\ Goto(c, "replace") /\ LeaveReader
     \/ dst = None /\ Goto(c, "clean") /\ UNCHANGED <<dst, reader, brick, exported>>
  /\ UNCHANGED <<tmp, old, starts, kills, faults, raw, opens>>

\* A directory is not renamed onto one that is not empty, nor one that is gone.
MoveAside(c) ==
  /\ at[c] = "aside"
  /\ \/ /\ dst # None /\ old[c] = None
        /\ old' = [old EXCEPT ![c] = dst] /\ dst' = None /\ Goto(c, "replace") /\ LeaveReader
        /\ UNCHANGED faults
     \/ /\ dst = None \/ old[c] # None \/ faults < MaxFaults
        /\ faults' = IF dst # None /\ old[c] = None THEN faults + 1 ELSE faults
        /\ Goto(c, "clean") /\ UNCHANGED <<dst, old, reader, brick, exported>>
  /\ UNCHANGED <<tmp, starts, kills, raw, opens>>

Place(c) ==
  /\ at[c] \in {"place", "replace"}
  /\ \/ /\ dst = None
        /\ dst' = tmp[c] /\ tmp' = [tmp EXCEPT ![c] = None]
        /\ Goto(c, IF at[c] = "replace" THEN "remove" ELSE "idle") /\ UNCHANGED faults
     \/ dst # None /\ Goto(c, "clean") /\ UNCHANGED <<dst, tmp, faults>>
     \/ Fault /\ Goto(c, "clean") /\ UNCHANGED <<dst, tmp>>
  /\ UNCHANGED <<old, starts, kills, reading>>

\* rmtree, file by file.
RemoveOld(c) ==
  /\ at[c] = "remove"
  /\ \/ old[c].rows # {} /\ old' = [old EXCEPT ![c].rows = {}] /\ UNCHANGED <<at, faults>>
     \/ old[c].rows = {} /\ old' = [old EXCEPT ![c] = None] /\ Goto(c, "idle") /\ UNCHANGED faults
     \/ Fault /\ Goto(c, "idle") /\ UNCHANGED old
  /\ UNCHANGED <<dst, tmp, starts, kills, reading>>

\* The finally clause.
Clean(c) ==
  /\ at[c] = "clean" /\ tmp' = [tmp EXCEPT ![c] = None] /\ Goto(c, "idle")
  /\ UNCHANGED <<dst, old, starts, kills, faults, reading>>

KillConverter(c) ==
  /\ at[c] # "idle" /\ kills < MaxKills /\ kills' = kills + 1 /\ Goto(c, "idle")
  /\ UNCHANGED <<dst, tmp, old, starts, faults, reading>>

Convert(c) ==
  \/ Start(c) \/ Create(c) \/ WriteSlab(c) \/ Written(c) \/ MoveAside(c) \/ Place(c)
  \/ RemoveOld(c) \/ Clean(c) \/ KillConverter(c)

-----------------------------------------------------------------------------
(* Reading a brick.                                                         *)

\* What the store at the destination holds at a voxel, none being fill.
Stored(p) ==
  IF IsStore(dst) /\ p[1] \div ShardShape[1] \in dst.rows THEN <<dst.by, p>> ELSE Fill

\* A flat file: the header, then plane after plane.
VoxelsOf(v) == [i \in 1..Size[1] * Size[2] |-> <<v, <<(i - 1) \div Size[2], (i - 1) % Size[2]>>>>]
File == [i \in 1..Header + Size[1] * Size[2] |-> IF i <= Header THEN "header" ELSE VoxelsOf("raw")[i - Header]]

AtVoxel(p) == IF reader.kind = "zarr" THEN Stored(p) ELSE File[Header + p[1] * Size[2] + p[2] + 1]

\* The host path: what lies inside, padded with its edges.
HostRead(box, valid) ==
  LET part == [p \in Cells(Shape(valid)) |-> AtVoxel(Plus(valid.lo, p))]
      pad  == Minus(valid.lo, box.lo)
  IN  [p \in Cells(Shape(box)) |->
         part[[a \in Axes |-> Clamped(p[a] - pad[a], 0, Shape(valid)[a] - 1)]]]

\* RawDeviceReader: slabs of whole rows, a plane at a time unless planes are whole.
RawReadInto(out, valid, pad) ==
  LET rows  == Shape(valid)[2]
      whole == valid.lo[2] = 0 /\ valid.hi[2] = Size[2]
      slab  == Max({1, SlabVoxels \div rows})
      slabs == CeilDiv(Shape(valid)[1], slab)
      pread(first, count) == [i \in 1..count |-> File[Header + first + i]]
      read[s \in 0..slabs] ==
        IF s = 0 THEN out
        ELSE LET z0   == valid.lo[1] + (s - 1) * slab
                 n    == Min({valid.hi[1], z0 + slab}) - z0
                 got  == IF whole THEN pread(z0 * Size[2], n * rows)
                         ELSE [i \in 1..n * rows |->
                                 pread((z0 + (i - 1) \div rows) * Size[2] + valid.lo[2], rows)[((i - 1) % rows) + 1]]
                 dz   == pad[1] + (z0 - valid.lo[1])
                 into == (dz..dz + n - 1) \X (pad[2]..pad[2] + rows - 1)
             IN  [p \in DOMAIN out |-> IF p \in into THEN got[(p[1] - dz) * rows + p[2] - pad[2] + 1] ELSE read[s - 1][p]]
  IN  read[slabs]

\* ShardedZarrReader: the chunks a box touches, one after the other, each found through
\* its shard's index and copied where it belongs; fill where there is none.
ZarrReadInto(out, valid, pad) ==
  LET first == [a \in Axes |-> valid.lo[a] \div ChunkShape[a]]
      count == [a \in Axes |-> (valid.hi[a] - 1) \div ChunkShape[a] + 1 - first[a]]
      stored(c) == c[1] \div PerShard[1] \in dst.rows
      inner(c, p) == IF stored(c) THEN <<dst.by, [a \in Axes |-> c[a] * ChunkShape[a] + p[a]]>> ELSE Fill
      copy[k \in 0..count[1] * count[2]] ==
        IF k = 0 THEN out
        ELSE LET c  == Plus(first, <<(k - 1) \div count[2], (k - 1) % count[2]>>)
                 c0 == [a \in Axes |-> c[a] * ChunkShape[a]]
                 s0 == [a \in Axes |-> Max({valid.lo[a], c0[a]})]
                 s1 == [a \in Axes |-> Min({valid.hi[a], c0[a] + ChunkShape[a]})]
                 to == Plus(pad, Minus(s0, valid.lo))
             IN  [p \in DOMAIN out |->
                    IF \A a \in Axes : p[a] \in to[a]..to[a] + s1[a] - s0[a] - 1
                    THEN inner(c, Plus(Minus(p, to), Minus(s0, c0))) ELSE copy[k - 1][p]]
  IN  copy[count[1] * count[2]]

\* Mutant: both axes are padded from what was there before.
EdgePadOnce(o, pad, n) ==
  [p \in DOMAIN o |-> IF p[1] \in pad[1]..pad[1] + n[1] - 1
                      THEN o[<<p[1], Clamped(p[2], pad[2], pad[2] + n[2] - 1)>>]
                      ELSE o[<<Clamped(p[1], pad[1], pad[1] + n[1] - 1), p[2]>>]]

\* Edges repeated in place, axis by axis, padding of the first axis included.
EdgePad(o, pad, n) ==
  LET first == [p \in DOMAIN o |-> o[<<Clamped(p[1], pad[1], pad[1] + n[1] - 1), p[2]>>]]
  IN  [p \in DOMAIN o |-> first[<<p[1], Clamped(p[2], pad[2], pad[2] + n[2] - 1)>>]]

DeviceRead(box, valid) ==
  LET empty == [p \in Cells(Shape(box)) |-> Garbage]
      pad   == Minus(valid.lo, box.lo)
  IN  EdgePad(IF reader.kind = "zarr" THEN ZarrReadInto(empty, valid, pad)
                                      ELSE RawReadInto(empty, valid, pad),
              pad, Shape(valid))

\* gaussian_filtered: slabs of planes, each with the planes its window needs.
Window(data, shape, p) ==
  [d \in (-Margin..Margin) \X (-Margin..Margin) |->
     data[[a \in Axes |-> Clamped(p[a] + d[a], 0, shape[a] - 1)]]]

Filtered(data, shape) ==
  LET slabOf(p) == (p[1] \div FilterSlab) * FilterSlab
      part(z0) == \* planes z0 - Margin to z0 + FilterSlab + Margin, edges repeated
        [q \in Cells(<<Min({z0 + FilterSlab, shape[1]}) - z0 + 2 * Margin, shape[2]>>) |->
           data[<<Clamped(z0 - Margin + q[1], Max({z0 - Margin, 0}),
                          Min({z0 + FilterSlab + Margin, shape[1]}) - 1), q[2]>>]]
  IN  [p \in DOMAIN data |->
         LET z0 == slabOf(p)
             n  == <<Min({z0 + FilterSlab, shape[1]}) - z0 + 2 * Margin, shape[2]>>
         IN  Window(part(z0), n, <<p[1] - z0 + Margin, p[2]>>)]

\* _check_finite, before anything is padded.
HasNonFinite(valid) ==
  \E x \in NonFinite : x[1] = reader.by /\ \A a \in Axes : x[2][a] \in valid.lo[a]..valid.hi[a] - 1

\* _read_brick, and FilteredVolume.read_brick around it.
Read(box) ==
  LET asked == IF reader.filtered THEN GrowBox(box, Margin) ELSE box
      valid == Intersect(asked, Whole)
      device == reader.io = "kvikio"
      data  == IF device THEN DeviceRead(asked, valid) ELSE HostRead(asked, valid)
      crop(f) == [p \in Cells(Shape(box)) |-> f[Plus(p, <<Margin, Margin>>)]]
  IN  /\ reader # None /\ reader.use = "solve" /\ brick = None
      /\ IF valid = None \/ HasNonFinite(valid) THEN brick' = [box |-> box, refused |-> TRUE, valid |-> None, data |-> None]
         ELSE brick' = [box |-> box, refused |-> FALSE,
                        valid |-> IF ~reader.filtered THEN valid
                                  ELSE IF Intersect(box, Whole) = None THEN box ELSE Intersect(box, Whole),
                        data |-> IF reader.filtered THEN crop(Filtered(data, Shape(asked))) ELSE data]
      /\ UNCHANGED <<conversion, raw, reader, opens, exported>>

-----------------------------------------------------------------------------
(* Opening.                                                                 *)

GpuIo == {"auto", "host", "kvikio"}

\* gds.resolve: $ZVDVC_GPU_IO stands in for "auto" only.
Resolve(asked, env, machine) ==
  LET mode == IF asked = "auto" THEN env ELSE asked
  IN  CASE mode = "host"   -> "host"
        [] mode = "kvikio" -> IF machine = "none" THEN "error" ELSE "kvikio"
        [] mode = "auto"   -> IF machine = "gds" THEN "kvikio" ELSE "host"

\* _device_reader: the host path for a layout the device readers do not know.
Open(kind, by, missing, use) ==
  \E io \in {Resolve(a, e, m) : a \in GpuIo, e \in GpuIo, m \in Machines} \ {"error"}, filtered \in BOOLEAN :
    /\ reader = None /\ opens < MaxOpens /\ opens' = opens + 1
    /\ use = "export" => io = "host" /\ ~filtered
    /\ reader' = [kind |-> kind, by |-> by, use |-> use, warned |-> missing, filtered |-> filtered,
                  io |-> IF by \in DeviceReads THEN io ELSE "host"]
    /\ UNCHANGED <<conversion, raw, brick, exported>>

OpenZarr == IsStore(dst) /\ \E use \in {"solve", "export"} : Open("zarr", dst.by, dst.rows # ShardRows, use)

\* _check_raw_size: exactly the header and the voxels.
OpenRaw == raw /\ Open("raw", "raw", FALSE, "solve")

\* write_raw: the file is emptied, then written by slabs of planes; read on the host.
Export ==
  /\ reader # None /\ reader.use = "export"
  /\ LET done == IF exported = None THEN 0 ELSE Len(exported) \div Size[2]
         box  == [lo |-> <<done, 0>>, hi |-> <<Min({done + ExportSlab, Size[1]}), Size[2]>>]
         got  == HostRead(box, Intersect(box, Whole))
     IN  \/ exported = None /\ exported' = <<>>
         \/ /\ exported # None /\ done < Size[1]
            /\ exported' = exported \o [i \in 1..Shape(box)[1] * Size[2] |->
                               got[<<(i - 1) \div Size[2], (i - 1) % Size[2]>>]]
  /\ UNCHANGED <<conversion, raw, reader, opens, brick>>

Reading ==
  \/ OpenZarr \/ OpenRaw \/ Export
  \/ \E box \in Boxes : Read(box)

VolumesNext == (\E c \in Converters : Convert(c)) \/ Reading

Spec == VolumesInit /\ [][VolumesNext]_vars

-----------------------------------------------------------------------------
(* Properties.                                                              *)

\* convert_to_ome_zarr: an interrupted conversion leaves no partial dst, whoever
\* else converts, whatever fails and whenever one is killed; nothing but a Zarr
\* store is replaced; and no store it placed makes ZarrVolume warn.
DstWhole ==
  /\ dst # None => dst.rows = ShardRows
  /\ reader # None => ~reader.warned
  /\ \A c \in Converters : old[c] # None => old[c].by # "other"

\* The old store is moved aside only once the new one is complete, and deleted
\* only once that is in place: while there is a whole store, there is one left,
\* at dst or, after a crash, under its hidden name.
SomeWhole == IsWhole(dst) \/ \E c \in Converters : IsWhole(old[c])
Kept == [][SomeWhole => SomeWhole']_vars

\* read_brick: on either path, from either format, in whatever slabs and chunks,
\* a brick is the box asked for of the volume that was opened, edges repeated,
\* filtered or not, as long as nobody replaces the store meanwhile; it is refused
\* only outside the volume or for a voxel in reach that is not finite; and valid
\* is the part of it inside the volume, but for a filtered one outside it.  And
\* write_raw's file grows into that volume, whole only at its full size.
BrickRight ==
  reader # None =>
    LET value(q) == <<reader.by, [a \in Axes |-> Clamped(q[a], 0, Size[a] - 1)]>>
        inside   == Intersect(brick.box, Whole)
        reach    == Intersect(IF reader.filtered THEN GrowBox(brick.box, Margin) ELSE brick.box, Whole)
    IN  /\ exported # None => exported = SubSeq(VoxelsOf(reader.by), 1, Len(exported))
        /\ brick # None =>
             /\ brick.refused <=> (reach = None \/ HasNonFinite(reach))
             /\ ~brick.refused /\ inside # None => brick.valid = inside
             /\ ~brick.refused => \A p \in Cells(Shape(brick.box)) :
                  brick.data[p] =
                    IF ~reader.filtered THEN value(Plus(brick.box.lo, p))
                    ELSE [d \in (-Margin..Margin) \X (-Margin..Margin) |-> value(Plus(Plus(brick.box.lo, p), d))]
=============================================================================
