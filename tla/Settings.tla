------------------------------ MODULE Settings ------------------------------
(***************************************************************************)
(* Where the settings of a run come from and where they are written: the   *)
(* YAML document (RunConfig.from_dict), CCPi's dvc_in file read by the     *)
(* drop-in, the dvc_in written for CCPi's own dvc, and the echo in .stat.  *)
(*                                                                         *)
(* A file is the sequence of its lines, a line its key, the words of its   *)
(* value and the note after it.  Numbers are in thousandths; what is       *)
(* smaller (obj_tol) stands as 0.                                          *)
(***************************************************************************)
EXTENDS Integers, Sequences, SequencesExt, FiniteSetsExt

CONSTANTS
  MaxSamples,       \* MAX_SAMPLES
  MaxIterationCount \* MAX_ITERATIONS: iteration counts are stored as uint8

Unit == 1000

Token(kind, x, w) == [kind |-> kind, x |-> x, word |-> w]
Num(x)  == Token("number", x, "")
Whole(n) == Num(n * Unit)
Word(w) == Token("word", 0, w)
File(w) == Token("path", 0, w)      \* relative
Flag(b) == Token("bool", IF b THEN 1 ELSE 0, "")
Infinite == Token("inf", 0, "")     \* also nan: float() takes both
IsNumber(t)  == t.kind \in {"number", "inf"}
IsInteger(t) == t.kind = "number" /\ t.x % Unit = 0

One(t)  == [list |-> FALSE, items |-> <<t>>]
List(s) == [list |-> TRUE, items |-> s]
Null    == [list |-> FALSE, items |-> <<>>]
Refused == [refused |-> TRUE]

-----------------------------------------------------------------------------
(* The configuration.                                                       *)

Field(type, default) ==
  [type |-> type, of |-> {}, size |-> 0, null |-> FALSE, required |-> FALSE, default |-> default]
Needed(type) == [Field(type, Null) EXCEPT !.required = TRUE]
Real(x)      == Field("float", One(Num(x)))
Count(n)      == Field("int", One(Whole(n)))
Optional(type)       == [Field(type, Null) EXCEPT !.null = TRUE]
Vector(type, s)      == [Field(type, List(s)) EXCEPT !.size = Len(s)]
Choice(S, default)   == [Field("literal", One(default)) EXCEPT !.of = S]
Words(S)             == {Word(w) : w \in S}

\* The dataclasses; cluster.devices, scheduler and brick_dtype, array_path and
\* gpu_io, which no conversion touches, are left out.
VolumeSpec ==
  [reference |-> Needed("str"), deformed |-> Needed("str"),
   raw_shape_xyz |-> [Optional("int") EXCEPT !.size = 3], raw_dtype |-> Optional("str"),
   raw_header_bytes |-> Count(0), prefilter_sigma |-> Real(0)]
SubvolumeSpec ==
  [geometry |-> Choice(Words({"cube", "sphere"}), Word("sphere")), size |-> Real(80000), n_samples |-> Count(8000),
   aspect |-> Vector("float", <<Num(1000), Num(1000), Num(1000)>>), seed |-> Count(0)]
\* The section is absent as a whole when threshold is null.
ThresholdSpec ==
  [gray_min |-> Needed("float"), gray_max |-> Needed("float"), min_fraction |-> Real(200)]
SearchSpec ==
  [dof |-> Choice({Whole(3), Whole(6), Whole(12)}, Whole(6)),
   objective |-> Choice(Words({"sad", "ssd", "zssd", "nssd", "znssd"}), Word("znssd")),
   interpolation |-> Choice(Words({"nearest", "trilinear", "tricubic"}), Word("tricubic")),
   disp_max |-> Real(38000), rigid_trans |-> Vector("float", <<Num(0), Num(0), Num(0)>>), basin_radius |-> Real(0),
   method |-> Choice(Words({"fagn", "icgn"}), Word("fagn")), max_iterations |-> Count(20),
   obj_tol |-> Real(0), disp_tol |-> Real(10), report_convg_fail |-> Field("bool", One(Flag(TRUE)))]
SeedingSpec ==
  [strategy |-> Choice(Words({"rigid", "wavefront", "coarse", "fft"}), Word("wavefront")),
   start_point |-> [Optional("float") EXCEPT !.size = 3], n_neighbours |-> Count(75),
   shell_width |-> Optional("float"), coarse_stride |-> Count(4)]
ClusterSpec ==
  [tile_shape |-> Vector("int", <<Whole(1024), Whole(1024), Whole(1024)>>),
   gpu_memory_fraction |-> Real(800), batch_points |-> Optional("int"), prefetch_depth |-> Count(2)]
Fields ==
  [points |-> Needed("str"), output |-> Needed("str"), num_points_to_process |-> Optional("int"),
   uncertainty_seeds |-> Count(0)]
  @@ VolumeSpec @@ SubvolumeSpec @@ ThresholdSpec @@ SearchSpec @@ SeedingSpec @@ ClusterSpec

Expected(data) ==
  IF DOMAIN data \intersect DOMAIN ThresholdSpec = {} THEN DOMAIN Fields \ DOMAIN ThresholdSpec ELSE DOMAIN Fields

Fits(f, t) ==
  CASE f.type = "float"   -> IsNumber(t)
    [] f.type = "int"     -> IsInteger(t)
    [] f.type = "bool"    -> t.kind = "bool"
    [] f.type = "str"     -> t.kind # "bool"
    [] f.type = "literal" -> t \in f.of

\* _build: whether a value of the document can be one of the field.
Builds(f, v) ==
  \/ v = Null /\ f.null
  \/ v # Null /\ v.list = (f.size > 0) /\ Len(v.items) = Max({1, f.size}) /\ \A i \in DOMAIN v.items : Fits(f, v.items[i])

Single(cfg, k)     == cfg[k].items[1].x
Finite(cfg, k)  == \A i \in DOMAIN cfg[k].items : cfg[k].items[i].kind = "number"
AllOver(cfg, k, least) == \A i \in DOMAIN cfg[k].items : cfg[k].items[i].x >= least
Unset(cfg, k)   == k \notin DOMAIN cfg \/ cfg[k] = Null

\* RunConfig.validate.
Validates(cfg) ==
  /\ \A k \in DOMAIN cfg : Fields[k].type = "float" => Finite(cfg, k)
  /\ \A k \in {"raw_header_bytes", "prefilter_sigma", "seed", "basin_radius", "obj_tol", "disp_tol",
               "uncertainty_seeds"} : AllOver(cfg, k, 0)
  /\ \A k \in {"size", "aspect", "disp_max"} : AllOver(cfg, k, 1)
  /\ \A k \in {"n_samples", "max_iterations", "n_neighbours", "coarse_stride", "tile_shape", "prefetch_depth"} :
       AllOver(cfg, k, Unit)
  /\ Single(cfg, "n_samples") <= MaxSamples * Unit /\ Single(cfg, "max_iterations") <= MaxIterationCount * Unit
  /\ 0 < Single(cfg, "gpu_memory_fraction") /\ Single(cfg, "gpu_memory_fraction") <= Unit
  /\ \A k \in {"raw_shape_xyz", "batch_points"} : Unset(cfg, k) \/ AllOver(cfg, k, Unit)
  /\ Unset(cfg, "shell_width") \/ AllOver(cfg, "shell_width", 1)
  /\ Unset(cfg, "num_points_to_process") \/ AllOver(cfg, "num_points_to_process", 0)
  /\ Unset(cfg, "gray_min") \/ /\ Single(cfg, "gray_max") >= Single(cfg, "gray_min")
                               /\ Single(cfg, "min_fraction") \in 0 .. Unit
  /\ cfg.method # One(Word("icgn")) /\ cfg.strategy # One(Word("fft"))      \* _NOT_IMPLEMENTED

\* RunConfig.from_dict: the configuration, or Refused.
FromDict(data) ==
  LET built == [k \in Expected(data) |-> IF k \in DOMAIN data THEN data[k] ELSE Fields[k].default] IN
  IF /\ DOMAIN data \subseteq DOMAIN Fields
     /\ \A k \in Expected(data) : Fields[k].required => k \in DOMAIN data
     /\ \A k \in DOMAIN data : Builds(Fields[k], data[k])
     /\ Validates(built)
  THEN built ELSE Refused

-----------------------------------------------------------------------------
(* Reading a dvc_in.                                                        *)

Setting(key, items) == [key |-> key, items |-> items, commas |-> FALSE, note |-> "", off |-> FALSE]

\* A path with a "#" in it, and what is left when it is cut there.
Hashed == "vol#2.raw" :> "vol"

\* Mutant: a comment starts at any "#".
UncommentAnywhere(line) ==
  [line EXCEPT !.note = "", !.items =
     [i \in DOMAIN @ |-> IF @[i].word \in DOMAIN Hashed THEN [@[i] EXCEPT !.word = Hashed[@]] ELSE @[i]]]

\* _COMMENT: the note, which follows whitespace, goes, a "#" inside a word stays.
Uncomment(line) == [line EXCEPT !.note = ""]

\* read_dvc_input: the last line with a key counts; lines that start with "#" do not.
ReadDvcInput(lines) ==
  LET read == [i \in DOMAIN lines |-> Uncomment(lines[i])]
      live == {i \in DOMAIN read : ~read[i].off}
  IN  [k \in {read[i].key : i \in live} |->
         LET last == read[Max({i \in live : read[i].key = k})]
         IN  [items |-> last.items, commas |-> last.commas]]

Cased == ("On" :> "on") @@ ("OFF" :> "off") @@ ("Big" :> "big") @@ ("Little" :> "little")
Lower(t) == IF t.word \in DOMAIN Cased THEN [t EXCEPT !.word = Cased[@]] ELSE t

ValueOf(p, k, default) == IF k \in DOMAIN p THEN p[k].items ELSE <<default>>
LowerOf(p, k, default) == LET items == ValueOf(p, k, Word(default)) IN IF items = <<>> THEN "" ELSE Lower(items[1]).word

Required ==
  {"reference_filename", "correlate_filename", "point_cloud_filename", "output_filename", "vol_bit_depth",
   "vol_wide", "vol_high", "vol_tall", "subvol_geom", "subvol_size", "subvol_npts", "disp_max", "num_srch_dof",
   "obj_function", "interp_type"}
IntegerKeys == {"vol_bit_depth", "vol_wide", "vol_high", "vol_tall", "vol_hdr_lngth", "subvol_npts", "num_srch_dof",
              "num_points_to_process"}
RealKeys    == {"subvol_size", "disp_max", "basin_radius"}
Grays     == {"gray_thresh_min", "gray_thresh_max"}
Triples   == {"subvol_aspect", "rigid_trans", "starting_point"}

Thresholded(p) == LowerOf(p, "subvol_thresh", "off") = "on"
Bits(p)        == p["vol_bit_depth"].items[1].x \div Unit

\* _number and _floats take what float() takes; integers may be written 500.0.
ReadsAsNumber(v, integer) ==
  Len(v.items) = 1 /\ (IF integer THEN IsInteger(v.items[1]) ELSE IsNumber(v.items[1])) /\ ~v.commas
ReadsAsTriple(v) == Len(v.items) = 3 /\ \A i \in 1..3 : IsNumber(v.items[i])

Readable(p) ==
  LET grays == IF Thresholded(p) THEN Grays ELSE {}
      reals == RealKeys \union grays \union (IF Thresholded(p) THEN {"min_vol_fract"} ELSE {})
  IN  /\ LowerOf(p, "subvol_thresh", "off") \in {"on", "off"}
      /\ Required \union grays \subseteq DOMAIN p
      /\ \A k \in IntegerKeys \intersect DOMAIN p : ReadsAsNumber(p[k], TRUE)
      /\ Bits(p) \in {8, 16}
      /\ Bits(p) = 16 => LowerOf(p, "vol_endian", "little") \in {"little", "big"}
      /\ \A k \in reals \intersect DOMAIN p : ReadsAsNumber(p[k], FALSE)
      /\ \A k \in Triples \intersect DOMAIN p : ReadsAsTriple(p[k]) \/ (k = "starting_point" /\ p[k].items = <<>>)

ScalarOf(p, k, n) == One(ValueOf(p, k, Whole(n))[1])
Triple(p, k, n)   == List(IF k \in DOMAIN p THEN p[k].items ELSE <<Whole(n), Whole(n), Whole(n)>>)
Located(p, k)     == One([p[k].items[1] EXCEPT !.x = 1])     \* resolved against the input file's folder

\* run_config_from_dvc_input.
DvcData(p) ==
  LET points == ScalarOf(p, "num_points_to_process", 0) IN
  [reference |-> Located(p, "reference_filename"), deformed |-> Located(p, "correlate_filename"),
   points |-> Located(p, "point_cloud_filename"), output |-> Located(p, "output_filename"),
   raw_shape_xyz |-> List(<<p["vol_wide"].items[1], p["vol_high"].items[1], p["vol_tall"].items[1]>>),
   raw_dtype |-> One(Word(IF Bits(p) = 8 THEN "|u1" ELSE IF LowerOf(p, "vol_endian", "little") = "big" THEN ">u2" ELSE "<u2")),
   raw_header_bytes |-> ScalarOf(p, "vol_hdr_lngth", 0),
   geometry |-> ScalarOf(p, "subvol_geom", 0), size |-> ScalarOf(p, "subvol_size", 0),
   n_samples |-> ScalarOf(p, "subvol_npts", 0), aspect |-> Triple(p, "subvol_aspect", 1),
   dof |-> ScalarOf(p, "num_srch_dof", 0), objective |-> ScalarOf(p, "obj_function", 0),
   interpolation |-> ScalarOf(p, "interp_type", 0), disp_max |-> ScalarOf(p, "disp_max", 0),
   rigid_trans |-> Triple(p, "rigid_trans", 0), basin_radius |-> ScalarOf(p, "basin_radius", 0),
   report_convg_fail |-> One(Flag(FALSE)), strategy |-> One(Word("wavefront")),
   start_point |-> IF ValueOf(p, "starting_point", Word("")) \in {<<>>, <<Word("")>>} THEN Null
                   ELSE List(p["starting_point"].items),
   num_points_to_process |-> IF points = One(Whole(0)) THEN Null ELSE points]
  @@ IF ~Thresholded(p) THEN <<>>
     ELSE [gray_min |-> ScalarOf(p, "gray_thresh_min", 0), gray_max |-> ScalarOf(p, "gray_thresh_max", 0),
           min_fraction |-> One(ValueOf(p, "min_vol_fract", Num(200))[1])]

RunConfigOf(p) == IF Readable(p) THEN FromDict(DvcData(p)) ELSE Refused

-----------------------------------------------------------------------------
(* Writing a dvc_in and the echo.                                           *)

\* ccpi_volume_layout: flat unsigned voxels only.
ReadableByCCPi(cfg) ==
  /\ cfg.raw_shape_xyz # Null /\ cfg.raw_dtype \in {One(Word(w)) : w \in {"|u1", "<u2", ">u2"}}
  /\ cfg.method = One(Word("fagn"))

DepthOf(cfg)  == IF cfg.raw_dtype = One(Word("|u1")) THEN 8 ELSE 16
EndianOf(cfg) == IF cfg.raw_dtype = One(Word(">u2")) THEN "big" ELSE "little"
OnOff(cfg)    == IF Unset(cfg, "gray_min") THEN "off" ELSE "on"

\* write_dvc_input, nothing for what dvc cannot read: every value ends with a note, as dvc needs it.
\* Its roi_path and output_base, which a caller may choose otherwise, are those of cfg.
WriteDvcInput(cfg, first) ==
  LET S(k, v) == <<[Setting(k, v.items) EXCEPT !.note = "###"]>>
      shape == cfg.raw_shape_xyz.items
  IN  IF ~ReadableByCCPi(cfg) THEN <<>> ELSE
      <<[Setting("###", <<>>) EXCEPT !.off = TRUE]>>
      \o S("reference_filename", cfg.reference) \o S("correlate_filename", cfg.deformed)
      \o S("point_cloud_filename", cfg.points) \o S("output_filename", cfg.output)
      \o S("vol_bit_depth", One(Whole(DepthOf(cfg))))
      \o (IF DepthOf(cfg) = 8 THEN <<>> ELSE S("vol_endian", One(Word(EndianOf(cfg)))))
      \o S("vol_hdr_lngth", cfg.raw_header_bytes)
      \o S("vol_wide", One(shape[1])) \o S("vol_high", One(shape[2])) \o S("vol_tall", One(shape[3]))
      \o S("subvol_geom", cfg.geometry) \o S("subvol_size", cfg.size) \o S("subvol_npts", cfg.n_samples)
      \o S("subvol_thresh", One(Word(OnOff(cfg))))
      \o (IF OnOff(cfg) = "off" THEN <<>>
          ELSE S("gray_thresh_min", cfg.gray_min) \o S("gray_thresh_max", cfg.gray_max)
               \o S("min_vol_fract", cfg.min_fraction))
      \o S("disp_max", cfg.disp_max) \o S("num_srch_dof", cfg.dof) \o S("obj_function", cfg.objective)
      \o S("interp_type", cfg.interpolation) \o S("rigid_trans", cfg.rigid_trans)
      \o S("basin_radius", cfg.basin_radius) \o S("subvol_aspect", cfg.aspect)
      \o S("num_points_to_process", IF cfg.num_points_to_process = Null THEN One(Whole(0)) ELSE cfg.num_points_to_process)
      \o S("starting_point", IF cfg.start_point = Null THEN first ELSE cfg.start_point)

\* ccpi.g: six significant digits.
SixDigits(t) ==
  LET size == IF t.x < 0 THEN -t.x ELSE t.x
      p    == IF size < 1000000 THEN 1 ELSE IF size < 10000000 THEN 10
              ELSE IF size < 100000000 THEN 100 ELSE IF size < 1000000000 THEN 1000 ELSE 10000
      near == ((size + (p \div 2)) \div p) * p
  IN  IF IsNumber(t) THEN [t EXCEPT !.x = IF t.x < 0 THEN -near ELSE near] ELSE t

\* stat_echo raises on numbers separated by commas: it splits at blanks only.
EchoRaises(p) == \E k \in {"rigid_trans", "subvol_aspect"} \intersect DOMAIN p : p[k].commas

StatEcho(p) ==
  LET S(k, items) == <<Setting(k, items)>>
      D(k, n)     == S(k, <<SixDigits(ValueOf(p, k, Whole(n))[1])>>)
      three(k, n) == S(k, LET v == Triple(p, k, n).items IN [i \in 1..3 |-> SixDigits(v[i])])
      copy(k)     == S(k, p[k].items)
  IN  copy("reference_filename") \o copy("correlate_filename") \o copy("point_cloud_filename")
      \o copy("output_filename") \o S("vol_bit_depth", <<Whole(Bits(p))>>)
      \o (IF Bits(p) = 8 THEN <<>> ELSE S("vol_endian", ValueOf(p, "vol_endian", Word("little"))))
      \o D("vol_hdr_lngth", 0) \o D("vol_wide", 0) \o D("vol_high", 0) \o D("vol_tall", 0)
      \o copy("subvol_geom") \o D("subvol_size", 0) \o D("subvol_npts", 0)
      \o S("subvol_thresh", ValueOf(p, "subvol_thresh", Word("off")))
      \o (IF ~Thresholded(p) THEN <<>>
          ELSE D("gray_thresh_min", 0) \o D("gray_thresh_max", 0)
               \o S("min_vol_fract", <<SixDigits(ValueOf(p, "min_vol_fract", Num(200))[1])>>))
      \o D("disp_max", 0) \o D("num_srch_dof", 0) \o copy("obj_function") \o copy("interp_type")
      \o three("rigid_trans", 0) \o D("basin_radius", 0) \o three("subvol_aspect", 1)

-----------------------------------------------------------------------------
(* What the drop-in checks besides.                                         *)

\* _check_backend.
BackendUsable(backend, gpu, numba) ==
  /\ backend \in {"numpy", "numpy32", "cpu", "cupy", "fused", "emulated"}
  /\ backend \in {"cupy", "fused"} => gpu
  /\ backend = "cpu" => numba

\* _check_points: a sequence of [id, finite].
CloudUsable(cloud) ==
  /\ cloud # <<>> /\ \A i \in DOMAIN cloud : cloud[i].finite
  /\ \A i, j \in DOMAIN cloud : cloud[i].id = cloud[j].id => i = j

-----------------------------------------------------------------------------
(* What the conversions keep.                                               *)

\* dvc_in has no key for these; the drop-in and CCPi use their own values.
NotCarried ==
  {"seed", "prefilter_sigma", "max_iterations", "obj_tol", "disp_tol", "report_convg_fail", "strategy",
   "n_neighbours", "shell_width", "coarse_stride", "uncertainty_seeds", "start_point"} \union DOMAIN ClusterSpec

SameCase(a, b) == \A k \in (DOMAIN a \union DOMAIN b) \ NotCarried :
  k \in DOMAIN a \intersect DOMAIN b /\ a[k] = b[k]
Rounded(cfg) == [k \in DOMAIN cfg |-> [cfg[k] EXCEPT !.items = [i \in DOMAIN @ |-> SixDigits(@[i])]]]
=============================================================================
