------------------------------ MODULE MCDropIn ------------------------------
EXTENDS DropIn

Plain == [refInside |-> TRUE, thin |-> FALSE, refFlat |-> FALSE, lo |-> -100, hi |-> 100,
          target |-> 8, motion |-> "approach", singular |-> FALSE, targetFlat |-> FALSE]
Cycle == [Plain EXCEPT !.target = 0, !.motion = "cycle"]
Usual == {Plain, Cycle, [Plain EXCEPT !.target = -12], [Plain EXCEPT !.target = 40],
          [Plain EXCEPT !.motion = "overflow"]}
Odd   == {[Plain EXCEPT !.refInside = FALSE], [Plain EXCEPT !.thin = TRUE], [Plain EXCEPT !.refFlat = TRUE],
          [Plain EXCEPT !.hi = 4], [Plain EXCEPT !.motion = "unstable", !.target = -4], [Plain EXCEPT !.singular = TRUE],
          [Plain EXCEPT !.targetFlat = TRUE]}

MCLandscapes == Usual \union Odd
MCPosition == <<30, 10, 20, 0>>
MCWorlds ==
  {w \in [1..4 -> Usual] : w[4] \in {Plain, Cycle} /\ w[2] # w[3] /\ w[1] \in {Plain, [Plain EXCEPT !.motion = "overflow"]}} \union
  {[p \in 1..4 |-> IF p = q THEN odd ELSE Plain] : q \in 1..4, odd \in Odd}

\* CCPi's example, and what users, iDVC and write_dvc_input make of it.
Example(points) ==
  <<Setting("reference_filename", <<File("ref.raw")>>), Setting("correlate_filename", <<File("def.raw")>>),
    Setting("point_cloud_filename", <<File("grid.roi")>>), Setting("output_filename", <<File("out")>>),
    Setting("vol_bit_depth", <<Whole(16)>>), Setting("vol_endian", <<Word("Big")>>),
    Setting("vol_wide", <<Whole(1520)>>), Setting("vol_high", <<Whole(1257)>>), Setting("vol_tall", <<Whole(1260)>>),
    Setting("subvol_geom", <<Word("sphere")>>), Setting("subvol_size", <<Num(80500)>>),
    Setting("subvol_npts", <<Whole(8000)>>), Setting("disp_max", <<Whole(38)>>),
    Setting("num_srch_dof", <<Whole(6)>>), Setting("obj_function", <<Word("znssd")>>),
    Setting("interp_type", <<Word("tricubic")>>), Setting("num_points_to_process", <<Whole(points)>>)>>

Main(points, backend) ==
  [lines |-> Example(points), from |-> Null, cloud |-> [i \in 1..4 |-> [id |-> i, finite |-> TRUE]],
   backend |-> backend, gpu |-> backend # "cpu", sameShape |-> TRUE, folder |-> TRUE]
Usually == Main(0, "cpu")

With(key, items) == [Usually EXCEPT !.lines = Append(@, Setting(key, items))]     \* the last line counts
Without(key)     == [Usually EXCEPT !.lines = SelectSeq(@, LAMBDA l : l.key # key)]
Commas(key, items) == [Usually EXCEPT !.lines = Append(@, [Setting(key, items) EXCEPT !.commas = TRUE])]
Gray(lo, hi, on) == [Usually EXCEPT !.lines = @ \o <<Setting("subvol_thresh", <<Word(on)>>),
  Setting("gray_thresh_min", <<Whole(lo)>>), Setting("gray_thresh_max", <<Num(hi)>>)>>]

\* Configurations made in YAML, from which a dvc_in is written for CCPi's dvc.
Yaml ==
  [reference |-> One([File("vol#2.raw") EXCEPT !.x = 1]), deformed |-> One([File("def.raw") EXCEPT !.x = 1]),
   points |-> One([File("p.roi") EXCEPT !.x = 1]), output |-> One([File("res") EXCEPT !.x = 1]),
   raw_shape_xyz |-> List(<<Whole(300), Whole(200), Whole(100)>>), raw_dtype |-> One(Word("|u1"))]
Yamls ==
  [written |-> Yaml, signed |-> [Yaml EXCEPT !.raw_dtype = One(Word("<i2"))],
   writtenall |-> Yaml @@ [geometry |-> One(Word("cube")), size |-> One(Num(41500)), dof |-> One(Whole(12)),
     gray_min |-> One(Num(1500)), gray_max |-> One(Whole(90)), min_fraction |-> One(Num(450)),
     start_point |-> List(<<Num(500), Whole(-2), Whole(3)>>), num_points_to_process |-> One(Whole(3)),
     rigid_trans |-> List(<<Num(-30125), Whole(0), Num(7)>>), max_iterations |-> One(Whole(255))]]
Written(cfg) ==
  [Usually EXCEPT !.lines = WriteDvcInput(cfg, List(<<Whole(1), Whole(2), Whole(3)>>)), !.from = cfg]

MCJobs ==
  [fused0 |-> Main(0, "fused"), fused3 |-> Main(3, ""), cpu0 |-> Main(0, "cpu"), cpu2 |-> Main(2, "cpu"),
   missing |-> Without("vol_tall"), eight |-> With("vol_bit_depth", <<Whole(8)>>), twelve |-> With("vol_bit_depth", <<Whole(12)>>),
   middle |-> With("vol_endian", <<Word("middle")>>), header |-> With("vol_hdr_lngth", <<Whole(1234567)>>),
   half |-> With("subvol_npts", <<Num(500500)>>), none |-> With("subvol_npts", <<Whole(0)>>),
   most |-> With("subvol_npts", <<Whole(1000000)>>), toomany |-> With("subvol_npts", <<Whole(1000001)>>),
   dof |-> With("num_srch_dof", <<Whole(5)>>), endless |-> With("disp_max", <<Infinite>>), word |-> With("disp_max", <<Word("far")>>),
   blank |-> With("starting_point", <<>>), started |-> Commas("starting_point", <<Whole(12), Whole(3), Num(-4500)>>),
   rigid |-> With("rigid_trans", <<Num(34250), Num(-1), Whole(0)>>), pair |-> With("rigid_trans", <<Whole(1), Whole(2)>>),
   commas |-> Commas("rigid_trans", <<Whole(1), Whole(2), Whole(3)>>), aspect |-> With("subvol_aspect", <<Whole(1), Whole(0), Whole(1)>>),
   gray |-> Gray(10, 255500, "On"), onegray |-> Gray(10, 10000, "on"), crossed |-> Gray(20, 10000, "on"), nogray |-> Gray(20, 10000, "OFF"),
   odd |-> With("subvol_thresh", <<Word("maybe")>>), unknown |-> With("subvol_shape", <<Word("x")>>),
   minus |-> With("num_points_to_process", <<Whole(-1)>>),
   off |-> [Usually EXCEPT !.lines = Append(@, [Setting("disp_max", <<Whole(0)>>) EXCEPT !.off = TRUE])],
   emptycloud |-> [Usually EXCEPT !.cloud = <<>>], nan |-> [Usually EXCEPT !.cloud[2].finite = FALSE],
   twice |-> [Usually EXCEPT !.cloud[2].id = 1], nogpu |-> [Main(0, "fused") EXCEPT !.gpu = FALSE],
   nobackend |-> [Usually EXCEPT !.backend = "opencl"], default |-> [Usually EXCEPT !.backend = ""],
   shapes |-> [Usually EXCEPT !.sameShape = FALSE], nofolder |-> [Usually EXCEPT !.folder = FALSE]]
  @@ [y \in DOMAIN Yamls |-> Written(FromDict(Yamls[y]))]

Plains == {<<Plain, Plain, Cycle, Plain>>}
MCJobWorlds(j) == IF j \in {"fused0", "fused3", "cpu0", "cpu2"} THEN MCWorlds ELSE Plains
=============================================================================
