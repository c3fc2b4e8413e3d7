------------------------------ MODULE Kernels -------------------------------
(***************************************************************************)
(* What the solver's engines compute for one sample and for one point: the *)
(* warped position, the interpolated value and gradient, the row of sums,  *)
(* and the normal equations that follow from the sums.  The array path     *)
(* (numpy or cupy), the CUDA kernels and the numba port each have their    *)
(* own code for this, and a run must not depend on which of them it uses.  *)
(*                                                                         *)
(* Arithmetic is exact.  Positions, displacements and template offsets are *)
(* integers, in units of 1/Q voxel, angles are quarter turns and strains   *)
(* are integers, so sines, cosines and interpolation weights (in units of  *)
(* 1/Unit(method)) are integers too.                                       *)
(***************************************************************************)
EXTENDS Integers, Sequences, SequencesExt, FiniteSetsExt

CONSTANTS
  Q,         \* parts of a voxel that positions are counted in
  PadBytes,  \* volume.PAD_BYTES
  Poison     \* what a load from outside an allocation, or across two words, gives

ASSUME KernelsAssumption == /\ {Q, PadBytes} \subseteq Nat /\ Q > 0 /\ Q % 2 = 0
                            /\ Poison \in Int

Axes == 1 .. 3
Total(s) == FoldLeft(LAMBDA x, y : x + y, 0, s)
Dot(u, v) == Total([k \in DOMAIN u |-> u[k] * v[k]])
Plus(u, v) == [k \in DOMAIN u |-> u[k] + v[k]]
Minus(u, v) == [k \in DOMAIN u |-> u[k] - v[k]]
AtMost(x, y) == Min({x, y})
AtLeast(x, y) == Max({x, y})

-----------------------------------------------------------------------------
(* Bricks.  A brick holds its voxels in one row, x fastest.  ctype is the   *)
(* type of a voxel, room the bytes of the allocation after the last voxel,  *)
(* and skew the offset of its first byte from a 16-byte boundary.           *)

Bytes(ctype) == CASE ctype = "u8" -> 1 [] ctype = "u16" -> 2 [] OTHER -> 4
Voxels(b) == b.size[1] * b.size[2] * b.size[3]
Ld(b, i) == b.data[i + 1]

IsPadded(b) == b.onDevice /\ b.skew = 0 /\ b.room >= PadBytes

\* Mutant: the copy takes no more bytes than its voxels.
PaddedEmptyExact(b) == [b EXCEPT !.onDevice = TRUE, !.skew = 0, !.room = 0]

PaddedEmpty(b) == [b EXCEPT !.onDevice = TRUE, !.skew = 0, !.room = PadBytes]
Padded(b) == IF IsPadded(b) THEN b ELSE PaddedEmpty(b)

\* The kernels are compiled for three types of voxel; any other becomes a float.
Prepare(b) == Padded([b EXCEPT !.ctype = IF @ \in {"u8", "u16"} THEN @ ELSE "float"])

\* The shape, and the valid region counted from the brick's first voxel.
BrickGeometry(b) ==
  [n |-> b.size, lo |-> Minus(b.valid.lo, b.origin), hi |-> Minus(b.valid.hi, b.origin)]

\* The unit-sized items of 32-bit word w of a brick; after the last voxel comes anything.
Word(b, w) ==
  LET per == 4 \div Bytes(b.ctype)
  IN  [j \in 1 .. per |-> LET i == per * w + j - 1 IN IF i < Voxels(b) THEN Ld(b, i) ELSE Poison]

FunnelShift(low, high, s) == SubSeq(low \o high, s + 1, s + Len(low))

\* Words first, first + 1, ... can be loaded.
Loadable(b, first, count) ==
  b.skew % 4 = 0 /\ 4 * (first + count) <= Voxels(b) * Bytes(b.ctype) + b.room

\* The four x taps of a tricubic row, two words for bytes and three for 16-bit voxels.
Row4(b, i) ==
  CASE b.ctype = "u8" ->
         LET w == i \div 4
         IN  IF Loadable(b, w, 2) THEN FunnelShift(Word(b, w), Word(b, w + 1), i % 4)
             ELSE [j \in 1 .. 4 |-> Poison]
    [] b.ctype = "u16" ->
         LET w == i \div 2
         IN  IF Loadable(b, w, 3)
             THEN FunnelShift(Word(b, w), Word(b, w + 1), i % 2)
                    \o FunnelShift(Word(b, w + 1), Word(b, w + 2), i % 2)
             ELSE [j \in 1 .. 4 |-> Poison]
    [] OTHER -> [j \in 1 .. 4 |-> Ld(b, i + j - 1)]

\* Taps from voxel i on, one load each.
PlainRow(b, i, n) == [j \in 1 .. n |-> Ld(b, i + j - 1)]

-----------------------------------------------------------------------------
(* Interpolation.  A stencil reads the taps from Before to After of the     *)
(* voxel below the position.                                                *)

Before(method) == IF method = "tricubic" THEN 1 ELSE 0
After(method) == CASE method = "nearest" -> 0 [] method = "trilinear" -> 1 [] OTHER -> 2
Width(method) == Before(method) + After(method) + 1
Unit(method) == CASE method = "nearest" -> 1 [] method = "trilinear" -> Q [] OTHER -> 2 * Q * Q * Q

\* Weights of the taps at fraction k / Q of a voxel, and their derivatives.
CatmullRom(k) ==
  [w |-> << -k*k*k + 2*Q*k*k - Q*Q*k, 3*k*k*k - 5*Q*k*k + 2*Q*Q*Q, -3*k*k*k + 4*Q*k*k + Q*Q*k, k*k*k - Q*k*k >>,
   d |-> << Q * (4*Q*k - 3*k*k - Q*Q), Q * (9*k*k - 10*Q*k), Q * (8*Q*k - 9*k*k + Q*Q), Q * (3*k*k - 2*Q*k) >>]
Linear(k) == [w |-> << Q - k, k >>, d |-> << -Q, Q >>]
Weights(method, k) ==
  CASE method = "nearest" -> [w |-> << 1 >>, d |-> << 0 >>]
    [] method = "trilinear" -> Linear(k)
    [] OTHER -> CatmullRom(k)

\* Contracts rows[z][y], each a row of taps along x.
Contract(rows, wx, wy, wz) ==
  Dot(wz, [z \in DOMAIN rows |-> Dot(wy, [y \in DOMAIN rows[z] |-> Dot(wx, rows[z][y])])])

ValueAndGradient(rows, method, f) ==
  LET x == Weights(method, f[1])
      y == Weights(method, f[2])
      z == Weights(method, f[3])
  IN  [inside |-> TRUE, value |-> Contract(rows, x.w, y.w, z.w),
       grad |-> << Contract(rows, x.d, y.w, z.w), Contract(rows, x.w, y.d, z.w), Contract(rows, x.w, y.w, z.d) >>]

Outside == [inside |-> FALSE, value |-> 0, grad |-> << 0, 0, 0 >>]

\* The kernels' interpolation at voxel i and fraction f, row by row through row(_).
Interpolate(row(_), g, method, i, f) ==
  LET c == [a \in Axes |-> IF method = "nearest" /\ 2 * f[a] >= Q THEN i[a] + 1 ELSE i[a]]
      first(y, z) == ((c[3] + z) * g.n[2] + c[2] + y) * g.n[1] + c[1] - Before(method)
      taps == 1 .. Width(method)
      off(j) == j - 1 - Before(method)
  IN  IF \A a \in Axes : /\ c[a] - Before(method) >= AtLeast(g.lo[a], 0)
                         /\ c[a] + After(method) <= AtMost(g.hi[a], g.n[a]) - 1
      THEN ValueAndGradient([z \in taps |-> [y \in taps |-> row(first(off(y), off(z)))]], method, f)
      ELSE Outside

\* gn_sums takes packed rows; sample_values does except for 16-bit voxels.
CudaInterpolate(b, method, i, f) ==
  Interpolate(LAMBDA j : IF method = "tricubic" THEN Row4(b, j) ELSE PlainRow(b, j, Width(method)),
              BrickGeometry(b), method, i, f)
CudaInterpolateValue(b, method, i, f) ==
  Interpolate(LAMBDA j : IF method = "tricubic" /\ b.ctype # "u16" THEN Row4(b, j)
                         ELSE PlainRow(b, j, Width(method)),
              BrickGeometry(b), method, i, f)

\* The numba port loads every tap.
NumbaInterpolate(b, method, i, f) ==
  Interpolate(LAMBDA j : PlainRow(b, j, Width(method)), BrickGeometry(b), method, i, f)

\* A centre as an integer voxel of the brick and a fraction.
Split(b, centre) ==
  LET local == [a \in Axes |-> centre[a] - Q * b.origin[a]]
  IN  [int |-> [a \in Axes |-> local[a] \div Q], frac |-> [a \in Axes |-> local[a] % Q]]

\* The kernels interpolate at a centre moved by `moved`.
Locate(b, centre, moved) ==
  LET s == Plus(Split(b, centre).frac, moved)
  IN  [i |-> [a \in Axes |-> Split(b, centre).int[a] + s[a] \div Q], f |-> [a \in Axes |-> s[a] % Q]]

\* The array path at the same position: every gather is clamped into the
\* array, and samples whose stencil leaves the valid region are marked.
Sample(b, method, centre, moved) ==
  LET c == Split(b, centre)
      local == Plus(c.frac, moved)
      idx == [a \in Axes |-> (IF method = "nearest" THEN (local[a] + Q \div 2) \div Q ELSE local[a] \div Q) + c.int[a]]
      lo == Minus(b.valid.lo, b.origin)
      hi == Minus(b.valid.hi, b.origin)
      safe == [a \in Axes |-> AtMost(AtLeast(idx[a], Before(method)),
                                     AtLeast(b.size[a] - 1 - After(method), Before(method)))]
      start == ((safe[3] - Before(method)) * b.size[2] + safe[2] - Before(method)) * b.size[1]
                 + safe[1] - Before(method)
      taps == 1 .. Width(method)
      block == [z \in taps |-> [y \in taps |-> PlainRow(b, start + ((z - 1) * b.size[2] + y - 1) * b.size[1], Width(method))]]
  IN  [ValueAndGradient(block, method, [a \in Axes |-> local[a] % Q]) EXCEPT
        !.inside = \A a \in Axes : /\ idx[a] - Before(method) >= AtLeast(lo[a], 0)
                                   /\ idx[a] + After(method) <= AtMost(hi[a], b.size[a]) - 1]

\* What the Lekien-Marsden matrix computes along one axis: the cubic that has
\* a given value (deriv 0) or slope (deriv 1) at one corner of the cell and zeros
\* for the rest, at fraction k / Q, in units of 1 / Q^3.
HermiteWeight(deriv, corner, k) ==
  CASE deriv = 0 /\ corner = 0 -> 2*k*k*k - 3*Q*k*k + Q*Q*Q
    [] deriv = 0 /\ corner = 1 -> 3*Q*k*k - 2*k*k*k
    [] deriv = 1 /\ corner = 0 -> k*k*k - 2*Q*k*k + Q*Q*k
    [] deriv = 1 /\ corner = 1 -> k*k*k - Q*k*k

\* CCPi's tricubic: values and central differences (here doubled once for
\* each axis they differ along) at the corners of the cell.
LekienMarsden(b, i, f) ==
  LET Cube == [Axes -> {0, 1}]
      at(v) == Ld(b, (v[3] * b.size[2] + v[2]) * b.size[1] + v[1])
      Signs(d) == {s \in [Axes -> {-1, 0, 1}] : \A a \in Axes : (s[a] = 0) <=> (d[a] = 0)}
      sign(s) == (IF s[1] < 0 THEN -1 ELSE 1) * (IF s[2] < 0 THEN -1 ELSE 1) * (IF s[3] < 0 THEN -1 ELSE 1)
      central(c, d) == MapThenSumSet(LAMBDA s : sign(s) * at([a \in Axes |-> i[a] + c[a] + s[a]]), Signs(d))
      weight(c, d, a) == (IF d[a] = 0 THEN 2 ELSE 1) * HermiteWeight(d[a], c[a], f[a])
  IN  MapThenSumSet(LAMBDA cd : central(cd[1], cd[2]) * weight(cd[1], cd[2], 1) * weight(cd[1], cd[2], 2)
                                  * weight(cd[1], cd[2], 3),
                    Cube \X Cube)

-----------------------------------------------------------------------------
(* Warping.  A parameter vector has 3, 6 or 12 entries: the translation,    *)
(* three angles (about z, y and x) and six strains.  Matrices are tuples of *)
(* rows.                                                                    *)

Cos(k) == << 1, 0, -1, 0 >>[(k % 4) + 1]
Sin(k) == Cos(k - 1)
Eye == << << 1, 0, 0 >>, << 0, 1, 0 >>, << 0, 0, 1 >> >>
MatPlus(A, B) == [r \in Axes |-> Plus(A[r], B[r])]
Mat3(A, B) == [r \in Axes |-> [k \in Axes |-> A[r][1] * B[1][k] + A[r][2] * B[2][k] + A[r][3] * B[3][k]]]
Apply(A, d) == [r \in Axes |-> Dot(A[r], d)]

\* The factors of R = Rx(psi) Ry(the) Rz(phi) and their derivatives, z first.
Elementary(p) ==
  LET c(k) == Cos(p[k])
      s(k) == Sin(p[k])
  IN  [mats |-> << << << c(4), s(4), 0 >>, << -s(4), c(4), 0 >>, << 0, 0, 1 >> >>,
                   << << c(5), 0, -s(5) >>, << 0, 1, 0 >>, << s(5), 0, c(5) >> >>,
                   << << 1, 0, 0 >>, << 0, c(6), s(6) >>, << 0, -s(6), c(6) >> >> >>,
       ders |-> << << << -s(4), c(4), 0 >>, << -c(4), -s(4), 0 >>, << 0, 0, 0 >> >>,
                   << << -s(5), 0, -c(5) >>, << 0, 0, 0 >>, << c(5), 0, -s(5) >> >>,
                   << << 0, 0, 0 >>, << 0, -s(6), c(6) >>, << 0, -c(6), -s(6) >> >> >>]
RotationMatrix(p) == LET m == Elementary(p).mats IN Mat3(Mat3(m[3], m[2]), m[1])

\* The entries of the strain tensor each strain sets: exx, eyy, ezz, exy, eyz, exz.
StrainEntries ==
  << { <<1, 1>> }, { <<2, 2>> }, { <<3, 3>> }, { <<1, 2>>, <<2, 1>> }, { <<2, 3>>, <<3, 2>> }, { <<1, 3>>, <<3, 1>> } >>
StrainTensor(p) ==
  [i \in Axes |-> [j \in Axes |-> p[6 + CHOOSE k \in 1 .. 6 : <<i, j>> \in StrainEntries[k]]]]

\* The array path: F = (I + E) R, and the matrices A_k with dx'/dp_k = A_k d.
DeformationMatrix(p) ==
  CASE Len(p) = 3 -> Eye
    [] Len(p) = 6 -> RotationMatrix(p)
    [] OTHER -> Mat3(MatPlus(Eye, StrainTensor(p)), RotationMatrix(p))
WarpLinearJacobians(p) ==
  LET m == Elementary(p).mats
      d == Elementary(p).ders
      R == RotationMatrix(p)
      dR == << Mat3(Mat3(m[3], m[2]), d[1]), Mat3(Mat3(m[3], d[2]), m[1]), Mat3(Mat3(d[3], m[2]), m[1]) >>
      IE == MatPlus(Eye, StrainTensor(p))
      dER(k) == [i \in Axes |-> IF \E j \in Axes : <<i, j>> \in StrainEntries[k]
                                THEN R[CHOOSE j \in Axes : <<i, j>> \in StrainEntries[k]] ELSE << 0, 0, 0 >>]
  IN  CASE Len(p) = 3 -> << >>
        [] Len(p) = 6 -> dR
        [] OTHER -> [k \in 1 .. 3 |-> Mat3(IE, dR[k])] \o [k \in 1 .. 6 |-> dER(k)]

\* The derivative of E by strain k, times R: rows of R.
RowsA == << 1, 2, 3, 1, 2, 1 >>
RowsB == << 1, 2, 3, 2, 3, 3 >>

\* Mutant: a shear moves one of its two rows only.
SelectRowsOnce(R, k) == [r \in Axes |-> IF r = RowsA[k] THEN R[RowsB[k]] ELSE << 0, 0, 0 >>]

SelectRows(R, k) ==
  [r \in Axes |-> CASE r = RowsA[k] -> R[RowsB[k]]
                    [] r = RowsB[k] -> R[RowsA[k]]
                    [] OTHER -> << 0, 0, 0 >>]

\* The kernels compute both at once.
WarpMatrices(p) ==
  LET z == Elementary(p).mats[1]
      y == Elementary(p).mats[2]
      x == Elementary(p).mats[3]
      d == Elementary(p).ders
      R == Mat3(x, Mat3(y, z))
      dR == << Mat3(x, Mat3(y, d[1])), Mat3(x, Mat3(d[2], z)), Mat3(d[3], Mat3(y, z)) >>
      IE == << << 1 + p[7], p[10], p[12] >>, << p[10], 1 + p[8], p[11] >>, << p[12], p[11], 1 + p[9] >> >>
  IN  CASE Len(p) = 3 -> [F |-> Eye, A |-> << >>]
        [] Len(p) = 6 -> [F |-> R, A |-> dR]
        [] OTHER -> [F |-> Mat3(IE, R),
                     A |-> [k \in 1 .. 3 |-> Mat3(IE, dR[k])] \o [k \in 1 .. 6 |-> SelectRows(R, k)]]

\* How far a sample at offset d moves with its point, and its Jacobian row.
Moved(p, F, d) == [a \in Axes |-> p[a] + Dot(F[a], d)]
JacobianRow(grad, A, d) == grad \o [k \in DOMAIN A |-> Dot(grad, Apply(A[k], d))]
=============================================================================
