------------------------------ MODULE MCEngines -----------------------------
EXTENDS Engines

box(lo, hi) == [lo |-> lo, hi |-> hi]
voxels(n, levels) == [i \in 1 .. n |-> ((i * i) \div 3 + 2 * i) % levels]

\* A brick of 5 by 4 by 4, the smallest with two cells for a tricubic stencil.
brick(ctype, levels, valid, onDevice, skew, room) ==
  [size |-> << 5, 4, 4 >>, origin |-> << 10, 0, -2 >>, valid |-> valid, data |-> voxels(80, levels),
   ctype |-> ctype, onDevice |-> onDevice, skew |-> skew, room |-> room]
whole == box(<< 10, 0, -2 >>, << 15, 4, 2 >>)
inner == box(<< 11, 0, -2 >>, << 19, 4, 1 >>)

around == << << 0, 0, 0 >>, << 1, 0, 0 >>, << 0, 1, 0 >>, << 0, -1, 1 >>, << -1, 1, 0 >> >>
ahead == << << 0, 0, 0 >>, << 1, 0, 0 >>, << 0, 1, 0 >>, << 1, 0, 1 >>, << 0, 1, 1 >> >>
along == << << 0, 0, 0 >>, << 1, 0, 0 >>, << -1, 0, 0 >>, << 2, 0, 0 >>, << 0, 1, 0 >> >>
angles(p, q, r) == << 0, 1, 0, p, q, r >>
sumsOf(b, method, params, centres, active, offsets, threads) ==
  [what |-> "sums", brick |-> b, method |-> method, params |-> params, centres |-> centres,
   active |-> active, offsets |-> offsets, threads |-> threads,
   q |-> [pt \in DOMAIN centres |-> << 1, 0, 2, 1, 3 >>], shift |-> [pt \in DOMAIN centres |-> pt]]

\* Every half voxel along three lines through the brick and past its faces.
centresOf == [k \in 1 .. 65 |->
  LET x == (k - 1) % 13
  IN  Plus(<< 20, 0, -4 >>, CASE k <= 13 -> << x - 1, 2, 2 >>
                               [] k <= 26 -> << x - 1, 3, 2 >>
                               [] k <= 39 -> << x - 1, 3, 3 >>
                               [] k <= 52 -> << 3, x - 2, 2 >>
                               [] OTHER -> << 4, 3, x - 2 >>)]
sampleOf(b, method) ==
  [what |-> "sample", brick |-> b, method |-> method, params |-> [k \in 1 .. 65 |-> << 0, 0, 0 >>],
   centres |-> centresOf, offsets |-> << << 0, 0, 0 >>, << 1, 0, -1 >> >>, threads |-> 32]

warpOf(p) == [what |-> "warp", params |-> << p >>]
times(v, c) == [m \in DOMAIN v |-> c * D * v[m]]
add(v, c) == [m \in DOMAIN v |-> v[m] + c * D]
waves == { << 1, 1, -1, -1 >>, << 1, -1, 1, -1 >>, << -1, 1, 1, -1 >> }
zeroMean == {add(times(v, c), mean) : v \in waves, c \in {1, 2}, mean \in {0, 3}}
unitNorm == {times(v, 1) : v \in {<< 2, 0, 0, 0 >>, << 1, -1, 1, 1 >>, << 0, 0, 2, 0 >>, << 2, 2, 2, -2 >>}}
anything == {times(v, 1) : v \in {<< 1, 2, 0, 4 >>, << 3, 3, 1, 0 >>, << 0, 0, 5, 2 >>}}
flat == {times(<< 0, 0, 0, 0 >>, 1)}
texturedOf(kind) == CASE kind \in {"zssd", "znssd"} -> zeroMean [] kind = "nssd" -> unitNorm [] OTHER -> anything
systemOf(kind, jac) ==
  [what |-> "system", kind |-> kind, jac |-> [m \in DOMAIN jac |-> times(jac[m], 1)],
   refs |-> texturedOf(kind), tars |-> texturedOf(kind) \union flat]
jac1 == << << 1, 0, 2 >>, << 0, 1, -1 >>, << 2, -1, 0 >>, << 1, 3, 1 >> >>
jac2 == << << 1, 1, 1 >>, << 2, 2, 2 >>, << 0, -1, 3 >>, << -2, 0, 1 >> >>

u8Edge == brick("u8", 2, whole, TRUE, 0, 0)
u16View == brick("u16", 3, inner, TRUE, 2, 16)
u16Host == brick("u16", 2, whole, FALSE, 0, 0)
u8Padded == brick("u8", 4, inner, TRUE, 0, 16)
floats == brick("i32", 3, whole, FALSE, 0, 0)

\* In each, one active point has all its samples inside; but for the last,
\* the other has not.
sumsWork ==
  << sumsOf(u8Edge, "tricubic", << << 0, 0, 0 >>, << 1, 0, 1 >> >>, << << 22, 2, -2 >>, << 24, 2, -2 >> >>,
            << 2, 1 >>, ahead, 4),
     sumsOf(u16Host, "tricubic", << angles(0, 0, 1), angles(0, 1, 3) >>, << << 23, 2, -1 >>, << 23, 2, -2 >> >>,
            << 1, 2 >>, along, 8),
     sumsOf(u16View, "trilinear", << angles(1, 2, 3), angles(0, 0, 0), angles(3, 1, 0) >>,
            << << 29, 3, -1 >>, << 22, 2, -2 >>, << 25, 2, -2 >> >>, << 3, 1 >>, around, 8),
     sumsOf(floats, "trilinear", << angles(0, 3, 1) \o << 1, 0, -1, 1, 0, 0 >>, angles(1, 1, 0) \o << 0, 1, 0, 0, -1, 1 >> >>,
            << << 24, 3, -1 >>, << 25, 3, -1 >> >>, << 1, 2 >>, around, 4) >>
sampleWork ==
  << sampleOf(u8Edge, "tricubic"), sampleOf(u16View, "tricubic"), sampleOf(u16Host, "tricubic"),
     sampleOf(floats, "tricubic"), sampleOf(u8Padded, "tricubic"), sampleOf(u16View, "trilinear"), sampleOf(u8Edge, "trilinear"),
     sampleOf(u8Padded, "nearest"), sampleOf(floats, "nearest") >>
strains == << << >>, << 1, 0, -1, 2, 0, 1 >>, << 0, 2, 0, 1, -1, 0 >> >>
warpWork == [k \in 1 .. 192 |-> warpOf(angles(k % 4, (k \div 4) % 4, (k \div 16) % 4) \o strains[((k - 1) \div 64) + 1])]
              \o << warpOf(<< 0, 1, 2 >>) >>
kinds == << "sad", "ssd", "zssd", "nssd", "znssd" >>
systemWork == FlattenSeq([k \in 1 .. 5 |-> << systemOf(kinds[k], jac1), systemOf(kinds[k], jac2) >>])

MCWork == sumsWork \o sampleWork \o warpWork \o systemWork \o << [what |-> "update"] >>

outcome(out, singular, obj, step) == [outside |-> out, singular |-> singular, obj |-> obj, step |-> step]
MCOutcomes ==
  { outcome(TRUE, FALSE, 3, << 1, 0, 0 >>), outcome(TRUE, TRUE, NaN, << 0, 0, 0 >>), outcome(FALSE, TRUE, 3, << 1, 0, 0 >>),
    outcome(FALSE, TRUE, NaN, << 0, 0, 0 >>), outcome(FALSE, FALSE, 9, << 2, 0, -2 >>), outcome(FALSE, FALSE, 3, << 0, -2, 0 >>),
    outcome(FALSE, FALSE, 3, << 0, 0, 0 >>), outcome(FALSE, FALSE, 5, << 1, 0, 0 >>) }
=============================================================================
