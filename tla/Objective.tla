----------------------------- MODULE Objective ------------------------------
(***************************************************************************)
(* The matching criteria and their Gauss-Newton systems: from the dense    *)
(* arrays of samples, and from the row of sums that every engine reduces a *)
(* point to.  CUDA has its own code for the latter.                        *)
(*                                                                         *)
(* Reals are fixed-point integers in units of 1/D; the inputs are chosen   *)
(* so that every product, quotient and root the formulas take is exact.    *)
(***************************************************************************)
EXTENDS Kernels

CONSTANT D

ASSUME ObjectiveAssumption == D \in Nat \ {0}

Kinds == {"sad", "ssd", "zssd", "nssd", "znssd"}
Centred == {"zssd", "znssd"}
Normalised == {"nssd", "znssd"}

Mul(x, y) == (x * y) \div D
Div(x, y) == (x * D) \div y
Sqrt(x) == CHOOSE r \in 0 .. 8 * D : r * r = x * D
Abs(x) == IF x < 0 THEN -x ELSE x
Inner(u, v) == Total([m \in DOMAIN u |-> Mul(u[m], v[m])])
Scaled(v, c) == [m \in DOMAIN v |-> Mul(v[m], c)]
Mean(v) == Total(v) \div Len(v)
Column(jac, k) == [m \in DOMAIN jac |-> jac[m][k]]
Inverse1(norm) == Div(D, IF norm > 0 THEN norm ELSE D)
Scale(kind) == CASE kind = "nssd" -> D \div 2 [] kind = "znssd" -> D \div 4 [] OTHER -> D

-----------------------------------------------------------------------------
(* Dense arrays: ref and tar are the samples, jac their Jacobian rows.      *)

Centre(v, kind) == IF kind \in Centred THEN [m \in DOMAIN v |-> v[m] - Mean(v)] ELSE v
Norm(v, kind) == Sqrt(Inner(Centre(v, kind), Centre(v, kind)))
Normalise(v, kind) ==
  IF kind \in Normalised THEN Scaled(Centre(v, kind), Inverse1(Norm(v, kind))) ELSE Centre(v, kind)

Residuals(ref, tar, kind) == Minus(Normalise(tar, kind), Normalise(ref, kind))

ObjectiveOf(ref, tar, kind) ==
  IF kind = "sad" THEN Total([m \in DOMAIN tar |-> Abs(tar[m] - ref[m])])
  ELSE Mul(Scale(kind), Inner(Residuals(ref, tar, kind), Residuals(ref, tar, kind)))

NormalEquations(ref, tar, jac, kind) ==
  LET n == Len(tar)
      params == DOMAIN jac[1]
      r == Residuals(ref, tar, kind)
      ghat == Normalise(tar, kind)
      inv == Inverse1(Norm(tar, kind))
      J(k) == Column(jac, k)
      m(k) == IF kind \in Centred THEN Mean(J(k)) ELSE 0
      a(k) == Inner(ghat, J(k))
      H(k, l) == Inner(J(k), J(l)) - n * Mul(m(k), m(l))
      b(k) == Inner(J(k), r)
  IN  [H |-> [k \in params |-> [l \in params |->
               IF kind \in Normalised THEN Mul(H(k, l) - Mul(a(k), a(l)), Mul(inv, inv)) ELSE H(k, l)]],
       b |-> [k \in params |->
               IF kind \in Normalised THEN Mul(b(k) - Mul(a(k), Inner(ghat, r)), inv) ELSE b(k)],
       obj |-> ObjectiveOf(ref, tar, kind)]

-----------------------------------------------------------------------------
(* The row of sums.                                                         *)

NUpper(dof) == (dof * (dof + 1)) \div 2
NSums(dof) == NUpper(dof) + 3 * dof + 7
Layout(dof) == [J |-> NUpper(dof), VJ |-> NUpper(dof) + dof, QJ |-> NUpper(dof) + 2 * dof, S |-> NUpper(dof) + 3 * dof]
Triu(dof) == FlattenSeq([r \in 1 .. dof |-> [j \in 1 .. dof - r + 1 |-> << r, r + j - 1 >>]])

\* The reference side of the residual, and the shift of the target.
ReferenceTerms(ref, kind) ==
  [q |-> Normalise(ref, kind), shift |-> IF kind \in Centred THEN Mean(ref) ELSE 0]

\* The array path's reduction; `one` is the unit the numbers are counted in.
AccumulateSums(q, v, jac, one) ==
  LET dof == Len(jac[1])
      inner(x, y) == Total([m \in DOMAIN x |-> (x[m] * y[m]) \div one])
      J(k) == Column(jac, k)
  IN  [t \in 1 .. NUpper(dof) |-> inner(J(Triu(dof)[t][1]), J(Triu(dof)[t][2]))]
        \o [k \in 1 .. dof |-> Total(J(k))]
        \o [k \in 1 .. dof |-> inner(v, J(k))]
        \o [k \in 1 .. dof |-> inner(q, J(k))]
        \o << Total(v), inner(v, v), inner(v, q), Total(q), inner(q, q), one * Len(v),
              Total([m \in DOMAIN v |-> Abs(v[m] - q[m])]) >>

\* The entry of the upper triangle that holds (r, c).
Upper(dof, r, c) == CHOOSE t \in 1 .. NUpper(dof) : Triu(dof)[t] \in { << r, c >>, << c, r >> }

\* The array path's normal equations, with the energy of the gradient and of
\* the target for the test of featureless targets.
NormalEquationsFromSums(S, shift, kind, dof) ==
  LET at == Layout(dof)
      SJ(r) == S[at.J + r]
      SvJ(r) == S[at.VJ + r]
      SqJ(r) == S[at.QJ + r]
      Sv == S[at.S + 1]
      Svv == S[at.S + 2]
      Svq == S[at.S + 3]
      Sq == S[at.S + 4]
      Sqq == S[at.S + 5]
      n == S[at.S + 6]
      m(r) == Div(SJ(r), AtLeast(n, D))
      vbar == IF kind \in Centred THEN Div(Sv, AtLeast(n, D)) ELSE 0
      H0(r, c) == S[Upper(dof, r, c)] - (IF kind \in Centred THEN Mul(n, Mul(m(r), m(c))) ELSE 0)
      b0(r) == SvJ(r) - Mul(vbar, SJ(r)) - SqJ(r) + (IF kind \in Centred THEN Mul(m(r), Sq) ELSE 0)
      norm2 == Svv - Mul(n, Mul(vbar, vbar))
      inv == Inverse1(Sqrt(AtLeast(norm2, 0)))
      a(r) == Mul(SvJ(r) - Mul(vbar, SJ(r)), inv)
      ghatq == Mul(Svq - Mul(vbar, Sq), inv)
      Jr(r) == a(r) - SqJ(r) + (IF kind = "znssd" THEN Mul(m(r), Sq) ELSE 0)
      P == 1 .. dof
  IN  [H |-> [r \in P |-> [c \in P |->
               IF kind \in Normalised THEN Mul(H0(r, c) - Mul(a(r), a(c)), Mul(inv, inv)) ELSE H0(r, c)]],
       b |-> [r \in P |-> IF kind \in Normalised THEN Mul(Jr(r) - Mul(a(r), D - ghatq), inv) ELSE b0(r)],
       obj |-> CASE kind = "sad" -> S[at.S + 7]
                 [] kind = "ssd" -> Svv - 2 * Svq + Sqq
                 [] kind = "zssd" -> norm2 - 2 * (Svq - Mul(vbar, Sq)) + Sqq
                 [] OTHER -> Mul(Scale(kind), D - 2 * ghatq + Sqq),
       gradEnergy |-> S[1] + S[1 + dof] + S[2 * dof],
       sumG2 |-> Svv + 2 * Mul(shift, Sv) + Mul(n, Mul(shift, shift))]

\* CUDA's, which takes H from the row in the order it was written and
\* centres and scales it in place.
NormalFromSums(S, s0, kind, dof) ==
  LET at == Layout(dof)
      x(i) == S[i + 1]
      nn == AtLeast(x(at.S + 5), D)
      n == x(at.S + 5)
      mean(i) == Div(x(i), nn)
      t(r, c) == (r * (2 * dof - r + 1)) \div 2 + c - r
      H0(r, c) == IF r <= c THEN x(t(r, c)) ELSE x(t(c, r))
      H1(r, c) == IF kind \in Centred THEN H0(r, c) - Mul(n, Mul(mean(at.J + r), mean(at.J + c))) ELSE H0(r, c)
      vbar == IF kind \in Centred THEN mean(at.S) ELSE 0
      norm2 == IF kind = "nssd" THEN x(at.S + 1) ELSE x(at.S + 1) - Mul(n, Mul(vbar, vbar))
      norm == Sqrt(IF norm2 > 0 THEN norm2 ELSE 0)
      inv == IF norm > 0 THEN Div(D, norm) ELSE D
      a(r) == Mul(x(at.VJ + r) - Mul(vbar, x(at.J + r)), inv)
      q0 == Mul(x(at.S + 2) - Mul(vbar, x(at.S + 3)), inv)
      centre(r) == IF kind \in Centred THEN Mul(mean(at.J + r), x(at.S + 3)) ELSE 0
      P == 1 .. dof
  IN  CASE kind \in {"sad", "ssd"} ->
             [H |-> [r \in P |-> [c \in P |-> H0(r - 1, c - 1)]],
              b |-> [r \in P |-> x(at.VJ + r - 1) - x(at.QJ + r - 1)],
              obj |-> IF kind = "sad" THEN x(at.S + 6) ELSE x(at.S + 1) - 2 * x(at.S + 2) + x(at.S + 4)]
        [] kind = "zssd" ->
             [H |-> [r \in P |-> [c \in P |-> H1(r - 1, c - 1)]],
              b |-> [r \in P |-> x(at.VJ + r - 1) - Mul(vbar, x(at.J + r - 1)) - x(at.QJ + r - 1) + centre(r - 1)],
              obj |-> norm2 - 2 * (x(at.S + 2) - Mul(vbar, x(at.S + 3))) + x(at.S + 4)]
        [] OTHER ->
             [H |-> [r \in P |-> [c \in P |-> Mul(Mul(H1(r - 1, c - 1) - Mul(a(r - 1), a(c - 1)), inv), inv)]],
              b |-> [r \in P |-> LET jr == a(r - 1) - x(at.QJ + r - 1) + centre(r - 1)
                                 IN  Mul(jr - Mul(a(r - 1), D - q0), inv)],
              obj |-> Mul(IF kind = "nssd" THEN D \div 2 ELSE D \div 4, D - 2 * q0 + x(at.S + 4))]

\* Mutant: the third diagonal entry is looked for one column late.
CudaEnergiesLate(S, s0, dof) ==
  LET x(i) == S[i + 1]
      at == Layout(dof)
  IN  [gradEnergy |-> x(0) + x(dof) + x(2 * dof),
       sumG2 |-> x(at.S + 1) + 2 * Mul(s0, x(at.S)) + Mul(x(at.S + 5), Mul(s0, s0))]

\* The gn_solve test of a featureless target, 0-based columns of the row.
CudaEnergies(S, s0, dof) ==
  LET x(i) == S[i + 1]
      at == Layout(dof)
  IN  [gradEnergy |-> x(0) + x(dof) + x(2 * dof - 1),
       sumG2 |-> x(at.S + 1) + 2 * Mul(s0, x(at.S)) + Mul(x(at.S + 5), Mul(s0, s0))]
=============================================================================
