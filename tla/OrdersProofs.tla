----------------------------- MODULE OrdersProofs -----------------------------
(***************************************************************************)
(* Facts about numbers, finite sets and the orders of module Orders.       *)
(*                                                                         *)
(* The library's induction theorems take the statement to be proved as an  *)
(* operator.  Ind says the same of a set of numbers, and follows from the  *)
(* order of the naturals being well-founded.                               *)
(***************************************************************************)
EXTENDS Orders, SequencesExt, FiniteSetsExt, FiniteSetTheorems, WellFoundedInduction, TLAPS

(***************************************************************************)
(* Induction.                                                              *)
(***************************************************************************)
LEMMA Least ==
  ASSUME NEW T \in SUBSET Nat, T # {}
  PROVE  \E m \in T : \A k \in T : m <= k
<1> DEFINE R == {ss \in Nat \X Nat : ss[1] < ss[2]}
<1>1. IsWellFoundedOn(R, Nat)
  BY NatLessThanWellFounded DEF OpToRel
<1>2. PICK x \in T : \A y \in T : <<y, x>> \notin R
  <2> HIDE DEF R
  <2> QED
    BY <1>1, WFMin
<1>3. ASSUME NEW k \in T, k < x
      PROVE  FALSE
  <2>1. <<k, x>> \in Nat \X Nat /\ <<k, x>>[1] < <<k, x>>[2]
    BY <1>3
  <2>2. <<k, x>> \in R
    BY <2>1
  <2> QED
    BY <1>2, <2>2
<1> QED
  BY <1>3

LEMMA Ind ==
  ASSUME NEW S \in SUBSET Nat, 0 \in S, \A n \in S : n + 1 \in S
  PROVE  S = Nat
<1>1. SUFFICES ASSUME Nat \ S # {}
               PROVE  FALSE
  OBVIOUS
<1>2. PICK m \in Nat \ S : \A k \in Nat \ S : m <= k
  BY <1>1, Least
<1>3. m # 0 /\ m - 1 \in Nat /\ m - 1 \notin Nat \ S
  BY <1>2
<1> QED
  BY <1>2, <1>3

\* Up to a bound.
LEMMA IndUpTo ==
  ASSUME NEW N \in Nat, NEW S, 0 \in S, \A n \in 0 .. N - 1 : n \in S => n + 1 \in S
  PROVE  0 .. N \subseteq S
<1> DEFINE T == {n \in Nat : n <= N => n \in S}
<1>1. 0 \in T
  OBVIOUS
<1>2. ASSUME NEW n \in T
      PROVE  n + 1 \in T
  OBVIOUS
<1>3. T = Nat
  <2>1. T \subseteq Nat
    OBVIOUS
  <2> HIDE DEF T
  <2> QED
    BY <1>1, <1>2, <2>1, Ind
<1> QED
  BY <1>3

(***************************************************************************)
(* The largest and the smallest of a finite set.                           *)
(***************************************************************************)
LEMMA BoundedMax ==
  ASSUME NEW S \in SUBSET Int, S # {}, NEW b \in Int, \A x \in S : x <= b
  PROVE  \E m \in S : \A x \in S : x <= m
<1> DEFINE T == {n \in Nat : b - n \in S}
<1>1. PICK x \in S : TRUE
  OBVIOUS
<1>2. b - x \in T
  <2>1. b - x \in Nat /\ b - (b - x) = x
    BY <1>1
  <2> QED
    BY <2>1
<1>3. PICK n \in T : \A k \in T : n <= k
  <2>1. T \subseteq Nat
    OBVIOUS
  <2> HIDE DEF T
  <2> QED
    BY <1>2, <2>1, Least
<1>4. ASSUME NEW y \in S
      PROVE  y <= b - n
  <2>1. b - y \in Nat /\ b - (b - y) = y
    OBVIOUS
  <2>2. n <= b - y
    BY <1>3, <2>1
  <2>3. y \in Int /\ n \in Int
    OBVIOUS
  <2> QED
    BY <2>2, <2>3
<1> QED
  BY <1>3, <1>4

LEMMA FiniteBounded ==
  ASSUME NEW S \in SUBSET Int, IsFiniteSet(S)
  PROVE  \E b \in Int : \A x \in S : -b <= x /\ x <= b
<1> DEFINE N == Cardinality(S)
<1>1. N \in Nat /\ \E f \in [1..N -> S] : \A t \in S : \E i \in 1..N : f[i] = t
  BY FS_CardinalityType DEF ExistsBijection, Bijection, Surjection
<1>2. PICK f \in [1..N -> S] : \A t \in S : \E i \in 1..N : f[i] = t
  BY <1>1
<1> HIDE DEF N
<1> DEFINE T == {n \in Nat : \E b \in Int : \A i \in 1..N : i <= n => -b <= f[i] /\ f[i] <= b}
<1>3. 0 \in T
  BY <1>1
<1>4. ASSUME NEW n \in T
      PROVE  n + 1 \in T
  <2>1. PICK b \in Int : \A i \in 1..N : i <= n => -b <= f[i] /\ f[i] <= b
    OBVIOUS
  <2>2. CASE n + 1 \in 1..N
    <3>1. f[n + 1] \in Int
      BY <1>2, <2>2
    <3> DEFINE v == f[n + 1]
    <3>2. PICK c \in Int : b <= c /\ -v <= c /\ v <= c
      <4>1. \E c \in {b, v, -v} : b <= c /\ -v <= c /\ v <= c
        BY <3>1
      <4> QED
        BY <3>1, <4>1
    <3>3. \A i \in 1..N : i <= n + 1 => -c <= f[i] /\ f[i] <= c
      <4> SUFFICES ASSUME NEW i \in 1..N, i <= n + 1
                   PROVE  -c <= f[i] /\ f[i] <= c
        OBVIOUS
      <4>0. f[i] \in Int
        BY <1>2
      <4>1. CASE i <= n
        BY <2>1, <3>2, <4>0, <4>1
      <4>2. CASE i = n + 1
        BY <3>1, <3>2, <4>2
      <4> QED
        BY <4>1, <4>2, <1>1
    <3> QED
      BY <3>3
  <2>3. CASE n + 1 \notin 1..N
    <3>1. \A i \in 1..N : i <= n + 1 => i <= n
      BY <1>1, <2>3
    <3> QED
      BY <2>1, <3>1
  <2> QED
    BY <2>2, <2>3
<1>5. T = Nat
  <2>1. T \subseteq Nat
    OBVIOUS
  <2> HIDE DEF T
  <2> QED
    BY <1>3, <1>4, <2>1, Ind
<1>6. PICK b \in Int : \A i \in 1..N : i <= N => -b <= f[i] /\ f[i] <= b
  BY <1>1, <1>5
<1>7. \A i \in 1..N : i <= N
  BY <1>1
<1>8. \A x \in S : -b <= x /\ x <= b
  BY <1>2, <1>6, <1>7
<1> QED
  BY <1>8

LEMMA MaxFacts ==
  ASSUME NEW S \in SUBSET Int, IsFiniteSet(S), S # {}
  PROVE  Max(S) \in S /\ \A x \in S : x <= Max(S)
<1>1. PICK b \in Int : \A x \in S : x <= b
  BY FiniteBounded
<1>2. \E m \in S : \A x \in S : x <= m
  BY <1>1, BoundedMax
<1>3. \E m \in S : \A x \in S : m >= x
  BY <1>2
<1> QED
  BY <1>3 DEF Max

LEMMA MinFacts ==
  ASSUME NEW S \in SUBSET Int, IsFiniteSet(S), S # {}
  PROVE  Min(S) \in S /\ \A x \in S : Min(S) <= x
<1>1. PICK b \in Int : \A x \in S : -b <= x
  BY FiniteBounded
<1> DEFINE T == {-x : x \in S}
<1>2. T \in SUBSET Int /\ T # {} /\ \A y \in T : y <= b
  <2>1. T \subseteq Int
    OBVIOUS
  <2>3. PICK x \in S : TRUE
    OBVIOUS
  <2>4. -x \in T
    OBVIOUS
  <2>2. ASSUME NEW y \in T
        PROVE  y <= b
    <3>1. PICK z \in S : y = -z
      OBVIOUS
    <3>2. z \in Int /\ -b <= z
      BY <1>1
    <3> QED
      BY <3>1, <3>2
  <2> QED
    BY <2>1, <2>2, <2>4
<1>3. PICK m \in T : \A y \in T : y <= m
  <2> HIDE DEF T
  <2> QED
    BY <1>2, BoundedMax
<1>4. PICK x \in S : m = -x
  BY <1>3
<1>5. \A y \in S : x <= y
  <2> SUFFICES ASSUME NEW y \in S
               PROVE  x <= y
    OBVIOUS
  <2>1. -y \in T
    OBVIOUS
  <2>2. -y <= -x
    BY <1>3, <1>4, <2>1
  <2> QED
    BY <2>2
<1>6. \E m1 \in S : \A y \in S : m1 <= y
  BY <1>5
<1> QED
  BY <1>6 DEF Min

(***************************************************************************)
(* A set in order.                                                         *)
(***************************************************************************)
Keys(S, key) == S \in SUBSET Int /\ IsFiniteSet(S) /\ \A p \in S : key[p] \in Int

\* p comes before q.
Less(key, p, q) == key[p] < key[q] \/ (key[p] = key[q] /\ p < q)

LEMMA RankFacts ==
  ASSUME NEW S, NEW key, Keys(S, key), NEW p \in S
  PROVE  /\ Rank(S, key, p) \in 0 .. Cardinality(S) - 1
         /\ \A q \in S : Less(key, p, q) => Rank(S, key, p) < Rank(S, key, q)
<1>1. /\ Before(S, key, p) \subseteq S \ {p} /\ IsFiniteSet(S) /\ IsFiniteSet(S \ {p})
      /\ Cardinality(S \ {p}) = Cardinality(S) - 1 /\ Cardinality(S) \in Nat
  BY FS_RemoveElement, FS_CardinalityType DEF Keys, Before
<1>2. Rank(S, key, p) \in 0 .. Cardinality(S) - 1
  BY <1>1, FS_Subset, FS_CardinalityType DEF Rank
<1>3. ASSUME NEW q \in S, Less(key, p, q)
      PROVE  Rank(S, key, p) < Rank(S, key, q)
  <2>0. S \subseteq Int /\ \A r \in S : key[r] \in Int
    BY DEF Keys
  <2>1. Before(S, key, p) \union {p} \subseteq Before(S, key, q) /\ p \notin Before(S, key, p)
    <3>1. p \notin Before(S, key, p)
      BY <2>0 DEF Before
    <3>2. p \in Before(S, key, q)
      BY <1>3 DEF Before, Less
    <3>3. ASSUME NEW r \in Before(S, key, p)
          PROVE  r \in Before(S, key, q)
      <4>1. r \in S /\ Less(key, r, p)
        BY DEF Before, Less
      <4>2. Less(key, r, q)
        BY <1>3, <2>0, <4>1 DEF Less
      <4> QED
        BY <4>1, <4>2 DEF Before, Less
    <3> QED
      BY <3>1, <3>2, <3>3
  <2>2. IsFiniteSet(Before(S, key, p)) /\ IsFiniteSet(Before(S, key, q))
    BY <1>1, FS_Subset DEF Before
  <2>3. Cardinality(Before(S, key, p) \union {p}) = Rank(S, key, p) + 1
    BY <2>1, <2>2, FS_AddElement DEF Rank
  <2>4. Cardinality(Before(S, key, p) \union {p}) <= Rank(S, key, q)
    BY <2>1, <2>2, FS_Subset DEF Rank
  <2>5. Rank(S, key, p) \in Nat /\ Rank(S, key, q) \in Nat
    BY <2>2, FS_CardinalityType DEF Rank
  <2> QED
    BY <2>3, <2>4, <2>5
<1> QED
  BY <1>2, <1>3

\* Each position has one number of S, in order.
LEMMA SortedFacts ==
  ASSUME NEW S, NEW key, Keys(S, key)
  PROVE  LET s == Sorted(S, key) IN
         /\ Cardinality(S) \in Nat /\ Len(s) = Cardinality(S) /\ s \in Seq(S) /\ DOMAIN s = 1 .. Cardinality(S)
         /\ \A i, j \in DOMAIN s : i < j <=> Less(key, s[i], s[j])
         /\ \A p \in S : \E i \in DOMAIN s : s[i] = p
         /\ Range(s) = S
<1> DEFINE s == Sorted(S, key)
           n == Cardinality(S)
           rank == [p \in S |-> Rank(S, key, p) + 1]
<1>0. n \in Nat /\ IsFiniteSet(S) /\ S \subseteq Int /\ \A p \in S : key[p] \in Int
  BY FS_CardinalityType DEF Keys
<1>1. rank \in [S -> 1 .. n]
  <2> SUFFICES ASSUME NEW p \in S
               PROVE  Rank(S, key, p) + 1 \in 1 .. n
    OBVIOUS
  <2>1. Rank(S, key, p) \in 0 .. n - 1
    BY RankFacts
  <2> HIDE DEF n
  <2> QED
    BY <1>0, <2>1
<1>2. \A p, q \in S : p # q => Less(key, p, q) \/ Less(key, q, p)
  BY <1>0 DEF Less
<1>3. \A p, q \in S : Less(key, p, q) => rank[p] < rank[q]
  <2> SUFFICES ASSUME NEW p \in S, NEW q \in S, Less(key, p, q)
               PROVE  Rank(S, key, p) + 1 < Rank(S, key, q) + 1
    OBVIOUS
  <2>1. Rank(S, key, p) < Rank(S, key, q) /\ Rank(S, key, p) \in Int /\ Rank(S, key, q) \in Int
    BY RankFacts
  <2> QED
    BY <2>1
<1>4. rank \in Injection(S, 1 .. n)
  <2>1. \A p \in S : rank[p] \in Int
    BY <1>0, <1>1
  <2> HIDE DEF rank
  <2>2. \A p, q \in S : rank[p] = rank[q] => p = q
    BY <1>2, <1>3, <2>1
  <2> QED
    BY <1>1, <2>2 DEF Injection, IsInjective
<1>5. \A i \in 1 .. n : \E p \in S : rank[p] = i
  <2>1. IsFiniteSet(1 .. n) /\ Cardinality(1 .. n) = n
    BY <1>0, FS_Interval
  <2> HIDE DEF rank
  <2>2. rank \in Surjection(S, 1 .. n)
    BY <1>4, <2>1, FS_Injection
  <2> QED
    BY <2>2 DEF Surjection
<1>6. ASSUME NEW i \in 1 .. n
      PROVE  s[i] \in S /\ rank[s[i]] = i
  <2>1. s[i] = CHOOSE p \in S : Rank(S, key, p) = i - 1
    BY DEF Sorted
  <2>2. PICK p \in S : rank[p] = i
    BY <1>5
  <2>3. Rank(S, key, p) = i - 1
    <3>1. Rank(S, key, p) + 1 = i /\ Rank(S, key, p) \in Int
      BY <2>2, RankFacts
    <3> QED
      BY <3>1
  <2>4. s[i] \in S /\ Rank(S, key, s[i]) = i - 1
    <3> HIDE DEF s
    <3> QED
      BY <2>1, <2>3
  <2> HIDE DEF s, n
  <2> QED
    BY <2>4, <1>0
<1>7. DOMAIN s = 1 .. n /\ s \in [1 .. n -> S] /\ Len(s) = n /\ s \in Seq(S)
  <2>1. s = [i \in 1 .. n |-> s[i]]
    BY DEF Sorted
  <2> HIDE DEF s, n
  <2>2. DOMAIN s = 1 .. n /\ s \in [1 .. n -> S]
    BY <1>6, <2>1
  <2> QED
    BY <1>0, <2>2
<1>8. ASSUME NEW p \in S
      PROVE  s[rank[p]] = p /\ rank[p] \in 1 .. n
  <2>1. rank[p] \in 1 .. n
    BY <1>1
  <2> HIDE DEF s, rank, n
  <2>2. s[rank[p]] \in S /\ rank[s[rank[p]]] = rank[p]
    BY <2>1, <1>6
  <2> QED
    BY <2>1, <2>2, <1>4 DEF Injection, IsInjective
<1> HIDE DEF rank, s, n
<1>9. \A i, j \in 1 .. n : i < j <=> Less(key, s[i], s[j])
  <2> SUFFICES ASSUME NEW i \in 1 .. n, NEW j \in 1 .. n
               PROVE  i < j <=> Less(key, s[i], s[j])
    OBVIOUS
  <2>1. s[i] \in S /\ s[j] \in S /\ rank[s[i]] = i /\ rank[s[j]] = j
    BY <1>6
  <2>2. ASSUME i < j
        PROVE  Less(key, s[i], s[j])
    <3>1. s[i] # s[j]
      BY <2>1, <2>2
    <3>2. ASSUME Less(key, s[j], s[i])
          PROVE  FALSE
      <4>1. rank[s[j]] < rank[s[i]]
        BY <1>3, <2>1, <3>2
      <4> QED
        BY <2>1, <2>2, <4>1, <1>0
    <3> QED
      BY <1>2, <2>1, <3>1, <3>2
  <2>3. ASSUME Less(key, s[i], s[j])
        PROVE  i < j
    BY <1>3, <2>1, <2>3
  <2> QED
    BY <2>2, <2>3
<1>10. \A p \in S : \E i \in 1 .. n : s[i] = p
  BY <1>8
<1>11. Range(s) = S
  BY <1>6, <1>7, <1>10 DEF Range
<1> QED
  BY <1>0, <1>7, <1>9, <1>10, <1>11 DEF s, n

LEMMA AscendingFacts ==
  ASSUME NEW S \in SUBSET Int, IsFiniteSet(S)
  PROVE  LET s == Ascending(S) IN
         /\ Cardinality(S) \in Nat /\ Len(s) = Cardinality(S) /\ s \in Seq(S) /\ DOMAIN s = 1 .. Cardinality(S)
         /\ \A i, j \in DOMAIN s : i < j <=> s[i] < s[j]
         /\ \A p \in S : \E i \in DOMAIN s : s[i] = p
         /\ Range(s) = S
<1> DEFINE key == [p \in S |-> p]
           s == Ascending(S)
<1>1. s = Sorted(S, key) /\ Keys(S, key)
  BY DEF Ascending, Keys
<1> HIDE DEF s
<1>2. /\ Cardinality(S) \in Nat /\ Len(s) = Cardinality(S) /\ s \in Seq(S) /\ DOMAIN s = 1 .. Cardinality(S)
      /\ \A i, j \in DOMAIN s : i < j <=> Less(key, s[i], s[j])
      /\ \A p \in S : \E i \in DOMAIN s : s[i] = p
      /\ Range(s) = S
  <2> HIDE DEF key
  <2> QED
    BY <1>1, SortedFacts
<1>3. \A i \in DOMAIN s : s[i] \in S /\ key[s[i]] = s[i]
  BY <1>2
<1>4. \A i, j \in DOMAIN s : i < j <=> s[i] < s[j]
  <2> SUFFICES ASSUME NEW i \in DOMAIN s, NEW j \in DOMAIN s
               PROVE  i < j <=> s[i] < s[j]
    OBVIOUS
  <2>1. i < j <=> Less(key, s[i], s[j])
    BY <1>2
  <2>2. s[i] \in Int /\ s[j] \in Int
    BY <1>3
  <2> HIDE DEF key
  <2> QED
    BY <1>3, <2>1, <2>2 DEF Less
<1> QED
  BY <1>2, <1>4 DEF s

(***************************************************************************)
(* Quotients, images and selections.                                       *)
(***************************************************************************)
LEMMA AscendingInjective ==
  ASSUME NEW S \in SUBSET Int, IsFiniteSet(S)
  PROVE  LET s == Ascending(S) IN
         /\ DOMAIN s \subseteq Int
         /\ \A i \in DOMAIN s : s[i] \in S
         /\ \A i, j \in DOMAIN s : s[i] = s[j] => i = j
<1> DEFINE s == Ascending(S)
           c == Cardinality(S)
<1>1. c \in Nat /\ DOMAIN s = 1 .. c /\ Range(s) = S /\ \A i, j \in DOMAIN s : i < j <=> s[i] < s[j]
  BY AscendingFacts
<1> HIDE DEF s, c
<1>2. DOMAIN s \subseteq Int
  BY <1>1
<1>3. \A i \in DOMAIN s : s[i] \in S
  BY <1>1 DEF Range
<1>4. ASSUME NEW i \in DOMAIN s, NEW j \in DOMAIN s, s[i] = s[j]
      PROVE  i = j
  <2>1. s[i] \in S /\ s[j] \in S /\ i \in Int /\ j \in Int
    BY <1>2, <1>3
  <2>2. s[i] \in Int
    BY <2>1
  <2>3. ~(s[i] < s[j]) /\ ~(s[j] < s[i])
    BY <1>4, <2>2
  <2>4. ~(i < j) /\ ~(j < i)
    BY <1>1, <2>3
  <2> QED
    BY <2>1, <2>4
<1> QED
  BY <1>2, <1>3, <1>4 DEF s

LEMMA SeqMono ==
  ASSUME NEW S, NEW T, S \subseteq T, NEW s \in Seq(S)
  PROVE  s \in Seq(T)
OBVIOUS

LEMMA DivMono ==
  ASSUME NEW x \in Int, NEW y \in Int, NEW d \in Nat, d > 0, x <= y
  PROVE  x \div d <= y \div d /\ x \div d \in Int
OBVIOUS

LEMMA AtFacts ==
  ASSUME NEW s, NEW I \in SUBSET Int, IsFiniteSet(I)
  PROVE  LET t == At(s, I)  a == Ascending(I) IN
         /\ Cardinality(I) \in Nat /\ Len(t) = Cardinality(I) /\ DOMAIN t = 1 .. Cardinality(I)
         /\ \A j \in DOMAIN t : t[j] = s[a[j]] /\ a[j] \in I
         /\ Range(t) = {s[i] : i \in I}
         /\ \A S : (\A i \in I : s[i] \in S) => t \in Seq(S)
<1> DEFINE t == At(s, I)
           a == Ascending(I)
           n == Cardinality(I)
<1>1. n \in Nat /\ DOMAIN a = 1 .. n /\ Range(a) = I /\ \A p \in I : \E i \in DOMAIN a : a[i] = p
  BY AscendingFacts
<1>2. t = [j \in 1 .. n |-> s[a[j]]]
  BY DEF At
<1> HIDE DEF t, a, n
<1>3. \A j \in 1 .. n : a[j] \in I
  BY <1>1 DEF Range
<1>4. DOMAIN t = 1 .. n /\ Len(t) = n /\ \A j \in 1 .. n : t[j] = s[a[j]]
  BY <1>1, <1>2
<1>5. Range(t) = {s[i] : i \in I}
  <2>1. ASSUME NEW x \in Range(t)
        PROVE  x \in {s[i] : i \in I}
    <3>1. PICK j \in 1 .. n : x = t[j]
      BY <1>4 DEF Range
    <3>2. x = s[a[j]] /\ a[j] \in I
      BY <1>3, <1>4, <3>1
    <3> QED
      BY <3>2
  <2>2. ASSUME NEW i \in I
        PROVE  s[i] \in Range(t)
    BY <1>1, <1>4 DEF Range
  <2> QED
    BY <2>1, <2>2
<1>6. ASSUME NEW S, \A i \in I : s[i] \in S
      PROVE  t \in Seq(S)
  <2>1. t = [j \in 1 .. n |-> t[j]] /\ \A j \in 1 .. n : t[j] \in S
    BY <1>2, <1>3, <1>4, <1>6
  <2>2. t \in [1 .. n -> S]
    BY <2>1
  <2> QED
    BY <1>1, <2>2
<1> QED
  BY <1>1, <1>3, <1>4, <1>5, <1>6 DEF t, a, n

LEMMA AtInjective ==
  ASSUME NEW s, NEW I \in SUBSET Int, IsFiniteSet(I), \A i, j \in I : s[i] = s[j] => i = j
  PROVE  \A i, j \in DOMAIN At(s, I) : At(s, I)[i] = At(s, I)[j] => i = j
<1> DEFINE t == At(s, I)
           a == Ascending(I)
<1>1. DOMAIN a = DOMAIN t /\ \A j \in DOMAIN t : t[j] = s[a[j]] /\ a[j] \in I
  BY AtFacts, AscendingFacts
<1>2. \A i, j \in DOMAIN a : i < j <=> a[i] < a[j]
  BY AscendingFacts
<1>3. DOMAIN a \subseteq Int
  BY AscendingFacts
<1> HIDE DEF a, t
<1>4. ASSUME NEW i \in DOMAIN t, NEW j \in DOMAIN t, t[i] = t[j]
      PROVE  i = j
  <2>1. a[i] \in I /\ a[j] \in I /\ s[a[i]] = s[a[j]]
    BY <1>1, <1>4
  <2>3. a[i] = a[j] /\ a[i] \in Int
    BY <2>1
  <2>2. ~(i < j) /\ ~(j < i)
    BY <1>1, <1>2, <2>3
  <2> QED
    BY <1>1, <1>3, <2>2
<1> QED
  BY <1>4 DEF t

LEMMA MinOfTwo ==
  ASSUME NEW a \in Int, NEW b \in Int
  PROVE  Min({a, b}) = IF a <= b THEN a ELSE b
<1>1. \E m \in {a, b} : \A x \in {a, b} : m <= x
  OBVIOUS
<1>2. Min({a, b}) \in {a, b} /\ \A x \in {a, b} : Min({a, b}) <= x
  BY <1>1 DEF Min
<1> QED
  BY <1>2

LEMMA SubSeqRange ==
  ASSUME NEW S, NEW s \in Seq(S), NEW i \in 1 .. Len(s) + 1, NEW j \in i - 1 .. Len(s)
  PROVE  ToSet(SubSeq(s, i, j)) = {s[x] : x \in i .. j} /\ Len(SubSeq(s, i, j)) = j - i + 1
<1> DEFINE t == SubSeq(s, i, j)
           c == j - i + 1
<1>1. c \in Nat
  OBVIOUS
<1>2. Len(t) = c /\ DOMAIN t = 1 .. c /\ \A x \in 1 .. c : t[x] = s[i + x - 1]
  OBVIOUS
<1>3. ASSUME NEW y \in ToSet(t)
      PROVE  y \in {s[x] : x \in i .. j}
  <2>1. PICK x \in 1 .. c : y = t[x]
    <3> HIDE DEF t
    <3> QED
      BY <1>2 DEF ToSet
  <2>2. i + x - 1 \in i .. j
    OBVIOUS
  <2>3. y = s[i + x - 1]
    BY <1>2, <2>1
  <2> QED
    BY <2>2, <2>3
<1>4. ASSUME NEW x \in i .. j
      PROVE  s[x] \in ToSet(t)
  <2>1. x - i + 1 \in 1 .. c /\ i + (x - i + 1) - 1 = x
    OBVIOUS
  <2> HIDE DEF t, c
  <2>2. t[x - i + 1] = s[x]
    BY <1>2, <2>1
  <2> QED
    BY <1>2, <2>1, <2>2 DEF ToSet
<1> QED
  BY <1>2, <1>3, <1>4

\* The first u of a sequence without repetition.
LEMMA PrefixCard ==
  ASSUME NEW s, NEW u \in Nat, \A i, j \in 1 .. u : s[i] = s[j] => i = j
  PROVE  IsFiniteSet({s[i] : i \in 1 .. u}) /\ Cardinality({s[i] : i \in 1 .. u}) = u
<1> DEFINE f == [i \in 1 .. u |-> s[i]]
           T == {s[i] : i \in 1 .. u}
<1>1. f \in Surjection(1 .. u, T)
  BY DEF Surjection
<1>2. f \in Injection(1 .. u, T)
  BY DEF Injection, IsInjective
<1>3. IsFiniteSet(1 .. u) /\ Cardinality(1 .. u) = u
  BY FS_Interval
<1> HIDE DEF f, T
<1>4. IsFiniteSet(T) /\ Cardinality(T) = Cardinality(1 .. u)
  BY <1>1, <1>2, <1>3, FS_Surjection
<1> QED
  BY <1>3, <1>4 DEF T

LEMMA ImageFinite ==
  ASSUME NEW S, IsFiniteSet(S), NEW f
  PROVE  IsFiniteSet({f[x] : x \in S}) /\ Cardinality({f[x] : x \in S}) <= Cardinality(S)
<1> DEFINE g == [x \in S |-> f[x]]
           T == {f[x] : x \in S}
<1>1. g \in Surjection(S, T)
  BY DEF Surjection
<1> QED
  BY <1>1, FS_Surjection

\* A finite set of integers above a, with every one between, is an interval.
LEMMA IntervalSet ==
  ASSUME NEW J \in SUBSET Int, IsFiniteSet(J), NEW a \in Int,
         \A i \in J : i > a, \A i \in J : \A l \in a + 1 .. i : l \in J
  PROVE  Cardinality(J) \in Nat /\ J = a + 1 .. a + Cardinality(J)
<1>1. CASE J = {}
  <2>1. Cardinality(J) = 0
    BY <1>1, FS_EmptySet
  <2> QED
    BY <1>1, <2>1
<1>2. CASE J # {}
  <2> DEFINE b == Max(J)
  <2>1. b \in J /\ \A x \in J : x <= b
    BY <1>2, MaxFacts
  <2> HIDE DEF b
  <2>2. b \in Int /\ b > a
    BY <2>1
  <2>3. J = a + 1 .. b
    <3>1. ASSUME NEW x \in J
          PROVE  x \in a + 1 .. b
      <4>1. x \in Int /\ x > a /\ x <= b
        BY <2>1
      <4> QED
        BY <2>2, <4>1
    <3>2. a + 1 .. b \subseteq J
      BY <2>1
    <3> QED
      BY <3>1, <3>2
  <2>4. Cardinality(a + 1 .. b) = b - a
    <3>1. Cardinality(a + 1 .. b) = IF a + 1 > b THEN 0 ELSE b - (a + 1) + 1
      BY <2>2, FS_Interval
    <3> QED
      BY <2>2, <3>1
  <2>5. a + (b - a) = b /\ b - a \in Nat
    BY <2>2
  <2> QED
    BY <2>3, <2>4, <2>5
<1> QED
  BY <1>1, <1>2

LEMMA AscendingInterval ==
  ASSUME NEW a \in Int, NEW b \in Int, NEW i \in 1 .. b - a
  PROVE  Ascending(a + 1 .. b)[i] = a + i
<1> DEFINE S == a + 1 .. b
           key == [p \in S |-> p]
<1>1. S \in SUBSET Int /\ IsFiniteSet(S)
  BY FS_Interval
<1>2. Cardinality(S) = b - a
  <2>1. Cardinality(a + 1 .. b) = IF a + 1 > b THEN 0 ELSE b - (a + 1) + 1
    BY FS_Interval
  <2> QED
    BY <2>1
<1>3. ASSUME NEW p \in S
      PROVE  Rank(S, key, p) = p - a - 1
  <2>1. Before(S, key, p) = a + 1 .. p - 1
    BY DEF Before
  <2>2. Cardinality(a + 1 .. p - 1) = IF a + 1 > p - 1 THEN 0 ELSE (p - 1) - (a + 1) + 1
    BY FS_Interval
  <2> QED
    BY <2>1, <2>2 DEF Rank
<1>4. Ascending(S)[i] = CHOOSE p \in S : Rank(S, key, p) = i - 1
  BY <1>2 DEF Ascending, Sorted
<1>5. a + i \in S /\ \A p \in S : (Rank(S, key, p) = i - 1) <=> (p = a + i)
  BY <1>3
<1> HIDE DEF S, key
<1>6. Ascending(S)[i] = a + i
  BY <1>4, <1>5
<1> QED
  BY <1>6 DEF S

(***************************************************************************)
(* Sequences joined to one: f[i] is the first i of them.                   *)
(***************************************************************************)
Joins(f, seqs, n) == f[0] = <<>> /\ \A i \in 1 .. n : f[i] = f[i - 1] \o seqs[i]

LEMMA ConcatFacts ==
  ASSUME NEW S, NEW a \in Seq(S), NEW b \in Seq(S)
  PROVE  /\ a \o b \in Seq(S) /\ Len(a) \in Nat /\ Len(b) \in Nat
         /\ Len(a \o b) = Len(a) + Len(b)
         /\ \A x \in 1 .. Len(a) : (a \o b)[x] = a[x]
         /\ \A x \in 1 .. Len(b) : (a \o b)[Len(a) + x] = b[x]
<1>1. a \o b \in Seq(S) /\ Len(a) \in Nat /\ Len(b) \in Nat /\ Len(a \o b) = Len(a) + Len(b)
  OBVIOUS
<1>2. \A x \in 1 .. Len(a) : (a \o b)[x] = a[x]
  OBVIOUS
<1>3. ASSUME NEW x \in 1 .. Len(b)
      PROVE  (a \o b)[Len(a) + x] = b[x]
  <2>1. Len(a) + x \in 1 .. Len(a) + Len(b) /\ ~(Len(a) + x <= Len(a)) /\ Len(a) + x - Len(a) = x
    BY <1>1
  <2> QED
    BY <1>1, <2>1
<1> QED
  BY <1>1, <1>2, <1>3

LEMMA JoinsExist ==
  ASSUME NEW S, NEW n \in Nat, NEW seqs, \A i \in 1 .. n : seqs[i] \in Seq(S)
  PROVE  \E f \in [0 .. n -> Seq(S)] : Joins(f, seqs, n)
<1> DEFINE Chains == {m \in Nat : m <= n => \E f \in [0 .. m -> Seq(S)] : Joins(f, seqs, m)}
<1>1. 0 \in Chains
  <2> DEFINE f == [i \in 0 .. 0 |-> <<>>]
  <2>1. f \in [0 .. 0 -> Seq(S)] /\ Joins(f, seqs, 0)
    BY DEF Joins
  <2> QED
    BY <2>1
<1>2. ASSUME NEW m \in Chains, m + 1 <= n
      PROVE  \E g \in [0 .. m + 1 -> Seq(S)] : Joins(g, seqs, m + 1)
  <2>1. m \in Nat /\ m <= n
    BY <1>2
  <2>2. PICK f \in [0 .. m -> Seq(S)] : Joins(f, seqs, m)
    BY <2>1
  <2> DEFINE next == f[m] \o seqs[m + 1]
             g == [i \in 0 .. m + 1 |-> IF i = m + 1 THEN next ELSE f[i]]
  <2>3. next \in Seq(S)
    <3>1. f[m] \in Seq(S) /\ seqs[m + 1] \in Seq(S)
      BY <1>2, <2>1
    <3> QED
      BY <3>1
  <2>4. g \in [0 .. m + 1 -> Seq(S)]
    <3>1. \A i \in 0 .. m + 1 : i # m + 1 => i \in 0 .. m
      BY <2>1
    <3> HIDE DEF next
    <3> QED
      BY <2>3, <3>1
  <2>5. Joins(g, seqs, m + 1)
    <3>1. g[0] = <<>>
      BY <2>1, <2>2 DEF Joins
    <3>2. ASSUME NEW i \in 1 .. m + 1
          PROVE  g[i] = g[i - 1] \o seqs[i]
      <4>1. CASE i = m + 1
        <5>1. i - 1 = m /\ m \in 0 .. m + 1 /\ m # m + 1
          BY <2>1, <4>1
        <5>2. g[m] = f[m] /\ g[m + 1] = next
          <6> HIDE DEF next
          <6> QED
            BY <5>1
        <5> QED
          BY <4>1, <5>1, <5>2
      <4>2. CASE i # m + 1
        <5>1. g[i] = f[i] /\ g[i - 1] = f[i - 1] /\ i \in 1 .. m
          BY <2>1, <4>2
        <5> HIDE DEF g
        <5> QED
          BY <2>2, <5>1 DEF Joins
      <4> QED
        BY <4>1, <4>2
    <3> QED
      BY <3>1, <3>2 DEF Joins
  <2> QED
    BY <2>4, <2>5
<1>3. \A m \in Chains : m + 1 \in Chains
  <2> SUFFICES ASSUME NEW m \in Chains
               PROVE  m + 1 \in Chains
    OBVIOUS
  <2>1. m + 1 \in Nat
    OBVIOUS
  <2>2. m + 1 <= n => \E g \in [0 .. m + 1 -> Seq(S)] : Joins(g, seqs, m + 1)
    <3> HIDE DEF Chains
    <3> QED
      BY <1>2
  <2> QED
    BY <2>1, <2>2
<1>4. n \in Chains
  <2>1. Chains \in SUBSET Nat
    OBVIOUS
  <2> HIDE DEF Chains
  <2> QED
    BY <1>1, <1>3, <2>1, Ind
<1> QED
  BY <1>4

LEMMA FlattenJoins ==
  ASSUME NEW seqs, NEW n \in Nat, Len(seqs) = n, n = 0 => seqs = <<>>,
         NEW S, NEW f \in [0 .. n -> Seq(S)], Joins(f, seqs, n), \A i \in 1 .. n : seqs[i] \in Seq(S)
  PROVE  FlattenSeq(seqs) = f[n]
<1>1. CASE n = 0
  BY <1>1 DEF FlattenSeq, Joins
<1>2. CASE n # 0
  <2> DEFINE step(g, i) == IF i = 1 THEN seqs[i] ELSE g[i - 1] \o seqs[i]
             h == CHOOSE g : g = [i \in 1 .. n |-> step(g, i)]
             e == [i \in 1 .. n |-> f[i]]
  <2>1. e = [i \in 1 .. n |-> step(e, i)]
    <3>1. \A i \in 1 .. n : e[i] = step(e, i)
      <4> SUFFICES ASSUME NEW i \in 1 .. n
                   PROVE  f[i] = step(e, i)
        OBVIOUS
      <4>1. f[i] = f[i - 1] \o seqs[i] /\ f[0] = <<>>
        BY DEF Joins
      <4>2. CASE i = 1
        <5>1. <<>> \o seqs[1] = seqs[1]
          BY <4>2
        <5>2. i - 1 = 0
          BY <4>2
        <5> HIDE DEF step, h, e
        <5>3. f[i] = <<>> \o seqs[1]
          BY <4>1, <4>2, <5>2
        <5>4. f[i] = seqs[i]
          BY <4>2, <5>1, <5>3
        <5> QED
          BY <4>2, <5>4 DEF step
      <4>3. CASE i # 1
        <5>1. i - 1 \in 1 .. n /\ e[i - 1] = f[i - 1]
          BY <4>3
        <5> HIDE DEF e
        <5> QED
          BY <4>1, <4>3, <5>1
      <4> QED
        BY <4>2, <4>3
    <3> HIDE DEF step
    <3>2. e = [i \in 1 .. n |-> e[i]]
      OBVIOUS
    <3> HIDE DEF e
    <3> QED
      BY <3>1, <3>2
  <2>2. h = [i \in 1 .. n |-> step(h, i)]
    <3> HIDE DEF step, e
    <3> QED
      BY <2>1
  <2>3. FlattenSeq(seqs) = h[n]
    BY <1>2 DEF FlattenSeq
  <2>4. \A i \in 1 .. n : h[i] = step(h, i)
    <3> HIDE DEF step, h
    <3> QED
      BY <2>2
  <2> HIDE DEF h
  <2> DEFINE Same == {i \in Nat : i + 1 <= n => h[i + 1] = f[i + 1]}
  <2>5. 0 \in Same
    <3>1. 1 \in 1 .. n /\ 1 - 1 = 0
      BY <1>2
    <3>2. h[1] = seqs[1] /\ f[1] = <<>> \o seqs[1] /\ seqs[1] \in Seq(S)
      BY <2>4, <3>1 DEF Joins
    <3> QED
      BY <3>2
  <2>6. ASSUME NEW i \in Same
        PROVE  i + 1 \in Same
    <3> SUFFICES ASSUME (i + 1) + 1 <= n
                 PROVE  h[(i + 1) + 1] = f[(i + 1) + 1]
      OBVIOUS
    <3>1. i \in Nat /\ i + 1 <= n /\ (i + 1) + 1 \in 1 .. n /\ ((i + 1) + 1) - 1 = i + 1 /\ (i + 1) + 1 # 1
      OBVIOUS
    <3>2. h[i + 1] = f[i + 1]
      BY <3>1
    <3>3. h[(i + 1) + 1] = h[i + 1] \o seqs[(i + 1) + 1]
      BY <2>4, <3>1
    <3>4. f[(i + 1) + 1] = f[i + 1] \o seqs[(i + 1) + 1]
      BY <3>1 DEF Joins
    <3> QED
      BY <3>2, <3>3, <3>4
  <2>7. Same = Nat
    <3>1. Same \in SUBSET Nat
      OBVIOUS
    <3> HIDE DEF Same
    <3> QED
      BY <2>5, <2>6, <3>1, Ind
  <2>8. n - 1 \in Nat /\ (n - 1) + 1 = n
    BY <1>2
  <2>9. n - 1 \in Same
    BY <2>7, <2>8
  <2>10. h[n] = f[n]
    BY <2>8, <2>9
  <2> QED
    BY <2>3, <2>10
<1> QED
  BY <1>1, <1>2

\* Each of the sequences is found whole in the joined one, after those before it,
\* and nothing else is.
Places(f, seqs, n) ==
  /\ \A j \in 1 .. n : Len(f[j]) = Len(f[j - 1]) + Len(seqs[j])
  /\ \A j \in 1 .. n : Len(f[j]) <= Len(f[n])
  /\ \A j \in 1 .. n : \A x \in 1 .. Len(seqs[j]) : f[n][Len(f[j - 1]) + x] = seqs[j][x]
  /\ \A y \in 1 .. Len(f[n]) : \E j \in 1 .. n : \E x \in 1 .. Len(seqs[j]) : y = Len(f[j - 1]) + x

LEMMA JoinPlaces ==
  ASSUME NEW S, NEW n \in Nat, NEW seqs, \A i \in 1 .. n : seqs[i] \in Seq(S),
         NEW f \in [0 .. n -> Seq(S)], Joins(f, seqs, n)
  PROVE  Places(f, seqs, n)
<1>0. \A i \in 0 .. n : f[i] \in Seq(S) /\ Len(f[i]) \in Nat
  OBVIOUS
<1>1. ASSUME NEW j \in 1 .. n
      PROVE  /\ Len(f[j]) = Len(f[j - 1]) + Len(seqs[j]) /\ Len(seqs[j]) \in Nat
             /\ \A x \in 1 .. Len(f[j - 1]) : f[j][x] = f[j - 1][x]
             /\ \A x \in 1 .. Len(seqs[j]) : f[j][Len(f[j - 1]) + x] = seqs[j][x]
  <2>1. f[j] = f[j - 1] \o seqs[j] /\ f[j - 1] \in Seq(S) /\ seqs[j] \in Seq(S)
    <3>1. j - 1 \in 0 .. n
      OBVIOUS
    <3> QED
      BY <1>0, <3>1 DEF Joins
  <2>2. /\ Len(f[j - 1] \o seqs[j]) = Len(f[j - 1]) + Len(seqs[j]) /\ Len(seqs[j]) \in Nat
        /\ \A x \in 1 .. Len(f[j - 1]) : (f[j - 1] \o seqs[j])[x] = f[j - 1][x]
        /\ \A x \in 1 .. Len(seqs[j]) : (f[j - 1] \o seqs[j])[Len(f[j - 1]) + x] = seqs[j][x]
    <3> DEFINE a == f[j - 1]  b == seqs[j]
    <3>1. a \in Seq(S) /\ b \in Seq(S)
      BY <2>1
    <3> HIDE DEF a, b
    <3>2. /\ a \o b \in Seq(S) /\ Len(a) \in Nat /\ Len(b) \in Nat
          /\ Len(a \o b) = Len(a) + Len(b)
          /\ \A x \in 1 .. Len(a) : (a \o b)[x] = a[x]
          /\ \A x \in 1 .. Len(b) : (a \o b)[Len(a) + x] = b[x]
      BY <3>1, ConcatFacts
    <3> QED
      BY <3>2 DEF a, b
  <2>3. f[j] = f[j - 1] \o seqs[j]
    BY <2>1
  <2> DEFINE joined == f[j - 1] \o seqs[j]
  <2>4. f[j] = joined
    BY <2>3
  <2>5. /\ Len(joined) = Len(f[j - 1]) + Len(seqs[j]) /\ Len(seqs[j]) \in Nat
        /\ \A x \in 1 .. Len(f[j - 1]) : joined[x] = f[j - 1][x]
        /\ \A x \in 1 .. Len(seqs[j]) : joined[Len(f[j - 1]) + x] = seqs[j][x]
    BY <2>2
  <2> HIDE DEF joined
  <2> QED
    BY <2>4, <2>5
<1> DEFINE P == {m \in Nat : m <= n =>
                   /\ \A j \in 1 .. m : Len(f[j]) <= Len(f[m])
                   /\ \A j \in 1 .. m : \A x \in 1 .. Len(seqs[j]) : f[m][Len(f[j - 1]) + x] = seqs[j][x]
                   /\ \A y \in 1 .. Len(f[m]) : \E j \in 1 .. m : \E x \in 1 .. Len(seqs[j]) : y = Len(f[j - 1]) + x}
<1>2. 0 \in P
  <2>1. Len(f[0]) = 0
    BY DEF Joins
  <2> QED
    BY <2>1
<1>3. ASSUME NEW m \in P, m + 1 <= n
      PROVE  /\ \A j \in 1 .. m + 1 : Len(f[j]) <= Len(f[m + 1])
             /\ \A j \in 1 .. m + 1 : \A x \in 1 .. Len(seqs[j]) : f[m + 1][Len(f[j - 1]) + x] = seqs[j][x]
             /\ \A y \in 1 .. Len(f[m + 1]) : \E j \in 1 .. m + 1 : \E x \in 1 .. Len(seqs[j]) : y = Len(f[j - 1]) + x
  <2>0. m \in Nat /\ m <= n /\ m + 1 \in 1 .. n /\ (m + 1) - 1 = m
    BY <1>3
  <2>1. /\ \A j \in 1 .. m : Len(f[j]) <= Len(f[m])
        /\ \A j \in 1 .. m : \A x \in 1 .. Len(seqs[j]) : f[m][Len(f[j - 1]) + x] = seqs[j][x]
        /\ \A y \in 1 .. Len(f[m]) : \E j \in 1 .. m : \E x \in 1 .. Len(seqs[j]) : y = Len(f[j - 1]) + x
    BY <1>3, <2>0
  <2> HIDE DEF P
  <2>2. /\ Len(f[m + 1]) = Len(f[m]) + Len(seqs[m + 1]) /\ Len(seqs[m + 1]) \in Nat
        /\ \A x \in 1 .. Len(f[m]) : f[m + 1][x] = f[m][x]
        /\ \A x \in 1 .. Len(seqs[m + 1]) : f[m + 1][Len(f[m]) + x] = seqs[m + 1][x]
        /\ Len(f[m]) \in Nat
    <3>1. m \in 0 .. n
      BY <2>0
    <3>2. /\ Len(f[m + 1]) = Len(f[(m + 1) - 1]) + Len(seqs[m + 1]) /\ Len(seqs[m + 1]) \in Nat
          /\ \A x \in 1 .. Len(f[(m + 1) - 1]) : f[m + 1][x] = f[(m + 1) - 1][x]
          /\ \A x \in 1 .. Len(seqs[m + 1]) : f[m + 1][Len(f[(m + 1) - 1]) + x] = seqs[m + 1][x]
      BY <1>1, <2>0
    <3> QED
      BY <1>0, <2>0, <3>1, <3>2
  <2>3. ASSUME NEW j \in 1 .. m + 1
        PROVE  /\ Len(f[j]) <= Len(f[m + 1])
               /\ \A x \in 1 .. Len(seqs[j]) : f[m + 1][Len(f[j - 1]) + x] = seqs[j][x]
    <3>1. CASE j = m + 1
      <4>1. j - 1 = m /\ Len(f[j]) = Len(f[m + 1])
        BY <2>0, <3>1
      <4>2. Len(f[j]) <= Len(f[m + 1])
        BY <2>2, <4>1
      <4> QED
        BY <2>2, <3>1, <4>1, <4>2
    <3>2. CASE j # m + 1
      <4>1. j \in 1 .. m /\ j \in 1 .. n /\ j - 1 \in 0 .. n /\ j \in 0 .. n
        BY <2>0, <3>2
      <4>2. Len(f[j]) \in Nat /\ Len(f[j - 1]) \in Nat /\ Len(seqs[j]) \in Nat
            /\ Len(f[j]) = Len(f[j - 1]) + Len(seqs[j]) /\ Len(f[j]) <= Len(f[m])
        BY <1>0, <1>1, <2>1, <4>1
      <4>3. ASSUME NEW x \in 1 .. Len(seqs[j])
            PROVE  f[m + 1][Len(f[j - 1]) + x] = seqs[j][x]
        <5> DEFINE y == Len(f[j - 1]) + x
        <5>1. y \in 1 .. Len(f[m])
          <6>1. x \in Nat /\ x >= 1 /\ x <= Len(seqs[j])
            BY <4>2
          <6> DEFINE a == Len(f[j - 1])  b == Len(seqs[j])  c == Len(f[j])  d == Len(f[m])
          <6>2. a \in Nat /\ b \in Nat /\ c = a + b /\ d \in Nat /\ c <= d /\ x \in Nat /\ x >= 1 /\ x <= b
            BY <2>2, <4>2, <6>1
          <6> HIDE DEF a, b, c, d
          <6>3. a + x \in 1 .. d
            BY <6>2
          <6> QED
            BY <6>3 DEF a, d
        <5>2. f[m][y] = seqs[j][x]
          BY <2>1, <4>1
        <5> HIDE DEF y
        <5>3. f[m + 1][y] = f[m][y]
          BY <2>2, <5>1
        <5> QED
          BY <5>2, <5>3 DEF y
      <4>4. Len(f[j]) <= Len(f[m + 1])
        <5> DEFINE b == Len(seqs[m + 1])  c == Len(f[j])  d == Len(f[m])  e == Len(f[m + 1])
        <5>1. e = d + b /\ b \in Nat /\ c \in Nat /\ d \in Nat /\ c <= d
          BY <2>2, <4>2
        <5> HIDE DEF b, c, d, e
        <5>2. c <= e
          BY <5>1
        <5> QED
          BY <5>2 DEF c, e
      <4> QED
        BY <4>3, <4>4
    <3> QED
      BY <3>1, <3>2
  <2>4. ASSUME NEW y \in 1 .. Len(f[m + 1])
        PROVE  \E j \in 1 .. m + 1 : \E x \in 1 .. Len(seqs[j]) : y = Len(f[j - 1]) + x
    <3>1. CASE y <= Len(f[m])
      <4>1. y \in 1 .. Len(f[m])
        <5>1. y \in Int /\ y >= 1
          OBVIOUS
        <5> QED
          BY <2>2, <3>1, <5>1
      <4>2. PICK j \in 1 .. m : \E x \in 1 .. Len(seqs[j]) : y = Len(f[j - 1]) + x
        BY <2>1, <4>1
      <4>3. j \in 1 .. m + 1
        BY <2>0
      <4> QED
        BY <4>2, <4>3
    <3>2. CASE y > Len(f[m])
      <4> DEFINE x == y - Len(f[m])
      <4>1. x \in 1 .. Len(seqs[m + 1]) /\ y = Len(f[m]) + x
        <5>1. y \in Int /\ y <= Len(f[m + 1])
          OBVIOUS
        <5> DEFINE b == Len(seqs[m + 1])  d == Len(f[m])
        <5>2. y \in Int /\ y <= d + b /\ b \in Nat /\ d \in Nat /\ y > d
          BY <2>2, <3>2, <5>1
        <5> HIDE DEF b, d
        <5>3. y - d \in 1 .. b /\ y = d + (y - d)
          BY <5>2
        <5> QED
          BY <5>3 DEF b, d
      <4>2. m + 1 \in 1 .. m + 1 /\ (m + 1) - 1 = m
        BY <2>0
      <4> HIDE DEF x
      <4> QED
        BY <4>1, <4>2
    <3>3. y \in Int
      OBVIOUS
    <3> QED
      BY <2>2, <3>1, <3>2, <3>3
  <2> QED
    BY <2>3, <2>4
<1>4. \A m \in P : m + 1 \in P
  <2> SUFFICES ASSUME NEW m \in P
               PROVE  m + 1 \in P
    OBVIOUS
  <2>1. m + 1 \in Nat
    OBVIOUS
  <2>2. m + 1 <= n =>
          /\ \A j \in 1 .. m + 1 : Len(f[j]) <= Len(f[m + 1])
          /\ \A j \in 1 .. m + 1 : \A x \in 1 .. Len(seqs[j]) : f[m + 1][Len(f[j - 1]) + x] = seqs[j][x]
          /\ \A y \in 1 .. Len(f[m + 1]) : \E j \in 1 .. m + 1 : \E x \in 1 .. Len(seqs[j]) : y = Len(f[j - 1]) + x
    <3> HIDE DEF P
    <3> QED
      BY <1>3
  <2> QED
    BY <2>1, <2>2
<1>5. n \in P
  <2>1. P \in SUBSET Nat
    OBVIOUS
  <2> HIDE DEF P
  <2> QED
    BY <1>2, <1>4, <2>1, Ind
<1>6. /\ \A j \in 1 .. n : Len(f[j]) <= Len(f[n])
      /\ \A j \in 1 .. n : \A x \in 1 .. Len(seqs[j]) : f[n][Len(f[j - 1]) + x] = seqs[j][x]
      /\ \A y \in 1 .. Len(f[n]) : \E j \in 1 .. n : \E x \in 1 .. Len(seqs[j]) : y = Len(f[j - 1]) + x
  <2>1. n <= n
    OBVIOUS
  <2> QED
    BY <1>5, <2>1
<1> HIDE DEF P
<1> QED
  BY <1>1, <1>6 DEF Places

(***************************************************************************)
(* Functions defined by recursion on a number: that there is one.          *)
(***************************************************************************)
Follows(f, init, step, N) == f[0] = init /\ \A j \in 1 .. N : f[j] = step[j][f[j - 1]]

LEMMA ChainExists ==
  ASSUME NEW N \in Nat, NEW S, NEW init \in S, NEW step \in [1 .. N -> [S -> S]]
  PROVE  \E f \in [0 .. N -> S] : Follows(f, init, step, N)
<1> DEFINE Chain(f, m) == f[0] = init /\ \A j \in 1 .. m : f[j] = step[j][f[j - 1]]
           Chains == {m \in Nat : m <= N => \E f \in [0 .. m -> S] : Chain(f, m)}
<1>1. 0 \in Chains
  <2> DEFINE f == [i \in 0 .. 0 |-> init]
  <2>1. f \in [0 .. 0 -> S] /\ Chain(f, 0)
    OBVIOUS
  <2> QED
    BY <2>1
<1>2. ASSUME NEW m \in Chains, m + 1 <= N
      PROVE  \E g \in [0 .. m + 1 -> S] : Chain(g, m + 1)
  <2>1. m \in Nat /\ m <= N
    BY <1>2
  <2>2. PICK f \in [0 .. m -> S] : Chain(f, m)
    BY <2>1
  <2> DEFINE next == step[m + 1][f[m]]
             g == [i \in 0 .. m + 1 |-> IF i = m + 1 THEN next ELSE f[i]]
  <2>3. next \in S
    BY <1>2, <2>1
  <2>4. g \in [0 .. m + 1 -> S]
    <3>1. \A i \in 0 .. m + 1 : i # m + 1 => i \in 0 .. m
      BY <2>1
    <3> HIDE DEF next
    <3> QED
      BY <2>3, <3>1
  <2>5. Chain(g, m + 1)
    <3>1. g[0] = init
      BY <2>1, <2>2
    <3>2. ASSUME NEW i \in 1 .. m + 1
          PROVE  g[i] = step[i][g[i - 1]]
      <4>1. CASE i = m + 1
        <5>1. i - 1 = m /\ m \in 0 .. m + 1 /\ m # m + 1
          BY <2>1, <4>1
        <5>2. g[m] = f[m] /\ g[m + 1] = next
          <6> HIDE DEF next
          <6> QED
            BY <5>1
        <5> QED
          BY <4>1, <5>1, <5>2
      <4>2. CASE i # m + 1
        <5>1. g[i] = f[i] /\ g[i - 1] = f[i - 1] /\ i \in 1 .. m
          BY <2>1, <4>2
        <5> HIDE DEF g
        <5> QED
          BY <2>2, <5>1
      <4> QED
        BY <4>1, <4>2
    <3> QED
      BY <3>1, <3>2
  <2> QED
    BY <2>4, <2>5
<1>3. \A m \in Chains : m + 1 \in Chains
  <2> SUFFICES ASSUME NEW m \in Chains
               PROVE  m + 1 \in Chains
    OBVIOUS
  <2>1. m + 1 \in Nat
    OBVIOUS
  <2>2. m + 1 <= N => \E g \in [0 .. m + 1 -> S] : Chain(g, m + 1)
    <3> HIDE DEF Chains, Chain
    <3> QED
      BY <1>2
  <2> QED
    BY <2>1, <2>2
<1>4. N \in Chains
  <2>1. Chains \in SUBSET Nat
    OBVIOUS
  <2> HIDE DEF Chains
  <2> QED
    BY <1>1, <1>3, <2>1, Ind
<1> QED
  BY <1>4 DEF Follows
=============================================================================
