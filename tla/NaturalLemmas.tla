----------------------------- MODULE NaturalLemmas -----------------------------
(***************************************************************************)
(* Facts about natural numbers the proofs about blocks, chunks and offsets *)
(* share: division by a block size, rounding up, sequences put together,   *)
(* sums, induction, stated for a set so that it can be cited, and that     *)
(* recursive functions exist.                                              *)
(***************************************************************************)
EXTENDS Integers, Sequences, SequencesExt, TLAPS, WellFoundedInduction

(* n is q whole blocks and a rest.                                         *)
LEMMA Division ==
    ASSUME NEW n \in Nat, NEW b \in Nat \ {0}
    PROVE  /\ n \div b \in Nat /\ n % b \in 0..(b - 1)
           /\ (n \div b) * b <= n /\ n < (n \div b) * b + b
           /\ n = (n \div b) * b + (n % b)
  OBVIOUS

(* The quotient and the rest are the only ones.                            *)
LEMMA DivisionUnique ==
    ASSUME NEW n \in Nat, NEW b \in Nat \ {0}, NEW q \in Nat, NEW r \in 0..(b - 1), n = q * b + r
    PROVE  n \div b = q /\ n % b = r
<1>1. q * b <= n /\ n < (q + 1) * b
  <2>1. (q + 1) * b = q * b + b /\ q * b \in Nat
    OBVIOUS
  <2> QED BY <2>1
<1>2. n \div b = q
  BY <1>1
<1>3. n % b = n - b * (n \div b)
  OBVIOUS
<1>4. n % b = n - b * q /\ b * q = q * b /\ q * b \in Nat
  BY <1>2, <1>3
<1> QED BY <1>2, <1>4

LEMMA DivisionOfMultiple ==
    ASSUME NEW q \in Nat, NEW n \in Nat, NEW b \in Nat \ {0}
    PROVE  (q * b + n) \div b = q + n \div b /\ (q * b + n) % b = n % b
<1> DEFINE d == n \div b
           r == n % b
           m == q * b + n
<1>1. d \in Nat /\ r \in 0..(b - 1) /\ n = d * b + r
  BY Division
<1> HIDE DEF d, r
<1>2. (q + d) * b = q * b + d * b /\ q * b \in Nat /\ d * b \in Nat
  BY <1>1
<1>3. m \in Nat /\ m = (q + d) * b + r /\ q + d \in Nat
  BY <1>1, <1>2
<1> HIDE DEF m
<1>4. m \div b = q + d /\ m % b = r
  BY <1>1, <1>3, DivisionUnique
<1> QED BY <1>4 DEF m, d, r

LEMMA DivisionMonotone ==
    ASSUME NEW m \in Nat, NEW n \in Nat, m <= n, NEW b \in Nat \ {0}
    PROVE  m \div b <= n \div b
<1> DEFINE p == m \div b
           q == n \div b
<1>1. p \in Nat /\ q \in Nat /\ p * b <= m /\ n < q * b + b
  BY Division
<1> HIDE DEF p, q
<1>2. (q + 1) * b = q * b + b /\ p * b \in Nat /\ q * b \in Nat
  BY <1>1
<1>3. p * b < (q + 1) * b
  BY <1>1, <1>2
<1>4. p < q + 1
  BY <1>1, <1>3
<1> QED BY <1>1, <1>4 DEF p, q

(* Order goes through a product.                                           *)
LEMMA ProductMonotone ==
    ASSUME NEW m \in Nat, NEW n \in Nat, NEW b \in Nat, m <= n
    PROVE  m * b <= n * b /\ m * b \in Nat /\ n * b \in Nat
  OBVIOUS

LEMMA ProductOrder ==
    ASSUME NEW m \in Int, NEW n \in Int, NEW b \in Nat \ {0}
    PROVE  m * b < n * b => m < n
  OBVIOUS

(* Rounding up: the number of blocks that hold n.                          *)
Units(n, b) == (n + b - 1) \div b

LEMMA RoundedUp ==
    ASSUME NEW n \in Nat, NEW b \in Nat \ {0}
    PROVE  /\ Units(n, b) \in Nat
           /\ n <= Units(n, b) * b /\ Units(n, b) * b < n + b
           /\ n = 0 <=> Units(n, b) = 0
<1> DEFINE m == n + b - 1
           c == m \div b
<1>1. m \in Nat
  OBVIOUS
<1>2. c \in Nat /\ c * b <= m /\ m < c * b + b
  <2> HIDE DEF m
  <2> QED BY <1>1, Division
<1> HIDE DEF c
<1>3. c * b \in Nat
  BY <1>2
<1>4. n <= c * b /\ c * b < n + b
  BY <1>2, <1>3
<1>5. c = 0 => c * b = 0
  OBVIOUS
<1>6. c # 0 => b <= c * b
  BY <1>2
<1>7. n = 0 <=> c = 0
  BY <1>2, <1>3, <1>4, <1>5, <1>6
<1> QED BY <1>2, <1>4, <1>7 DEF c, Units

(* It is the least such number.                                            *)
LEMMA RoundUpLeast ==
    ASSUME NEW n \in Nat, NEW b \in Nat \ {0}, NEW q \in Nat, n <= q * b
    PROVE  Units(n, b) <= q
<1> DEFINE c == Units(n, b)
<1>1. c \in Nat /\ c * b < n + b
  BY RoundedUp
<1> HIDE DEF c
<1>2. c * b \in Nat /\ q * b \in Nat /\ (q + 1) * b = q * b + b
  BY <1>1
<1>3. c * b < (q + 1) * b
  BY <1>1, <1>2
<1>4. c < q + 1
  BY <1>1, <1>3
<1> QED BY <1>1, <1>4 DEF c
-----------------------------------------------------------------------------
(* Every set of natural numbers has a least element.                       *)
LEMMA LeastElement ==
    ASSUME NEW T, T \subseteq Nat, T # {}
    PROVE  \E x \in T : \A y \in T : x <= y
<1> DEFINE R == OpToRel(<, Nat)
<1>1. IsWellFoundedOn(R, Nat)
  BY NatLessThanWellFounded
<1>2. PICK x \in T : \A y \in T : ~(<<y, x>> \in R)
  <2> HIDE DEF R
  <2> QED BY <1>1, WFMin
<1>3. \A y \in T : ~(y < x)
  BY <1>2 DEF OpToRel
<1> QED BY <1>3, SMT

(* Induction up to a bound, and without one.                               *)
LEMMA BoundedInduction ==
    ASSUME NEW n \in Nat, NEW T, 0 \in T, \A k \in 0..n : k \in T /\ k < n => k + 1 \in T
    PROVE  0..n \subseteq T
<1> DEFINE B == (0..n) \ T
<1>1. SUFFICES ASSUME B # {}
               PROVE  FALSE
  OBVIOUS
<1>2. PICK x \in B : \A y \in B : x <= y
  <2>1. B \subseteq Nat
    OBVIOUS
  <2> HIDE DEF B
  <2> QED BY <1>1, <2>1, LeastElement
<1>3. x \in 1..n /\ x - 1 \in 0..n
  OBVIOUS
<1>4. x - 1 \in T
  BY <1>2, <1>3
<1> QED BY <1>3, <1>4

LEMMA SetInduction ==
    ASSUME NEW T, 0 \in T, \A k \in Nat : k \in T => k + 1 \in T
    PROVE  Nat \subseteq T
<1> SUFFICES ASSUME NEW n \in Nat
             PROVE  n \in T
  OBVIOUS
<1>1. 0..n \subseteq T
  BY BoundedInduction
<1> QED BY <1>1

(* The cells of two sequences put together.                                *)
LEMMA Joined ==
    ASSUME NEW S, NEW a \in Seq(S), NEW b \in Seq(S)
    PROVE  /\ a \o b \in Seq(S) /\ Len(a \o b) = Len(a) + Len(b)
           /\ \A i \in 1..(Len(a) + Len(b)) :
                (a \o b)[i] = IF i <= Len(a) THEN a[i] ELSE b[i - Len(a)]
  OBVIOUS

(* A recursive function on D: v gives its values on the leaves, elsewhere  *)
(* g makes them from the value at nx, where the measure m is smaller.      *)
Recursive(D, V, B, m, leaf, v, nx, g) ==
    /\ B \in Nat /\ m \in [D -> 0..B] /\ v \in [D -> V] /\ nx \in [D -> D]
    /\ g \in [D \X V -> V]
    /\ \A x \in D : x \notin leaf => m[nx[x]] < m[x]
Solves(f, D, V, leaf, v, nx, g) ==
    /\ f \in [D -> V]
    /\ \A x \in D : f[x] = IF x \in leaf THEN v[x] ELSE g[<<x, f[nx[x]]>>]

LEMMA Recursion ==
    ASSUME NEW D, NEW V, NEW B, NEW m, NEW leaf, NEW v, NEW nx, NEW g,
           Recursive(D, V, B, m, leaf, v, nx, g)
    PROVE  \E f : Solves(f, D, V, leaf, v, nx, g)
<1>0. /\ B \in Nat /\ m \in [D -> 0..B] /\ v \in [D -> V] /\ nx \in [D -> D]
      /\ g \in [D \X V -> V]
      /\ \A x \in D : x \notin leaf => m[nx[x]] < m[x]
  BY DEF Recursive
<1> USE <1>0
<1> DEFINE Upto(k) == {x \in D : m[x] <= k}
           Is(f, k) == /\ f \in [Upto(k) -> V]
                       /\ \A x \in Upto(k) :
                            f[x] = IF x \in leaf THEN v[x] ELSE g[<<x, f[nx[x]]>>]
           T == {k \in 0..B : \E f : Is(f, k)}
<1>1. 0 \in T
  <2> DEFINE z == [x \in Upto(0) |-> v[x]]
  <2>1. ASSUME NEW x \in Upto(0)
        PROVE  x \in leaf
    <3>1. m[x] = 0 /\ m[nx[x]] \in 0..B
      OBVIOUS
    <3> QED BY <3>1
  <2>2. z \in [Upto(0) -> V] /\ \A x \in Upto(0) : z[x] = v[x]
    OBVIOUS
  <2> HIDE DEF z
  <2>3. Is(z, 0)
    BY <2>1, <2>2
  <2> HIDE DEF Is
  <2>4. \E f : Is(f, 0)
    BY <2>3
  <2> QED BY <2>4
<1>2. ASSUME NEW k \in 0..B, k \in T, k < B
      PROVE  k + 1 \in T
  <2>1. PICK f : Is(f, k)
    BY <1>2
  <2> DEFINE Next(x) == IF x \in leaf THEN v[x] ELSE g[<<x, f[nx[x]]>>]
             h == [x \in Upto(k + 1) |-> IF m[x] <= k THEN f[x] ELSE Next(x)]
  <2>2. ASSUME NEW x \in Upto(k + 1), x \notin leaf
        PROVE  nx[x] \in Upto(k) /\ f[nx[x]] \in V
    <3>1. nx[x] \in D /\ m[nx[x]] < m[x] /\ m[x] <= k + 1 /\ m[nx[x]] \in 0..B /\ m[x] \in 0..B
      BY <2>2
    <3>2. nx[x] \in Upto(k)
      BY <3>1
    <3> QED BY <2>1, <3>2
  <2>3. ASSUME NEW x \in Upto(k + 1)
        PROVE  Next(x) \in V
    <3>1. CASE x \in leaf
      BY <3>1
    <3>2. CASE x \notin leaf
      <4>1. f[nx[x]] \in V /\ x \in D
        BY <2>2, <3>2
      <4>2. <<x, f[nx[x]]>> \in D \X V
        BY <4>1
      <4>3. g[<<x, f[nx[x]]>>] \in V
        BY <4>2
      <4> QED BY <3>2, <4>3
    <3> QED BY <3>1, <3>2
  <2>4. ASSUME NEW x \in Upto(k)
        PROVE  f[x] \in V /\ f[x] = Next(x) /\ x \in Upto(k + 1)
    BY <2>1
  <2>5. \A x \in Upto(k + 1) : h[x] = Next(x) /\ h[x] \in V
    <3> SUFFICES ASSUME NEW x \in Upto(k + 1)
                 PROVE  h[x] = Next(x) /\ h[x] \in V
      OBVIOUS
    <3>1. CASE m[x] <= k
      <4>1. x \in Upto(k) /\ h[x] = f[x]
        BY <3>1
      <4> HIDE DEF h, Next
      <4> QED BY <2>4, <4>1
    <3>2. CASE ~(m[x] <= k)
      <4>1. h[x] = Next(x)
        BY <3>2
      <4> HIDE DEF h, Next
      <4> QED BY <2>3, <4>1
    <3> QED BY <3>1, <3>2
  <2>6. ASSUME NEW x \in Upto(k)
        PROVE  h[x] = f[x]
    <3> HIDE DEF h, Next
    <3> QED BY <2>4, <2>5
  <2>7. h \in [Upto(k + 1) -> V]
    <3>1. \A x \in Upto(k + 1) : (IF m[x] <= k THEN f[x] ELSE Next(x)) \in V
      <4> HIDE DEF Next
      <4>1. \A x \in Upto(k + 1) : m[x] <= k => x \in Upto(k)
        OBVIOUS
      <4> HIDE DEF Upto
      <4> QED BY <2>3, <2>4, <4>1
    <3> HIDE DEF Next, Upto
    <3> QED BY <3>1
  <2>8. ASSUME NEW x \in Upto(k + 1)
        PROVE  h[x] = IF x \in leaf THEN v[x] ELSE g[<<x, h[nx[x]]>>]
    <3>1. CASE x \in leaf
      <4>1. Next(x) = v[x]
        BY <3>1
      <4> HIDE DEF h, Next, Upto
      <4> QED BY <2>5, <3>1, <4>1
    <3>2. CASE x \notin leaf
      <4>1. Next(x) = g[<<x, f[nx[x]]>>]
        BY <3>2
      <4> HIDE DEF h, Next, Upto
      <4>2. nx[x] \in Upto(k)
        BY <2>2, <3>2
      <4>3. h[nx[x]] = f[nx[x]]
        BY <2>6, <4>2
      <4> QED BY <2>5, <3>2, <4>1, <4>3
    <3> QED BY <3>1, <3>2
  <2> HIDE DEF h, Upto
  <2>9. Is(h, k + 1)
    BY <2>7, <2>8
  <2> HIDE DEF Is
  <2>10. \E e : Is(e, k + 1)
    BY <2>9
  <2> QED BY <1>2, <2>10
<1>3. 0..B \subseteq T
  <2> HIDE DEF T
  <2> QED BY <1>1, <1>2, BoundedInduction
<1>4. B \in T
  <2> HIDE DEF T
  <2> QED BY <1>3
<1>5. PICK f : Is(f, B)
  BY <1>4
<1>6. Upto(B) = D
  OBVIOUS
<1> QED BY <1>5, <1>6 DEF Solves

(* Numbers can be added up.                                                *)
LEMMA PartialSums ==
    ASSUME NEW n \in Nat, NEW g, \A k \in 1..n : g[k] \in Nat
    PROVE  \E f \in [0..n -> Nat] : f[0] = 0 /\ \A k \in 1..n : f[k] = f[k - 1] + g[k]
<1> DEFINE D == 0..n
           m == [k \in D |-> k]
           v == [k \in D |-> 0]
           nx == [k \in D |-> IF k = 0 THEN 0 ELSE k - 1]
           s == [p \in D \X Nat |-> IF p[1] = 0 THEN 0 ELSE p[2] + g[p[1]]]
<1>1. Recursive(D, Nat, n, m, {0}, v, nx, s)
  BY DEF Recursive
<1>2. \A k \in 1..n, y \in Nat : k \in D /\ nx[k] = k - 1 /\ s[<<k, y>>] = y + g[k]
  OBVIOUS
<1>3. v[0] = 0 /\ 0 \in D /\ \A k \in 1..n : k - 1 \in D
  OBVIOUS
<1> HIDE DEF m, v, nx, s
<1>4. PICK f : Solves(f, D, Nat, {0}, v, nx, s)
  BY <1>1, Recursion
<1>5. /\ f \in [D -> Nat]
      /\ \A k \in D : f[k] = IF k \in {0} THEN v[k] ELSE s[<<k, f[nx[k]]>>]
  BY <1>4 DEF Solves
<1>6. ASSUME NEW k \in 1..n
      PROVE  f[k] = f[k - 1] + g[k]
  <2>1. f[k - 1] \in Nat /\ k # 0
    BY <1>3, <1>5
  <2> QED BY <1>2, <1>5, <2>1
<1> QED BY <1>3, <1>5, <1>6

(* The powers of two.                                                      *)
LEMMA Doubling ==
    ASSUME NEW n \in Nat
    PROVE  \E f \in [0..n -> Nat] : f[0] = 1 /\ \A k \in 1..n : f[k] = 2 * f[k - 1]
<1> DEFINE D == 0..n
           m == [k \in D |-> k]
           v == [k \in D |-> 1]
           nx == [k \in D |-> IF k = 0 THEN 0 ELSE k - 1]
           s == [p \in D \X Nat |-> 2 * p[2]]
<1>1. Recursive(D, Nat, n, m, {0}, v, nx, s)
  BY DEF Recursive
<1>2. \A k \in 1..n, y \in Nat : k \in D /\ nx[k] = k - 1 /\ s[<<k, y>>] = 2 * y
  OBVIOUS
<1>3. v[0] = 1 /\ 0 \in D /\ \A k \in 1..n : k - 1 \in D
  OBVIOUS
<1> HIDE DEF m, v, nx, s
<1>4. PICK f : Solves(f, D, Nat, {0}, v, nx, s)
  BY <1>1, Recursion
<1>5. /\ f \in [D -> Nat]
      /\ \A k \in D : f[k] = IF k \in {0} THEN v[k] ELSE s[<<k, f[nx[k]]>>]
  BY <1>4 DEF Solves
<1>6. ASSUME NEW k \in 1..n
      PROVE  f[k] = 2 * f[k - 1]
  <2>1. f[k - 1] \in Nat /\ k # 0
    BY <1>3, <1>5
  <2> QED BY <1>2, <1>5, <2>1
<1> QED BY <1>3, <1>5, <1>6

(* A sequence with one cell replaced.                                      *)
LEMMA CellReplaced ==
    ASSUME NEW S, NEW s \in Seq(S), NEW j \in 1..Len(s), NEW x \in S
    PROVE  /\ [s EXCEPT ![j] = x] \in Seq(S) /\ Len([s EXCEPT ![j] = x]) = Len(s)
           /\ \A i \in 1..Len(s) : [s EXCEPT ![j] = x][i] = IF i = j THEN x ELSE s[i]
  OBVIOUS
-----------------------------------------------------------------------------
Concat(s, t) == s \o t

(* A sequence of sequences, put together: where each one's cells go.       *)
Pieces(f, S, k, seqs) ==
    /\ f \in [0..k -> Seq(S)] /\ f[0] = <<>>
    /\ \A i \in 1..k : f[i] = Concat(f[i - 1], seqs[i])

LEMMA FlattenIs ==
    ASSUME NEW S, NEW k \in Nat \ {0}, NEW seqs \in Seq(Seq(S)), Len(seqs) = k
    PROVE  \E f : Pieces(f, S, k, seqs) /\ f[k] = FlattenSeq(seqs)
<1> DEFINE D == 0..k
           m == [i \in D |-> i]
           v == [i \in D |-> <<>>]
           nx == [i \in D |-> IF i = 0 THEN 0 ELSE i - 1]
           s == [p \in D \X Seq(S) |-> IF p[1] = 0 THEN <<>> ELSE p[2] \o seqs[p[1]]]
           Turn(h) == [i \in 1..k |-> IF i = 1 THEN seqs[i] ELSE h[i - 1] \o seqs[i]]
           flat == CHOOSE h : h = Turn(h)
<1>1. Recursive(D, Seq(S), k, m, {0}, v, nx, s)
  <2>1. \A p \in D \X Seq(S) : (IF p[1] = 0 THEN <<>> ELSE p[2] \o seqs[p[1]]) \in Seq(S)
    <3> SUFFICES ASSUME NEW i \in D, NEW y \in Seq(S), i # 0
                 PROVE  y \o seqs[i] \in Seq(S)
      OBVIOUS
    <3>1. seqs[i] \in Seq(S)
      OBVIOUS
    <3> QED BY <3>1
  <2>2. s \in [D \X Seq(S) -> Seq(S)]
    BY <2>1
  <2>3. v \in [D -> Seq(S)]
    OBVIOUS
  <2>4. m \in [D -> 0..k] /\ nx \in [D -> D] /\ \A x \in D : x \notin {0} => m[nx[x]] < m[x]
    OBVIOUS
  <2> HIDE DEF m, v, nx, s, D
  <2> QED BY <2>2, <2>3, <2>4 DEF Recursive
<1>2. \A i \in 1..k, y \in Seq(S) : i \in D /\ nx[i] = i - 1 /\ s[<<i, y>>] = y \o seqs[i]
  <2> SUFFICES ASSUME NEW i \in 1..k, NEW y \in Seq(S)
               PROVE  i \in D /\ nx[i] = i - 1 /\ s[<<i, y>>] = y \o seqs[i]
    OBVIOUS
  <2>1. i \in D /\ i # 0 /\ <<i, y>> \in D \X Seq(S)
    OBVIOUS
  <2>2. s[<<i, y>>] = y \o seqs[i]
    BY <2>1, Zenon
  <2> QED BY <2>1, <2>2
<1>3. v[0] = <<>> /\ 0 \in D /\ \A i \in 1..k : i - 1 \in D
  OBVIOUS
<1> HIDE DEF m, v, nx, s
<1>4. PICK f : Solves(f, D, Seq(S), {0}, v, nx, s)
  BY <1>1, Recursion
<1>5. /\ f \in [D -> Seq(S)]
      /\ \A i \in D : f[i] = IF i \in {0} THEN v[i] ELSE s[<<i, f[nx[i]]>>]
  BY <1>4 DEF Solves
<1>6. f[0] = <<>> /\ \A i \in 1..k : f[i] = f[i - 1] \o seqs[i]
  <2>1. f[0] = <<>>
    BY <1>3, <1>5
  <2>2. ASSUME NEW i \in 1..k
        PROVE  f[i] = f[i - 1] \o seqs[i]
    <3>1. f[i - 1] \in Seq(S) /\ i # 0
      BY <1>3, <1>5
    <3> QED BY <1>2, <1>5, <3>1
  <2> QED BY <2>1, <2>2
<1>7. Pieces(f, S, k, seqs)
  BY <1>5, <1>6 DEF Pieces, Concat
<1> DEFINE e == [i \in 1..k |-> f[i]]
<1>8. e = Turn(e)
  <2>1. ASSUME NEW i \in 1..k
        PROVE  e[i] = IF i = 1 THEN seqs[i] ELSE e[i - 1] \o seqs[i]
    <3>1. CASE i = 1
      <4>0. 1 \in 1..k /\ 1 - 1 = 0
        OBVIOUS
      <4>1. f[1] = <<>> \o seqs[1] /\ seqs[1] \in Seq(S)
        <5>1. f[1] = f[1 - 1] \o seqs[1]
          BY <1>6, <4>0
        <5> QED BY <1>6, <4>0, <5>1
      <4>2. f[1] = seqs[1]
        BY <4>1
      <4> QED BY <3>1, <4>2
    <3>2. CASE i # 1
      <4>1. i - 1 \in 1..k /\ e[i - 1] = f[i - 1] /\ e[i] = f[i]
        BY <3>2
      <4> QED BY <1>6, <3>2, <4>1
    <3> QED BY <3>1, <3>2
  <2> QED BY <2>1
<1>9. flat = Turn(flat)
  <2> HIDE DEF Turn, e
  <2> QED BY <1>8
<1>10. FlattenSeq(seqs) = flat[k]
  BY DEF FlattenSeq
<1> HIDE DEF flat
<1>11. \A i \in 1..k : flat[i] = IF i = 1 THEN seqs[i] ELSE flat[i - 1] \o seqs[i]
  BY <1>9
<1>12. \A i \in 1..k : e[i] = IF i = 1 THEN seqs[i] ELSE e[i - 1] \o seqs[i]
  <2> HIDE DEF e
  <2> QED BY <1>8
<1> DEFINE T == {i \in 0..k : i = 0 \/ flat[i] = e[i]}
<1>13. 0..k \subseteq T
  <2>1. 0 \in T
    OBVIOUS
  <2> HIDE DEF e
  <2>2. ASSUME NEW i \in 0..k, i \in T, i < k
        PROVE  i + 1 \in T
    <3>1. i + 1 \in 1..k /\ (i + 1) - 1 = i
      BY <2>2
    <3>2. CASE i = 0
      <4>1. flat[1] = seqs[1] /\ e[1] = seqs[1]
        BY <1>11, <1>12, <3>1, <3>2
      <4> QED BY <3>1, <3>2, <4>1
    <3>3. CASE i # 0
      <4>1. i + 1 # 1 /\ flat[i] = e[i]
        BY <2>2, <3>3
      <4> QED BY <1>11, <1>12, <3>1, <4>1
    <3> QED BY <3>2, <3>3
  <2> HIDE DEF T
  <2> QED BY <2>1, <2>2, BoundedInduction
<1>14. flat[k] = f[k]
  <2>1. k \in T
    <3> HIDE DEF T
    <3> QED BY <1>13
  <2> QED BY <2>1
<1> QED BY <1>7, <1>10, <1>14

(* The first k sequences end at p[0], p[1], ..., p[k].                     *)
EndsAt(p, k, S, seqs) ==
    /\ k \in Nat \ {0} /\ seqs \in Seq(Seq(S)) /\ Len(seqs) = k
    /\ p[0] = 0 /\ \A i \in 0..k : p[i] \in Nat
    /\ \A i \in 1..k : p[i] = p[i - 1] + Len(seqs[i])
Joins(s, p, k, S, seqs) ==
    /\ s \in Seq(S) /\ Len(s) = p[k]
    /\ \A i \in 1..k : \A j \in 1..Len(seqs[i]) :
         p[i - 1] + j \in 1..p[k] /\ s[p[i - 1] + j] = seqs[i][j]

LEMMA FlattenCells ==
    ASSUME NEW S, NEW k, NEW seqs, NEW p, EndsAt(p, k, S, seqs)
    PROVE  Joins(FlattenSeq(seqs), p, k, S, seqs)
<1>0. /\ k \in Nat \ {0} /\ seqs \in Seq(Seq(S)) /\ Len(seqs) = k
      /\ p[0] = 0 /\ \A i \in 0..k : p[i] \in Nat
      /\ \A i \in 1..k : p[i] = p[i - 1] + Len(seqs[i])
  BY DEF EndsAt
<1> USE <1>0
<1>1. PICK f : Pieces(f, S, k, seqs) /\ f[k] = FlattenSeq(seqs)
  BY FlattenIs
<1> DEFINE Good(n) ==
             /\ Len(f[n]) = p[n]
             /\ \A i \in 1..n : \A j \in 1..Len(seqs[i]) :
                  p[i - 1] + j \in 1..p[n] /\ f[n][p[i - 1] + j] = seqs[i][j]
           T == {n \in 0..k : Good(n)}
<1>2. f[0] = <<>> /\ \A n \in 0..k : f[n] \in Seq(S)
  BY <1>1 DEF Pieces
<1>3. 0 \in T
  <2>1. Len(f[0]) = 0
    BY <1>2
  <2> QED BY <2>1
<1>4. ASSUME NEW n \in 0..k, n \in T, n < k
      PROVE  n + 1 \in T
  <2> DEFINE a == f[n]
             b == seqs[n + 1]
             c == f[n + 1]
  <2>1. n + 1 \in 1..k /\ n + 1 \in 0..k /\ (n + 1) - 1 = n /\ n \in Nat
    BY <1>4
  <2>2. a \in Seq(S) /\ b \in Seq(S) /\ c = a \o b
    <3>1. b \in Seq(S)
      BY <2>1
    <3> QED BY <1>1, <1>2, <2>1, <3>1 DEF Pieces, Concat
  <2>3. Good(n)
    BY <1>4
  <2> HIDE DEF a, b, c
  <2>4. Len(c) = Len(a) + Len(b)
        /\ \A x \in 1..(Len(a) + Len(b)) : c[x] = IF x <= Len(a) THEN a[x] ELSE b[x - Len(a)]
    BY <2>2, Joined
  <2>5. Len(a) = p[n] /\ p[n + 1] = p[n] + Len(b) /\ p[n] \in Nat /\ p[n + 1] \in Nat /\ Len(b) \in Nat
    <3>1. p[n + 1] = p[(n + 1) - 1] + Len(seqs[n + 1])
      BY <2>1
    <3>2. p[n] \in Nat /\ p[n + 1] \in Nat
      BY <2>1
    <3>3. Len(a) = p[n]
      BY <2>3 DEF a
    <3> QED BY <2>1, <2>2, <3>1, <3>2, <3>3 DEF b
  <2>6. ASSUME NEW i \in 1..(n + 1), NEW j \in 1..Len(seqs[i])
        PROVE  p[i - 1] + j \in 1..p[n + 1] /\ c[p[i - 1] + j] = seqs[i][j]
    <3>1. CASE i \in 1..n
      <4>1. p[i - 1] + j \in 1..p[n] /\ a[p[i - 1] + j] = seqs[i][j]
        BY <2>3, <3>1 DEF a
      <4> DEFINE x == p[i - 1] + j
      <4>2. x \in 1..p[n] /\ a[x] = seqs[i][j]
        BY <4>1
      <4> HIDE DEF x
      <4>3. x \in 1..p[n + 1] /\ c[x] = seqs[i][j]
        BY <2>4, <2>5, <4>2
      <4> QED BY <4>3 DEF x
    <3>2. CASE i = n + 1
      <4>1. j \in 1..Len(b) /\ seqs[i] = b /\ i - 1 = n
        BY <2>1, <3>2 DEF b
      <4>2. p[n] + j \in 1..p[n + 1] /\ c[p[n] + j] = b[j]
        <5> DEFINE x == p[n] + j
                   u == p[n]
                   v == p[n + 1]
        <5>0. Len(a) = u /\ v = u + Len(b) /\ u \in Nat /\ Len(b) \in Nat /\ x = u + j
          BY <2>5
        <5> HIDE DEF u, v, x
        <5>1. x \in 1..v /\ x \in 1..(Len(a) + Len(b)) /\ ~(x <= Len(a)) /\ x - Len(a) = j
          BY <4>1, <5>0
        <5> USE DEF u, v, x
        <5> HIDE DEF x
        <5>2. c[x] = b[j]
          BY <2>4, <5>1
        <5> QED BY <5>1, <5>2 DEF x
      <4> QED BY <4>1, <4>2
    <3> QED BY <2>1, <3>1, <3>2
  <2>7. Good(n + 1)
    <3>1. Len(f[n + 1]) = p[n + 1]
      BY <2>4, <2>5 DEF c
    <3> QED BY <2>6, <3>1 DEF c
  <2> HIDE DEF Good
  <2> QED BY <2>1, <2>7
<1>5. 0..k \subseteq T
  <2> HIDE DEF T
  <2> QED BY <1>3, <1>4, BoundedInduction
<1>6. k \in T
  BY <1>5
<1>7. Good(k)
  BY <1>6
<1> QED BY <1>1, <1>2, <1>7 DEF Joins
=============================================================================
