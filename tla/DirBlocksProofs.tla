---------------------------- MODULE DirBlocksProofs ----------------------------
(***************************************************************************)
(* Proofs about directories, for any block size and any directories the    *)
(* assumption allows.  DirBlocks first: what a block holds and what is     *)
(* read back from it (ReadBack), then the blocks written so far (Laid),    *)
(* then the handle's place and what was given out before it (Reading); the *)
(* properties follow from that invariant.  Path resolution (Resolve) comes *)
(* after it.                                                               *)
(*                                                                         *)
(* The recursive functions are unfolded by NaturalLemmas' Recursion.  What *)
(* they compute is shown by induction over sets of numbers.  An operator   *)
(* such as Concat or Cut only gives a term a name.                         *)
(***************************************************************************)
EXTENDS DirBlocks, Resolve, NaturalLemmas

(* What Init takes and nothing changes.                                    *)
Names ==
    /\ names \in Seq([len : Nat \ {0}, dot : BOOLEAN])
    /\ \E i, j \in DOMAIN names :
         /\ \A k \in DOMAIN names : names[k].dot <=> k \in {i, j}
         /\ names[i].len = 1 /\ names[j].len = 2
    /\ \A k \in DOMAIN names : DirentSize + names[k].len <= BlockSize

LEMMA NamesFacts ==
    ASSUME Names
    PROVE  /\ N \in Nat /\ DOMAIN names = 1..N
           /\ \A k \in 1..N : names[k].len \in Nat /\ names[k].len > 0
<1> DEFINE Entry == [len : Nat \ {0}, dot : BOOLEAN]
<1>1. names \in Seq(Entry)
  BY DEF Names
<1>2. N \in Nat /\ DOMAIN names = 1..N
  <2> HIDE DEF Entry
  <2> QED BY <1>1 DEF N
<1>3. ASSUME NEW k \in 1..N
      PROVE  names[k] \in Entry
  <2> HIDE DEF Entry
  <2> QED BY <1>1 DEF N
<1>4. ASSUME NEW k \in 1..N
      PROVE  names[k].len \in Nat /\ names[k].len > 0
  BY <1>3
<1> QED BY <1>2, <1>4

-----------------------------------------------------------------------------
(* The bytes of the names.                                                 *)
LEMMA TextFacts ==
    ASSUME Names
    PROVE  /\ TextTo[0] = 0 /\ \A k \in 0..N : TextTo[k] \in Nat
           /\ \A k \in 1..N : TextTo[k] = TextTo[k - 1] + names[k].len
<1> DEFINE Turn(h) == [k \in 0..N |-> IF k = 0 THEN 0 ELSE h[k - 1] + names[k].len]
           sum == CHOOSE h : h = Turn(h)
           g == [k \in 1..N |-> names[k].len]
<1>1. N \in Nat /\ \A k \in 1..N : g[k] \in Nat /\ g[k] = names[k].len
  BY NamesFacts
<1> HIDE DEF g
<1>2. PICK f \in [0..N -> Nat] : f[0] = 0 /\ \A k \in 1..N : f[k] = f[k - 1] + g[k]
  BY <1>1, PartialSums
<1>3. f = Turn(f)
  <2>1. ASSUME NEW k \in 0..N
        PROVE  f[k] = IF k = 0 THEN 0 ELSE f[k - 1] + names[k].len
    <3>1. k # 0 => k \in 1..N
      BY <1>1
    <3> QED BY <1>1, <1>2, <3>1
  <2> QED BY <1>2, <2>1
<1>4. sum = Turn(sum)
  <2> HIDE DEF Turn
  <2> QED BY <1>3
<1>5. TextTo = sum
  BY DEF TextTo
<1> HIDE DEF sum
<1>6. \A k \in 0..N : sum[k] = IF k = 0 THEN 0 ELSE sum[k - 1] + names[k].len
  BY <1>4
<1>7. \A k \in 1..N : sum[k] = sum[k - 1] + names[k].len
  BY <1>1, <1>6
<1>8. sum[0] = 0
  BY <1>1, <1>6
<1> DEFINE T == {k \in 0..N : sum[k] \in Nat}
<1>9. 0..N \subseteq T
  <2>1. 0 \in T
    BY <1>1, <1>8
  <2>2. ASSUME NEW k \in 0..N, k \in T, k < N
        PROVE  k + 1 \in T
    <3>1. k + 1 \in 1..N /\ (k + 1) - 1 = k /\ sum[k] \in Nat
      BY <1>1, <2>2
    <3>2. sum[k + 1] = sum[k] + names[k + 1].len /\ names[k + 1].len \in Nat
      BY <1>1, <1>7, <3>1
    <3> QED BY <1>1, <3>1, <3>2
  <2> HIDE DEF T
  <2> QED BY <1>1, <2>1, <2>2, BoundedInduction
<1> QED BY <1>5, <1>7, <1>8, <1>9

LEMMA TextGrows ==
    ASSUME Names, NEW i \in 0..N, NEW j \in 0..N, i <= j
    PROVE  TextTo[i] <= TextTo[j]
<1> DEFINE T == {k \in 0..N : k < i \/ TextTo[i] <= TextTo[k]}
<1>0. N \in Nat
  BY NamesFacts
<1>1. 0 \in T
  BY <1>0, TextFacts
<1>2. ASSUME NEW k \in 0..N, k \in T, k < N
      PROVE  k + 1 \in T
  <2>1. k + 1 \in 1..N /\ (k + 1) - 1 = k
    BY <1>0, <1>2
  <2>2. TextTo[k + 1] = TextTo[k] + names[k + 1].len /\ names[k + 1].len \in Nat /\ TextTo[k] \in Nat
    BY <2>1, TextFacts, NamesFacts
  <2>3. CASE k + 1 < i
    BY <2>1, <2>3
  <2>4. CASE k + 1 = i
    BY <2>1, <2>4, TextFacts
  <2>5. CASE i <= k
    <3>1. TextTo[i] <= TextTo[k] /\ TextTo[i] \in Nat
      BY <1>2, <2>5, TextFacts
    <3> QED BY <2>1, <2>2, <3>1
  <2> QED BY <2>1, <2>3, <2>4, <2>5
<1>3. 0..N \subseteq T
  <2> HIDE DEF T
  <2> QED BY <1>0, <1>1, <1>2, BoundedInduction
<1>4. j \in T
  BY <1>3
<1> QED BY <1>4

-----------------------------------------------------------------------------
(* Names for two operators, so that a fact about them can be cited.        *)
With(s, x) == Append(s, x)

LEMMA WithConcat ==
    ASSUME NEW S, NEW a \in Seq(S), NEW b \in Seq(S), NEW x \in S
    PROVE  With(Concat(a, b), x) = Concat(a, With(b, x))
<1> DEFINE l == a \o b
           t == Append(b, x)
           r == a \o t
<1>2. l \in Seq(S) /\ Len(l) = Len(a) + Len(b)
      /\ \A i \in 1..(Len(a) + Len(b)) : l[i] = IF i <= Len(a) THEN a[i] ELSE b[i - Len(a)]
  BY Joined
<1>3. t \in Seq(S) /\ Len(t) = Len(b) + 1
      /\ \A i \in 1..(Len(b) + 1) : t[i] = IF i <= Len(b) THEN b[i] ELSE x
  OBVIOUS
<1> HIDE DEF t
<1>4. r \in Seq(S) /\ Len(r) = Len(a) + Len(t)
      /\ \A i \in 1..(Len(a) + Len(t)) : r[i] = IF i <= Len(a) THEN a[i] ELSE t[i - Len(a)]
  BY <1>3, Joined
<1> HIDE DEF l, r
<1> DEFINE w == Append(l, x)
<1>5. w \in Seq(S) /\ Len(w) = Len(l) + 1
      /\ \A i \in 1..(Len(l) + 1) : w[i] = IF i <= Len(l) THEN l[i] ELSE x
  BY <1>2
<1> HIDE DEF w
<1>6. Len(a) \in Nat /\ Len(b) \in Nat /\ Len(w) = Len(r) /\ Len(r) = Len(a) + Len(b) + 1
  BY <1>2, <1>3, <1>4, <1>5
<1>7. ASSUME NEW i \in 1..Len(r)
      PROVE  w[i] = r[i]
  <2>1. CASE i <= Len(a)
    BY <1>2, <1>4, <1>5, <1>6, <1>3, <2>1
  <2>2. CASE i > Len(a) /\ i <= Len(a) + Len(b)
    <3>1. i - Len(a) \in 1..(Len(b) + 1) /\ i - Len(a) <= Len(b)
      BY <1>6, <2>2
    <3> QED BY <1>2, <1>3, <1>4, <1>5, <1>6, <2>2, <3>1
  <2>3. CASE i = Len(a) + Len(b) + 1
    <3>1. i - Len(a) = Len(b) + 1
      BY <1>6, <2>3
    <3> QED BY <1>2, <1>3, <1>4, <1>5, <1>6, <2>3, <3>1
  <2> QED BY <1>6, <2>1, <2>2, <2>3
<1>8. w = r
  BY <1>4, <1>5, <1>6, <1>7
<1> QED BY <1>8 DEF w, r, l, t, Concat, With

(* The numbers of a set in order.                                          *)
Collects(f, S, n) ==
    /\ f \in [0..n -> Seq(Nat)] /\ f[0] = <<>>
    /\ \A k \in 1..n : f[k] = IF k \in S THEN Append(f[k - 1], k) ELSE f[k - 1]

LEMMA AscendingIs ==
    ASSUME NEW S, NEW n \in Nat
    PROVE  \E f : Collects(f, S, n) /\ f[n] = Ascending(S, n)
<1> DEFINE D == 0..n
           m == [k \in D |-> k]
           v == [k \in D |-> <<>>]
           nx == [k \in D |-> IF k = 0 THEN 0 ELSE k - 1]
           s == [p \in D \X Seq(Nat) |-> IF p[1] \in S THEN Append(p[2], p[1]) ELSE p[2]]
           Turn(h) == [k \in 0..n |-> IF k = 0 THEN <<>>
                         ELSE IF k \in S THEN Append(h[k - 1], k) ELSE h[k - 1]]
           upTo == CHOOSE h : h = Turn(h)
<1>1. Recursive(D, Seq(Nat), n, m, {0}, v, nx, s)
  <2>1. \A p \in D \X Seq(Nat) : (IF p[1] \in S THEN Append(p[2], p[1]) ELSE p[2]) \in Seq(Nat)
    OBVIOUS
  <2>2. s \in [D \X Seq(Nat) -> Seq(Nat)]
    BY <2>1
  <2>3. v \in [D -> Seq(Nat)]
    OBVIOUS
  <2>4. m \in [D -> 0..n] /\ nx \in [D -> D] /\ \A x \in D : x \notin {0} => m[nx[x]] < m[x]
    OBVIOUS
  <2> HIDE DEF m, v, nx, s, D
  <2> QED BY <2>2, <2>3, <2>4 DEF Recursive
<1>2. \A k \in 1..n, y \in Seq(Nat) : k \in D /\ nx[k] = k - 1
         /\ s[<<k, y>>] = IF k \in S THEN Append(y, k) ELSE y
  OBVIOUS
<1>3. v[0] = <<>> /\ 0 \in D /\ \A k \in 1..n : k - 1 \in D
  OBVIOUS
<1> HIDE DEF m, v, nx, s
<1>4. PICK f : Solves(f, D, Seq(Nat), {0}, v, nx, s)
  BY <1>1, Recursion
<1>5. /\ f \in [D -> Seq(Nat)]
      /\ \A k \in D : f[k] = IF k \in {0} THEN v[k] ELSE s[<<k, f[nx[k]]>>]
  BY <1>4 DEF Solves
<1>6. ASSUME NEW k \in 0..n
      PROVE  f[k] = IF k = 0 THEN <<>> ELSE IF k \in S THEN Append(f[k - 1], k) ELSE f[k - 1]
  <2>1. CASE k = 0
    BY <1>3, <1>5, <2>1
  <2>2. CASE k # 0
    <3>1. k \in 1..n /\ k - 1 \in D
      BY <1>3, <2>2
    <3>2. f[k - 1] \in Seq(Nat)
      <4> HIDE DEF D
      <4> QED BY <1>5, <3>1
    <3> QED BY <1>2, <1>5, <2>2, <3>1, <3>2
  <2> QED BY <2>1, <2>2
<1>7. f = Turn(f)
  BY <1>5, <1>6
<1>8. upTo = Turn(upTo)
  <2> HIDE DEF Turn
  <2> QED BY <1>7
<1>9. Ascending(S, n) = upTo[n]
  BY DEF Ascending
<1> HIDE DEF upTo
<1>10. \A k \in 0..n : upTo[k] = IF k = 0 THEN <<>>
                         ELSE IF k \in S THEN Append(upTo[k - 1], k) ELSE upTo[k - 1]
  BY <1>8
<1>11. ASSUME NEW k \in 1..n
       PROVE  /\ upTo[k] = IF k \in S THEN Append(upTo[k - 1], k) ELSE upTo[k - 1]
              /\ f[k] = IF k \in S THEN Append(f[k - 1], k) ELSE f[k - 1]
  <2>1. k \in 0..n /\ k # 0
    OBVIOUS
  <2> QED BY <1>6, <1>10, <2>1
<1> DEFINE T == {k \in 0..n : upTo[k] = f[k]}
<1>12. 0..n \subseteq T
  <2>1. 0 \in T
    BY <1>6, <1>10
  <2>2. ASSUME NEW k \in 0..n, k \in T, k < n
        PROVE  k + 1 \in T
    <3>1. k + 1 \in 1..n /\ (k + 1) - 1 = k /\ upTo[k] = f[k]
      BY <2>2
    <3> QED BY <1>11, <3>1
  <2> HIDE DEF T
  <2> QED BY <2>1, <2>2, BoundedInduction
<1>13. n \in T
  BY <1>12
<1>14. f[n] = Ascending(S, n)
  BY <1>9, <1>13
<1>15. Collects(f, S, n)
  BY <1>5, <1>6, <1>11 DEF Collects
<1> QED BY <1>14, <1>15

LEMMA AscendingStep ==
    ASSUME NEW S
    PROVE  /\ Ascending(S, 0) = <<>>
           /\ \A n \in Nat : Ascending(S, n) \in Seq(Nat)
           /\ \A n \in Nat : Ascending(S, n + 1) =
                IF n + 1 \in S THEN Append(Ascending(S, n), n + 1) ELSE Ascending(S, n)
<1>1. Ascending(S, 0) = <<>>
  <2>1. \E f : Collects(f, S, 0) /\ f[0] = Ascending(S, 0)
    BY AscendingIs
  <2> QED BY <2>1 DEF Collects
<1>2. ASSUME NEW n \in Nat
      PROVE  Ascending(S, n) \in Seq(Nat)
  <2>1. \E f : Collects(f, S, n) /\ f[n] = Ascending(S, n)
    BY AscendingIs
  <2> QED BY <2>1 DEF Collects
<1>3. ASSUME NEW n \in Nat
      PROVE  Ascending(S, n + 1) =
                IF n + 1 \in S THEN Append(Ascending(S, n), n + 1) ELSE Ascending(S, n)
  <2>1. PICK f : Collects(f, S, n) /\ f[n] = Ascending(S, n)
    BY AscendingIs
  <2>2. n + 1 \in Nat
    OBVIOUS
  <2>3. PICK h : Collects(h, S, n + 1) /\ h[n + 1] = Ascending(S, n + 1)
    BY <2>2, AscendingIs
  <2> DEFINE T == {k \in 0..n : f[k] = h[k]}
  <2>4. 0..n \subseteq T
    <3>1. 0 \in T
      BY <2>1, <2>3 DEF Collects
    <3>2. ASSUME NEW k \in 0..n, k \in T, k < n
          PROVE  k + 1 \in T
      <4>1. k + 1 \in 1..n /\ k + 1 \in 1..(n + 1) /\ (k + 1) - 1 = k /\ f[k] = h[k]
        BY <3>2
      <4>2. f[k + 1] = IF k + 1 \in S THEN Append(f[k], k + 1) ELSE f[k]
        BY <2>1, <4>1 DEF Collects
      <4>3. h[k + 1] = IF k + 1 \in S THEN Append(h[k], k + 1) ELSE h[k]
        BY <2>3, <4>1 DEF Collects
      <4> QED BY <4>1, <4>2, <4>3
    <3> HIDE DEF T
    <3> QED BY <3>1, <3>2, BoundedInduction
  <2>5. n \in T /\ n + 1 \in 1..(n + 1) /\ (n + 1) - 1 = n
    BY <2>4
  <2> QED BY <2>1, <2>3, <2>5 DEF Collects
<1> QED BY <1>1, <1>2, <1>3

(* What it lists, in what order, and how a longer list begins.             *)
LEMMA AscendingLists ==
    ASSUME NEW S, NEW n \in Nat
    PROVE  LET s == Ascending(S, n) IN
           /\ s \in Seq(Nat)
           /\ \A i \in 1..Len(s) : s[i] \in S /\ s[i] \in 1..n
           /\ \A i, j \in 1..Len(s) : i < j => s[i] < s[j]
           /\ \A r \in 1..Len(s) : SubSeq(s, 1, r) = Ascending(S, s[r])
<1> DEFINE A(k) == Ascending(S, k)
           Good(k) ==
             /\ \A i \in 1..Len(A(k)) : A(k)[i] \in S /\ A(k)[i] \in 1..k
             /\ \A i, j \in 1..Len(A(k)) : i < j => A(k)[i] < A(k)[j]
             /\ \A r \in 1..Len(A(k)) : SubSeq(A(k), 1, r) = A(A(k)[r])
           T == {k \in 0..n : Good(k)}
<1>1. A(0) = <<>> /\ \A k \in Nat : A(k) \in Seq(Nat) /\
         A(k + 1) = IF k + 1 \in S THEN Append(A(k), k + 1) ELSE A(k)
  BY AscendingStep
<1> HIDE DEF A
<1>2. 0 \in T
  <2>1. A(0) = <<>> /\ 0 \in 0..n
    BY <1>1
  <2> QED BY <2>1
<1>3. ASSUME NEW k \in 0..n, k \in T, k < n
      PROVE  k + 1 \in T
  <2>1. Good(k) /\ k \in Nat /\ A(k) \in Seq(Nat) /\ Len(A(k)) \in Nat
    <3>1. k \in Nat /\ Good(k)
      BY <1>3
    <3>2. A(k) \in Seq(Nat)
      BY <1>1, <3>1
    <3> HIDE DEF Good
    <3> QED BY <3>1, <3>2
  <2>2. CASE k + 1 \notin S
    <3>1. A(k + 1) = A(k)
      BY <1>1, <2>1, <2>2
    <3>2. \A i \in 1..Len(A(k + 1)) : A(k + 1)[i] \in S /\ A(k + 1)[i] \in 1..(k + 1)
      BY <2>1, <3>1
    <3> QED BY <1>3, <2>1, <3>1, <3>2
  <2>3. CASE k + 1 \in S
    <3> DEFINE l == Len(A(k))
               s == A(k + 1)
    <3>1. s = Append(A(k), k + 1)
      BY <1>1, <2>1, <2>3
    <3>2. Len(s) = l + 1 /\ s[l + 1] = k + 1 /\ l \in Nat /\ \A i \in 1..l : s[i] = A(k)[i]
      BY <2>1, <3>1
    <3>3. \A i \in 1..l : A(k)[i] \in S /\ A(k)[i] \in 1..k
      BY <2>1
    <3>4. ASSUME NEW i \in 1..(l + 1)
          PROVE  s[i] \in S /\ s[i] \in 1..(k + 1)
      <4>1. CASE i \in 1..l
        BY <2>1, <3>2, <3>3, <4>1
      <4>2. CASE i = l + 1
        BY <2>1, <2>3, <3>2, <4>2
      <4> QED BY <3>2, <4>1, <4>2
    <3>5. ASSUME NEW i \in 1..(l + 1), NEW j \in 1..(l + 1), i < j
          PROVE  s[i] < s[j]
      <4>1. i \in 1..l
        BY <3>2, <3>5
      <4>2. CASE j \in 1..l
        BY <2>1, <3>2, <3>5, <4>1, <4>2
      <4>3. CASE j = l + 1
        <5>1. s[i] \in 1..k
          BY <3>2, <3>3, <4>1
        <5> QED BY <2>1, <3>2, <4>3, <5>1
      <4> QED BY <3>2, <4>2, <4>3
    <3>6. ASSUME NEW r \in 1..(l + 1)
          PROVE  SubSeq(s, 1, r) = A(s[r])
      <4>0. s \in Seq(Nat)
        BY <2>1, <3>1
      <4>1. CASE r = l + 1
        <5>1. SubSeq(s, 1, l + 1) = s
          <6> HIDE DEF s, l
          <6> QED BY <3>2, <4>0
        <5> QED BY <3>2, <4>1, <5>1
      <4>2. CASE r \in 1..l
        <5>1. SubSeq(s, 1, r) = SubSeq(A(k), 1, r)
          <6> DEFINE a == A(k)
          <6>1. a \in Seq(Nat) /\ l = Len(a) /\ s = Append(a, k + 1) /\ k \in Nat
            BY <2>1, <3>1
          <6> HIDE DEF a, s, l
          <6>2. SubSeq(s, 1, r) = SubSeq(a, 1, r)
            BY <4>2, <6>1
          <6> QED BY <6>2 DEF a
        <5> QED BY <2>1, <3>2, <4>2, <5>1
      <4> QED BY <3>2, <4>1, <4>2
    <3>7. Good(k + 1)
      <4> HIDE DEF s, l
      <4>1. /\ \A i \in 1..Len(s) : s[i] \in S /\ s[i] \in 1..(k + 1)
            /\ \A i, j \in 1..Len(s) : i < j => s[i] < s[j]
            /\ \A r \in 1..Len(s) : SubSeq(s, 1, r) = A(s[r])
        BY <3>2, <3>4, <3>5, <3>6
      <4> QED BY <4>1 DEF s
    <3> HIDE DEF Good
    <3> QED BY <1>3, <3>7
  <2> QED BY <2>2, <2>3
<1>4. 0..n \subseteq T
  <2> HIDE DEF T
  <2> QED BY <1>2, <1>3, BoundedInduction
<1>5. n \in T
  BY <1>4
<1> QED BY <1>1, <1>5 DEF A

(* A set is listed up to q + m by listing it up to q + c and then the rest. *)
Moved(q, s) == [i \in DOMAIN s |-> q + s[i]]
Shifts(S, U, q, c, m) == \A k \in 1..m : k \in U <=> k > c /\ q + k \in S

LEMMA AscendingShifted ==
    ASSUME NEW S, NEW U, NEW q \in Nat, NEW c \in Nat, NEW m \in Nat, c <= m, Shifts(S, U, q, c, m)
    PROVE  Ascending(S, q + m) = Concat(Ascending(S, q + c), Moved(q, Ascending(U, m)))
<1> DEFINE A(k) == Ascending(S, k)
           Shift(s) == Moved(q, s)
           T == {k \in 0..m : IF k <= c THEN Ascending(U, k) = <<>>
                               ELSE A(q + k) = Concat(A(q + c), Shift(Ascending(U, k)))}
<1>0. \A k \in 1..m : k \in U <=> k > c /\ q + k \in S
  BY DEF Shifts
<1> USE <1>0
<1>1. \A k \in Nat : A(k) \in Seq(Nat) /\
         A(k + 1) = IF k + 1 \in S THEN With(A(k), k + 1) ELSE A(k)
  BY AscendingStep DEF With
<1>2. Ascending(U, 0) = <<>> /\ \A k \in Nat : Ascending(U, k) \in Seq(Nat) /\
         Ascending(U, k + 1) = IF k + 1 \in U THEN With(Ascending(U, k), k + 1) ELSE Ascending(U, k)
  BY AscendingStep DEF With
<1>3. 0 \in T
  BY <1>2
<1> HIDE DEF A
<1>4. \A s \in Seq(Nat) : Shift(s) \in Seq(Nat) /\
         \A x \in Nat : Shift(With(s, x)) = With(Shift(s), q + x)
  <2> SUFFICES ASSUME NEW s \in Seq(Nat)
               PROVE  Shift(s) \in Seq(Nat) /\
                      \A x \in Nat : Shift(With(s, x)) = With(Shift(s), q + x)
    OBVIOUS
  <2>0. Shift(s) = [i \in 1..Len(s) |-> q + s[i]]
    BY DEF Moved
  <2>1. Shift(s) \in Seq(Nat) /\ Len(Shift(s)) = Len(s)
    BY <2>0
  <2>2. ASSUME NEW x \in Nat
        PROVE  Shift(With(s, x)) = With(Shift(s), q + x)
    <3>1. Append(s, x) \in Seq(Nat) /\ Len(Append(s, x)) = Len(s) + 1
      OBVIOUS
    <3>2. \A i \in 1..(Len(s) + 1) : Append(s, x)[i] = IF i <= Len(s) THEN s[i] ELSE x
      OBVIOUS
    <3>3. Shift(Append(s, x)) = [i \in 1..(Len(s) + 1) |-> q + Append(s, x)[i]]
      BY <3>1 DEF Moved
    <3>4. Append(Shift(s), q + x) = [i \in 1..(Len(s) + 1) |-> IF i <= Len(s) THEN Shift(s)[i] ELSE q + x]
      BY <2>1
    <3>5. \A i \in 1..(Len(s) + 1) : q + Append(s, x)[i] = IF i <= Len(s) THEN Shift(s)[i] ELSE q + x
      BY <2>0, <3>2
    <3> QED BY <3>3, <3>4, <3>5 DEF With
  <2> QED BY <2>1, <2>2
<1>5. Shift(<<>>) = <<>>
  BY DEF Moved
<1>6. \A a \in Seq(Nat) : Concat(a, <<>>) = a
  BY DEF Concat
<1> HIDE DEF Shift
<1>7. ASSUME NEW k \in 0..m, k \in T, k < m
      PROVE  k + 1 \in T
  <2>0. k \in Nat /\ k + 1 \in 1..m /\ q + k \in Nat /\ (q + k) + 1 = q + (k + 1) /\ q + c \in Nat
    BY <1>7
  <2>1. CASE k + 1 <= c
    <3>1. Ascending(U, k) = <<>> /\ k + 1 \notin U
      BY <1>7, <2>0, <2>1
    <3> QED BY <1>2, <1>7, <2>0, <2>1, <3>1
  <2>2. CASE k + 1 > c
    <3> DEFINE u == Ascending(U, k)
    <3>0. u \in Seq(Nat) /\ Shift(u) \in Seq(Nat) /\ A(q + c) \in Seq(Nat)
      BY <1>1, <1>2, <1>4, <2>0
    <3>1. A(q + k) = Concat(A(q + c), Shift(u))
      <4>1. CASE k = c
        <5>1. u = <<>>
          BY <1>7, <4>1
        <5> QED BY <1>5, <1>6, <3>0, <4>1, <5>1
      <4>2. CASE k > c
        BY <1>7, <4>2
      <4> QED BY <2>2, <4>1, <4>2
    <3>2. k + 1 \in U <=> (q + k) + 1 \in S
      BY <2>0, <2>2
    <3>3. CASE k + 1 \in U
      <4>1. Ascending(U, k + 1) = With(u, k + 1) /\ A(q + (k + 1)) = With(A(q + k), q + (k + 1))
        BY <1>1, <1>2, <2>0, <3>2, <3>3
      <4>2. Shift(With(u, k + 1)) = With(Shift(u), q + (k + 1))
        BY <1>4, <2>0, <3>0
      <4>3. A(q + (k + 1)) = Concat(A(q + c), With(Shift(u), q + (k + 1)))
        <5> DEFINE y == q + (k + 1)
        <5>1. y \in Nat /\ A(q + (k + 1)) = With(A(q + k), y)
          BY <2>0, <4>1
        <5> HIDE DEF y
        <5>2. With(Concat(A(q + c), Shift(u)), y) = Concat(A(q + c), With(Shift(u), y))
          BY <3>0, <5>1, WithConcat
        <5> QED BY <3>1, <5>1, <5>2 DEF y
      <4>4. A(q + (k + 1)) = Concat(A(q + c), Shift(Ascending(U, k + 1)))
        BY <4>1, <4>2, <4>3
      <4>5. ~(k + 1 <= c) /\ k + 1 \in 0..m
        BY <2>0, <2>2
      <4> QED BY <4>4, <4>5
    <3>4. CASE k + 1 \notin U
      <4>1. Ascending(U, k + 1) = u /\ A(q + (k + 1)) = A(q + k)
        BY <1>1, <1>2, <2>0, <3>2, <3>4
      <4> QED BY <1>7, <2>0, <2>2, <3>1, <4>1
    <3> QED BY <3>3, <3>4
  <2> QED BY <2>0, <2>1, <2>2
<1>8. 0..m \subseteq T
  <2> HIDE DEF T
  <2> QED BY <1>3, <1>7, BoundedInduction
<1>9. m \in T
  BY <1>8
<1>10. CASE m <= c
  <2>1. m = c /\ Ascending(U, m) = <<>>
    BY <1>9, <1>10
  <2>2. A(q + m) = Concat(A(q + c), Shift(Ascending(U, m)))
    <3>1. q + m \in Nat /\ A(q + m) \in Seq(Nat) /\ q + m = q + c
      BY <1>1, <2>1
    <3> QED BY <1>5, <1>6, <2>1, <3>1
  <2> QED BY <2>2 DEF A, Shift
<1>11. CASE m > c
  <2>1. A(q + m) = Concat(A(q + c), Shift(Ascending(U, m)))
    <3>1. ~(m <= c)
      BY <1>11
    <3> QED BY <1>9, <3>1
  <2> QED BY <2>1 DEF A, Shift
<1>12. m <= c \/ m > c
  OBVIOUS
<1> QED BY <1>10, <1>11, <1>12

-----------------------------------------------------------------------------
(* What a block takes, and how many entries fit in it.                     *)
LEMMA Sizes ==
    /\ BlockSize \in Nat \ {0} /\ DirentSize \in Nat \ {0}
    /\ 2 * DirentSize + 1 + 2 <= BlockSize
  BY DirAssumption

LEMMA UsedFacts ==
    ASSUME Names, NEW from \in 1..N
    PROVE  /\ \A to \in from..N : Used(from, to) \in Nat /\ Used(from, to) > 0
           /\ Used(from, from) = DirentSize + names[from].len
           /\ Used(from, from) <= BlockSize
           /\ \A to \in from..N : to < N =>
                Used(from, to + 1) = Used(from, to) + DirentSize + names[to + 1].len
<1>0. N \in Nat /\ DirentSize \in Nat /\ DirentSize > 0
  BY NamesFacts, Sizes
<1>1. ASSUME NEW to \in from..N
      PROVE  Used(from, to) \in Nat /\ Used(from, to) > 0
  <2>1. from - 1 \in 0..N /\ to \in 0..N /\ from - 1 <= to
    BY <1>0
  <2>2. TextTo[from - 1] \in Nat /\ TextTo[to] \in Nat /\ TextTo[from - 1] <= TextTo[to]
    BY <2>1, TextFacts, TextGrows
  <2> DEFINE c == to - from + 1
             u == c * DirentSize
  <2>3. c \in Nat /\ c > 0
    BY <1>0
  <2> HIDE DEF c
  <2>4. u \in Nat /\ u > 0
    BY <1>0, <2>3
  <2> HIDE DEF u
  <2>5. u + (TextTo[to] - TextTo[from - 1]) \in Nat /\ u + (TextTo[to] - TextTo[from - 1]) > 0
    BY <2>2, <2>4
  <2> QED BY <2>5 DEF Used, u, c
<1>2. Used(from, from) = DirentSize + names[from].len
  <2>1. TextTo[from] = TextTo[from - 1] + names[from].len /\ TextTo[from - 1] \in Nat
        /\ names[from].len \in Nat
    <3>1. from - 1 \in 0..N
      BY <1>0
    <3> QED BY <3>1, TextFacts, NamesFacts
  <2>2. (from - from + 1) * DirentSize = DirentSize
    BY <1>0
  <2> QED BY <1>0, <2>1, <2>2 DEF Used
<1>3. Used(from, from) <= BlockSize
  BY <1>2, NamesFacts DEF Names
<1>4. ASSUME NEW to \in from..N, to < N
      PROVE  Used(from, to + 1) = Used(from, to) + DirentSize + names[to + 1].len
  <2> DEFINE c == to - from + 1
  <2>1. to + 1 \in 1..N /\ (to + 1) - 1 = to /\ c \in Nat /\ (to + 1) - from + 1 = c + 1
    BY <1>0, <1>4
  <2>2. TextTo[to + 1] = TextTo[to] + names[to + 1].len /\ names[to + 1].len \in Nat
        /\ TextTo[to] \in Nat /\ TextTo[from - 1] \in Nat
    <3>1. from - 1 \in 0..N /\ to \in 0..N
      BY <1>0
    <3> QED BY <2>1, <3>1, TextFacts, NamesFacts
  <2> HIDE DEF c
  <2>3. (c + 1) * DirentSize = c * DirentSize + DirentSize /\ c * DirentSize \in Nat
    BY <1>0, <2>1
  <2>4. Used(from, to + 1) = (c + 1) * DirentSize + (TextTo[to + 1] - TextTo[from - 1])
    BY <2>1 DEF Used
  <2>5. Used(from, to) = c * DirentSize + (TextTo[to] - TextTo[from - 1])
    BY DEF Used, c
  <2> QED BY <1>0, <2>2, <2>3, <2>4, <2>5
<1> QED BY <1>1, <1>2, <1>3, <1>4

(* A bounded set of numbers has a greatest element.                        *)
LEMMA GreatestElement ==
    ASSUME NEW n \in Nat, NEW S, S \subseteq 0..n, S # {}
    PROVE  Max(S) \in S /\ \A x \in S : x <= Max(S)
<1> DEFINE R == {n - x : x \in S}
<1>1. R \subseteq Nat /\ R # {}
  <2>1. \A x \in S : n - x \in Nat
    OBVIOUS
  <2>2. PICK x \in S : TRUE
    OBVIOUS
  <2>3. n - x \in R
    OBVIOUS
  <2> QED BY <2>1, <2>3
<1>2. PICK r \in R : \A y \in R : r <= y
  <2> HIDE DEF R
  <2> QED BY <1>1, LeastElement
<1>3. PICK x \in S : r = n - x
  BY <1>2
<1>4. \A y \in S : x >= y
  <2> SUFFICES ASSUME NEW y \in S
               PROVE  x >= y
    OBVIOUS
  <2>1. n - y \in R
    OBVIOUS
  <2>a. x \in Nat /\ y \in Nat
    OBVIOUS
  <2>2. n - x <= n - y
    <3> HIDE DEF R
    <3> QED BY <1>2, <1>3, <2>1
  <2> QED BY <2>a, <2>2
<1>5. Max(S) \in S /\ \A y \in S : Max(S) >= y
  BY <1>4 DEF Max
<1>6. \A y \in S : y \in Int
  OBVIOUS
<1> QED BY <1>5, <1>6

LEMMA LastFittingFacts ==
    ASSUME Names, NEW from \in 1..N
    PROVE  /\ LastFitting(from) \in from..N
           /\ Used(from, LastFitting(from)) <= BlockSize
           /\ \A to \in from..N : Used(from, to) <= BlockSize => to <= LastFitting(from)
<1> DEFINE S == {from} \cup {to \in from..N : Used(from, to) <= BlockSize}
<1>1. N \in Nat
  BY NamesFacts
<1>2. from \in from..N /\ Used(from, from) <= BlockSize
  BY <1>1, UsedFacts
<1>3. \A to \in S : to \in from..N /\ Used(from, to) <= BlockSize
  BY <1>2
<1>4. S \subseteq 0..N /\ S # {}
  BY <1>1
<1>5. \A to \in from..N : Used(from, to) <= BlockSize => to \in S
  OBVIOUS
<1>6. LastFitting(from) = Max(S)
  BY DEF LastFitting
<1> HIDE DEF S
<1>7. Max(S) \in S /\ \A x \in S : x <= Max(S)
  BY <1>1, <1>4, GreatestElement
<1> QED BY <1>3, <1>5, <1>6, <1>7

(* A block that is not the last is padded to a whole one.                  *)
LEMMA Padded ==
    ASSUME NEW u \in Nat, u > 0, u <= BlockSize
    PROVE  RoundUp(u) = BlockSize
<1>0. BlockSize \in Nat \ {0}
  BY Sizes
<1> DEFINE d == (u + BlockSize - 1) \div BlockSize
<1>1. u - 1 \in 0..(BlockSize - 1) /\ u + BlockSize - 1 = 1 * BlockSize + (u - 1)
      /\ u + BlockSize - 1 \in Nat
  BY <1>0
<1>2. d = 1
  <2> DEFINE n == u + BlockSize - 1
             r == u - 1
  <2>1. n \in Nat /\ r \in 0..(BlockSize - 1) /\ n = 1 * BlockSize + r
    BY <1>1
  <2> HIDE DEF n, r
  <2>2. n \div BlockSize = 1
    BY <1>0, <2>1, DivisionUnique
  <2> QED BY <2>2 DEF n
<1>3. RoundUp(u) = d * BlockSize
  BY DEF RoundUp
<1> QED BY <1>0, <1>2, <1>3

(* Where the text of entry k begins in a block that starts with from.      *)
Before(from, k) == TextTo[from + k - 2] - TextTo[from - 1]
Pad(from, to) == IF to < N THEN BlockSize - Used(from, to) ELSE 0
Byte == Nat \X Nat

LEMMA BeforeFacts ==
    ASSUME Names, NEW from \in 1..N, NEW to \in from..N
    PROVE  /\ Before(from, 1) = 0
           /\ \A k \in 1..(to - from + 2) : Before(from, k) \in Nat
           /\ \A k \in 1..(to - from + 1) :
                /\ from + k - 1 \in 1..N
                /\ Before(from, k + 1) = Before(from, k) + names[from + k - 1].len
           /\ Used(from, to) = (to - from + 1) * DirentSize + Before(from, to - from + 2)
<1>0. N \in Nat
  BY NamesFacts
<1>1. Before(from, 1) = 0
  <2>1. from + 1 - 2 = from - 1 /\ from - 1 \in 0..N
    BY <1>0
  <2>2. TextTo[from - 1] \in Nat
    BY <2>1, TextFacts
  <2> QED BY <2>1, <2>2 DEF Before
<1>2. ASSUME NEW k \in 1..(to - from + 2)
      PROVE  Before(from, k) \in Nat
  <2>1. from + k - 2 \in 0..N /\ from - 1 \in 0..N /\ from - 1 <= from + k - 2
    BY <1>0
  <2>2. TextTo[from - 1] <= TextTo[from + k - 2] /\ TextTo[from - 1] \in Nat /\ TextTo[from + k - 2] \in Nat
    BY <2>1, TextGrows, TextFacts
  <2> QED BY <2>2 DEF Before
<1>3. ASSUME NEW k \in 1..(to - from + 1)
      PROVE  /\ from + k - 1 \in 1..N
             /\ Before(from, k + 1) = Before(from, k) + names[from + k - 1].len
  <2>1. from + k - 1 \in 1..N /\ (from + k - 1) - 1 = from + k - 2 /\ from + (k + 1) - 2 = from + k - 1
        /\ from + k - 2 \in 0..N /\ from - 1 \in 0..N
    BY <1>0
  <2>2. TextTo[from + k - 1] = TextTo[from + k - 2] + names[from + k - 1].len
    BY <2>1, TextFacts
  <2>3. TextTo[from - 1] \in Nat /\ TextTo[from + k - 2] \in Nat /\ names[from + k - 1].len \in Nat
    BY <2>1, TextFacts, NamesFacts
  <2> QED BY <2>1, <2>2, <2>3 DEF Before
<1>4. from + (to - from + 2) - 2 = to
  BY <1>0
<1>5. Used(from, to) = (to - from + 1) * DirentSize + Before(from, to - from + 2)
  BY <1>4 DEF Used, Before
<1> QED BY <1>1, <1>2, <1>3, <1>5

(* What writeDirents writes into a block of entries that fit.              *)
LEMMA BlockFacts ==
    ASSUME Names, NEW from \in 1..N, NEW to \in from..N, Used(from, to) <= BlockSize
    PROVE  LET b == BlockOf(from, to)
               c == to - from + 1
           IN  /\ b.head = [k \in 1..c |-> [nid |-> from + k - 1,
                                            off |-> c * DirentSize + Before(from, k)]]
               /\ b.data \in Seq(Byte)
               /\ Len(b.data) = Before(from, c + 1) + Pad(from, to)
               /\ \A k \in 1..c : \A j \in 1..names[from + k - 1].len :
                    /\ Before(from, k) + j \in 1..Before(from, c + 1)
                    /\ b.data[Before(from, k) + j] = <<from + k - 1, j>>
               /\ \A x \in (Before(from, c + 1) + 1)..Len(b.data) : b.data[x] = Nul
<1> DEFINE c == to - from + 1
           start == c * DirentSize
           seqs == [k \in 1..c |-> NameBytes(from + k - 1)]
           text == FlattenSeq(seqs)
           p == [k \in 0..c |-> Before(from, k + 1)]
           pad == IF to < N THEN RoundUp(start + Len(text)) - (start + Len(text)) ELSE 0
           nuls == [k \in 1..pad |-> Nul]
           b == BlockOf(from, to)
<1>0. N \in Nat /\ c \in Nat /\ c > 0 /\ DirentSize \in Nat
  BY NamesFacts, Sizes
<1>1. /\ Before(from, 1) = 0
      /\ \A k \in 1..(c + 1) : Before(from, k) \in Nat
      /\ \A k \in 1..c : /\ from + k - 1 \in 1..N
                         /\ Before(from, k + 1) = Before(from, k) + names[from + k - 1].len
      /\ Used(from, to) = start + Before(from, c + 1)
  <2>1. c + 1 = to - from + 2
    BY <1>0
  <2> QED BY <2>1, BeforeFacts
<1>2. b = [head |-> [k \in 1..c |-> [nid |-> from + k - 1,
                        off |-> start + (TextTo[(from + k - 1) - 1] - TextTo[from - 1])]],
           data |-> text \o nuls]
  BY DEF BlockOf
<1>3. b.head = [k \in 1..c |-> [nid |-> from + k - 1, off |-> start + Before(from, k)]]
  <2>1. \A k \in 1..c : (from + k - 1) - 1 = from + k - 2
    BY <1>0
  <2> QED BY <1>2, <2>1 DEF Before
<1>4. b.data = text \o nuls
  <2> HIDE DEF text, nuls, b, start, c
  <2> QED BY <1>2
<1>5. seqs \in Seq(Seq(Byte)) /\ Len(seqs) = c
      /\ \A k \in 1..c : seqs[k] = NameBytes(from + k - 1) /\ Len(seqs[k]) = names[from + k - 1].len
  <2>1. ASSUME NEW k \in 1..c
        PROVE  NameBytes(from + k - 1) \in Seq(Byte)
               /\ Len(NameBytes(from + k - 1)) = names[from + k - 1].len
    <3> DEFINE q == from + k - 1
    <3>1. q \in 1..N /\ names[q].len \in Nat
      BY <1>1, NamesFacts
    <3>2. q \in Nat
      BY <1>0, <3>1
    <3> HIDE DEF q
    <3> QED BY <3>1, <3>2 DEF NameBytes, Byte, q
  <2> DEFINE W == Seq(Byte)
  <2>2. \A k \in 1..c : seqs[k] = NameBytes(from + k - 1)
    OBVIOUS
  <2>3. \A k \in 1..c : NameBytes(from + k - 1) \in W
    BY <2>1
  <2> HIDE DEF c, W
  <2>4. seqs \in Seq(W) /\ Len(seqs) = c
    BY <1>0, <2>3
  <2> QED BY <2>1, <2>2, <2>4 DEF W
<1>6. p[0] = 0 /\ \A k \in 0..c : p[k] \in Nat
  BY <1>0, <1>1
<1>7. \A k \in 1..c : p[k] = p[k - 1] + Len(seqs[k]) /\ p[k - 1] = Before(from, k)
  <2> SUFFICES ASSUME NEW k \in 1..c
               PROVE  p[k] = p[k - 1] + Len(seqs[k]) /\ p[k - 1] = Before(from, k)
    OBVIOUS
  <2>1. k \in 0..c /\ k - 1 \in 0..c /\ (k - 1) + 1 = k
    BY <1>0
  <2>2. p[k] = Before(from, k + 1) /\ p[k - 1] = Before(from, k)
    BY <2>1
  <2> HIDE DEF p, seqs, c
  <2> QED BY <1>1, <1>5, <2>2
<1>8. p[c] = Before(from, c + 1)
  BY <1>0
<1> HIDE DEF seqs, p, c
<1>9. /\ text \in Seq(Byte) /\ Len(text) = p[c]
      /\ \A i \in 1..c : \A j \in 1..Len(seqs[i]) :
           p[i - 1] + j \in 1..p[c] /\ text[p[i - 1] + j] = seqs[i][j]
  <2>1. c \in Nat \ {0} /\ seqs \in Seq(Seq(Byte)) /\ Len(seqs) = c /\ p[0] = 0
    BY <1>0, <1>5, <1>6
  <2>2. \A i \in 0..c : p[i] \in Nat
    BY <1>6
  <2>3. \A i \in 1..c : p[i] = p[i - 1] + Len(seqs[i])
    BY <1>7
  <2>4. EndsAt(p, c, Byte, seqs)
    BY <2>1, <2>2, <2>3 DEF EndsAt
  <2>5. Joins(text, p, c, Byte, seqs)
    BY <2>4, FlattenCells
  <2> QED BY <2>5 DEF Joins
<1>10. start \in Nat /\ Before(from, c + 1) \in Nat
  BY <1>0, <1>1
<1> HIDE DEF start
<1>11. pad = Pad(from, to) /\ pad \in Nat
  <2>1. start + Len(text) = Used(from, to)
    BY <1>1, <1>8, <1>9
  <2>2. Used(from, to) \in Nat /\ Used(from, to) > 0
    BY UsedFacts
  <2>3. RoundUp(Used(from, to)) = BlockSize
    BY <2>2, Padded
  <2> QED BY <2>1, <2>2, <2>3, Sizes DEF Pad
<1> HIDE DEF text, pad
<1>12. nuls \in Seq(Byte) /\ Len(nuls) = pad /\ \A x \in 1..pad : nuls[x] = Nul
  BY <1>11 DEF Nul, Byte
<1> HIDE DEF nuls
<1>13. /\ b.data \in Seq(Byte) /\ Len(b.data) = Len(text) + Len(nuls)
       /\ \A x \in 1..(Len(text) + Len(nuls)) :
            b.data[x] = IF x <= Len(text) THEN text[x] ELSE nuls[x - Len(text)]
  <2> DEFINE t == text \o nuls
  <2>1. /\ t \in Seq(Byte) /\ Len(t) = Len(text) + Len(nuls)
        /\ \A x \in 1..(Len(text) + Len(nuls)) :
             t[x] = IF x <= Len(text) THEN text[x] ELSE nuls[x - Len(text)]
    BY <1>9, <1>12, Joined
  <2>2. b.data = t
    BY <1>4
  <2> HIDE DEF t, b
  <2> QED BY <2>1, <2>2
<1>14. ASSUME NEW k \in 1..c, NEW j \in 1..names[from + k - 1].len
       PROVE  /\ Before(from, k) + j \in 1..Before(from, c + 1)
              /\ b.data[Before(from, k) + j] = <<from + k - 1, j>>
  <2> DEFINE x == Before(from, k) + j
  <2>1. j \in 1..Len(seqs[k]) /\ seqs[k] = NameBytes(from + k - 1) /\ p[k - 1] = Before(from, k)
    BY <1>5, <1>7
  <2>2. x \in 1..p[c] /\ text[x] = seqs[k][j]
    BY <1>9, <2>1
  <2>3. seqs[k][j] = <<from + k - 1, j>>
    BY <2>1 DEF NameBytes
  <2> HIDE DEF x
  <2>4. b.data[x] = text[x]
    <3>1. x \in 1..(Len(text) + Len(nuls)) /\ x <= Len(text)
      <4>1. x \in 1..Len(text) /\ Len(text) \in Nat /\ Len(nuls) \in Nat
        BY <1>8, <1>9, <1>10, <1>11, <1>12, <2>2
      <4> QED BY <4>1
    <3> HIDE DEF b
    <3> QED BY <1>13, <3>1
  <2> QED BY <1>8, <2>2, <2>3, <2>4 DEF x
<1>15. ASSUME NEW x \in (Before(from, c + 1) + 1)..Len(b.data)
       PROVE  b.data[x] = Nul
  <2>1. x \in 1..(Len(text) + Len(nuls)) /\ ~(x <= Len(text)) /\ x - Len(text) \in 1..pad
    BY <1>8, <1>9, <1>10, <1>11, <1>12, <1>13
  <2> QED BY <1>12, <1>13, <2>1
<1>16. Len(b.data) = Before(from, c + 1) + Pad(from, to)
  BY <1>8, <1>9, <1>11, <1>12, <1>13
<1> QED BY <1>3, <1>13, <1>14, <1>15, <1>16 DEF c, start

(* A name's bytes are no other name's.                                     *)
LEMMA NameRank ==
    ASSUME Names, NEW k \in 1..N
    PROVE  RankOf(NameBytes(k)) = k
<1>1. ASSUME NEW j \in 1..N, NameBytes(j) = NameBytes(k)
      PROVE  j = k
  <2>1. 1 \in 1..names[j].len /\ 1 \in 1..names[k].len
    BY NamesFacts
  <2>2. NameBytes(j)[1] = <<j, 1>> /\ NameBytes(k)[1] = <<k, 1>>
    BY <2>1 DEF NameBytes
  <2> QED BY <1>1, <2>2
<1> DEFINE r == CHOOSE j \in 1..N : NameBytes(j) = NameBytes(k)
<1>2. r \in 1..N /\ NameBytes(r) = NameBytes(k)
  OBVIOUS
<1>3. RankOf(NameBytes(k)) = r
  BY DEF RankOf
<1> HIDE DEF r
<1> QED BY <1>1, <1>2, <1>3

(* A text followed by NULs only is what comes before the first NUL.        *)
LEMMA CutAtNul ==
    ASSUME NEW t \in Seq(Byte), NEW l \in 0..Len(t),
           \A j \in 1..l : t[j] # Nul, \A j \in (l + 1)..Len(t) : t[j] = Nul
    PROVE  BeforeNul(t) = [j \in 1..l |-> t[j]]
<1> DEFINE S == {j \in DOMAIN t : t[j] = Nul}
           word == [j \in 1..l |-> t[j]]
<1>0. Len(t) \in Nat /\ DOMAIN t = 1..Len(t) /\ l \in Nat /\ l <= Len(t)
  OBVIOUS
<1>1. ASSUME l = Len(t)
      PROVE  BeforeNul(t) = word
  <2>1. ~\E j \in DOMAIN t : t[j] = Nul
    BY <1>0, <1>1
  <2>2. BeforeNul(t) = t
    BY <2>1 DEF BeforeNul
  <2>3. t = word
    BY <1>0, <1>1
  <2> HIDE DEF word
  <2> QED BY <2>2, <2>3
<1>2. ASSUME l < Len(t)
      PROVE  BeforeNul(t) = word
  <2>1. l + 1 \in S /\ \A j \in S : l + 1 <= j
    BY <1>0, <1>2
  <2>2. BeforeNul(t) = SubSeq(t, 1, Min(S) - 1)
    <3>1. \E j \in DOMAIN t : t[j] = Nul
      BY <2>1
    <3> QED BY <3>1 DEF BeforeNul
  <2>3. S \subseteq Nat
    BY <1>0
  <2> HIDE DEF S
  <2>4. Min(S) = l + 1
    <3>1. Min(S) \in S /\ \A j \in S : Min(S) <= j
      BY <2>1 DEF Min
    <3>2. Min(S) \in Nat /\ l + 1 <= Min(S) /\ Min(S) <= l + 1
      BY <2>1, <2>3, <3>1
    <3> QED BY <1>0, <3>2
  <2>5. BeforeNul(t) = SubSeq(t, 1, l)
    BY <1>0, <2>2, <2>4
  <2>6. SubSeq(t, 1, l) = word
    BY <1>0, <1>2
  <2> HIDE DEF word
  <2> QED BY <2>5, <2>6
<1>3. l = Len(t) \/ l < Len(t)
  <2> DEFINE n == Len(t)
  <2>1. n \in Nat /\ l \in Nat /\ l <= n
    BY <1>0
  <2> HIDE DEF n
  <2>2. l = n \/ l < n
    BY <2>1
  <2> QED BY <2>2 DEF n
<1> HIDE DEF word
<1>4. BeforeNul(t) = word
  BY <1>1, <1>2, <1>3
<1> QED BY <1>4 DEF word

Cut(s, x, y) == SubSeq(s, x, y)

LEMMA SliceIs ==
    ASSUME NEW b, NEW x, NEW y
    PROVE  Slice(b, x, y) = Cut(b.data, x - (Len(b.head) * DirentSize) + 1, y - (Len(b.head) * DirentSize))
  BY DEF Slice, Cut

LEMMA ReadBack ==
    ASSUME Names, NEW from \in 1..N, NEW to \in from..N, Used(from, to) <= BlockSize
    PROVE  LET b == BlockOf(from, to)
               c == to - from + 1
           IN  /\ Bytes(b) = IF to < N THEN BlockSize ELSE Used(from, to)
               /\ EntryN(b) = c
               /\ \A k \in 1..c : /\ b.head[k].nid = from + k - 1
                                  /\ RankOf(NameAt(b, k)) = from + k - 1
<1> DEFINE c == to - from + 1
           b == BlockOf(from, to)
           start == c * DirentSize
           where(k) == Before(from, k)
           d == b.data
<1>0. N \in Nat /\ c \in Nat /\ c > 0 /\ DirentSize \in Nat \ {0} /\ BlockSize \in Nat \ {0}
  BY NamesFacts, Sizes
<1>1. /\ where(1) = 0
      /\ \A k \in 1..(c + 1) : where(k) \in Nat
      /\ \A k \in 1..c : from + k - 1 \in 1..N /\ where(k + 1) = where(k) + names[from + k - 1].len
      /\ Used(from, to) = start + where(c + 1)
  <2>1. c + 1 = to - from + 2
    BY <1>0
  <2> QED BY <2>1, BeforeFacts
<1>2. b.head = [k \in 1..c |-> [nid |-> from + k - 1, off |-> start + where(k)]]
  BY BlockFacts
<1>3. /\ d \in Seq(Byte) /\ Len(d) = where(c + 1) + Pad(from, to)
      /\ \A k \in 1..c : \A j \in 1..names[from + k - 1].len :
           where(k) + j \in 1..where(c + 1) /\ d[where(k) + j] = <<from + k - 1, j>>
      /\ \A x \in (where(c + 1) + 1)..Len(d) : d[x] = Nul
  BY BlockFacts
<1>4. start \in Nat
  BY <1>0
<1> HIDE DEF b, d
<1>5. Len(b.head) = c /\ \A k \in 1..c : b.head[k].nid = from + k - 1 /\ b.head[k].off = start + where(k)
  <2> HIDE DEF c, where, start
  <2> QED BY <1>0, <1>2
<1> HIDE DEF where
<1>6. Used(from, to) \in Nat /\ Pad(from, to) \in Nat
      /\ (to < N => Pad(from, to) = BlockSize - Used(from, to)) /\ (~(to < N) => Pad(from, to) = 0)
  <2>1. Used(from, to) \in Nat
    BY UsedFacts
  <2> QED BY <1>0, <2>1 DEF Pad
<1>7. Bytes(b) = IF to < N THEN BlockSize ELSE Used(from, to)
  <2>1. Bytes(b) = start + Len(d)
    BY <1>5 DEF Bytes, d
  <2>2. where(c + 1) \in Nat
    BY <1>0, <1>1
  <2>3. Used(from, to) = start + where(c + 1) /\ Len(d) = where(c + 1) + Pad(from, to)
    BY <1>1, <1>3
  <2> DEFINE a == where(c + 1)
             u == Used(from, to)
             z == Pad(from, to)
  <2>4. Bytes(b) = start + (a + z) /\ u = start + a /\ a \in Nat
    BY <2>1, <2>2, <2>3
  <2>5. u \in Nat /\ z \in Nat /\ (to < N => z = BlockSize - u) /\ (~(to < N) => z = 0)
    BY <1>6
  <2> HIDE DEF start, c, a, u, z
  <2>6. Bytes(b) = IF to < N THEN BlockSize ELSE u
    BY <1>0, <1>4, <2>4, <2>5
  <2> QED BY <2>6 DEF u
<1>8. EntryN(b) = c
  <2>1. b.head[1].off = start
    BY <1>0, <1>1, <1>4, <1>5
  <2>2. start = c * DirentSize + 0 /\ 0 \in 0..(DirentSize - 1)
    BY <1>0, <1>4
  <2> HIDE DEF c
  <2>3. start \div DirentSize = c
    <3> HIDE DEF start
    <3> QED BY <1>0, <1>4, <2>2, DivisionUnique
  <2> QED BY <2>1, <2>3 DEF EntryN
<1>9. ASSUME NEW k \in 1..c
      PROVE  NameAt(b, k) = NameBytes(from + k - 1)
  <2> DEFINE q == from + k - 1
             l == names[q].len
  <2>1. q \in 1..N /\ l \in Nat /\ l > 0 /\ where(k + 1) = where(k) + l /\ where(k) \in Nat /\ q \in Nat /\ q > 0
    <3>1. q \in 1..N /\ where(k + 1) = where(k) + l
      BY <1>1
    <3>2. k \in 1..(c + 1)
      BY <1>0
    <3> HIDE DEF q
    <3> QED BY <1>0, <1>1, <3>1, <3>2, NamesFacts
  <2>2. NameBytes(q) = [j \in 1..l |-> <<q, j>>]
    BY DEF NameBytes
  <2>3. \A j \in 1..l : where(k) + j \in 1..where(c + 1) /\ d[where(k) + j] = <<q, j>>
    BY <1>3
  <2> HIDE DEF q, l
  <2>4. CASE k < c
    <3>1. k + 1 \in 1..c /\ b.head[k].off = start + where(k) /\ b.head[k + 1].off = start + where(k + 1)
      BY <1>0, <1>5, <2>4
    <3>2. NameAt(b, k) = Slice(b, start + where(k), start + where(k + 1))
      BY <1>8, <2>4, <3>1 DEF NameAt
    <3>4. NameAt(b, k) = SubSeq(d, where(k) + 1, where(k) + l)
      <4>1. Slice(b, start + where(k), start + where(k + 1)) =
              SubSeq(d, (start + where(k)) - start + 1, (start + where(k + 1)) - start)
        <5>1. Len(b.head) * DirentSize = start
          BY <1>5
        <5> HIDE DEF start
        <5>2. Slice(b, start + where(k), start + where(k + 1)) = Cut(b.data, (start + where(k)) - start + 1, (start + where(k + 1)) - start)
          BY <5>1, SliceIs
        <5> QED BY <5>2 DEF Cut, d
      <4> HIDE DEF start
      <4>2. (start + where(k)) - start + 1 = where(k) + 1 /\ (start + where(k + 1)) - start = where(k) + l
        BY <1>4, <2>1
      <4> QED BY <3>2, <4>1, <4>2
    <3>5. SubSeq(d, where(k) + 1, where(k) + l) = [j \in 1..l |-> d[where(k) + j]]
      <4> DEFINE a == where(k)
      <4>1. a \in Nat /\ l \in Nat /\ l > 0 /\ d \in Seq(Byte)
        BY <1>3, <2>1
      <4>2. a + l <= Len(d)
        <5>1. l \in 1..l
          BY <2>1
        <5>2. a + l \in 1..where(c + 1)
          BY <2>3, <5>1
        <5>3. where(c + 1) \in Nat /\ Pad(from, to) \in Nat
          BY <1>0, <1>1, <1>6
        <5> QED BY <1>3, <5>2, <5>3
      <4> HIDE DEF a, start, c
      <4>3. SubSeq(d, a + 1, a + l) = [j \in 1..l |-> d[a + j]]
        BY <4>1, <4>2
      <4> QED BY <4>3 DEF a
    <3> QED BY <2>2, <2>3, <3>4, <3>5 DEF q
  <2>5. CASE k = c
    <3> DEFINE u == Pad(from, to)
               t == SubSeq(d, where(k) + 1, where(k) + l + u)
    <3>0. u \in Nat /\ Len(d) = where(k) + l + u /\ where(c + 1) = where(k) + l
      BY <1>3, <1>6, <2>1, <2>5
    <3>1. b.head[k].off = start + where(k) /\ Bytes(b) = start + (where(k) + l + u)
      <4>1. Bytes(b) = start + Len(d)
        BY <1>5 DEF Bytes, d
      <4> QED BY <1>5, <3>0, <4>1
    <3>2. NameAt(b, k) = BeforeNul(Slice(b, start + where(k), start + (where(k) + l + u)))
      BY <1>8, <2>5, <3>1 DEF NameAt
    <3>4. NameAt(b, k) = BeforeNul(t)
      <4> DEFINE w == where(k) + l + u
      <4>1. Slice(b, start + where(k), start + w) = SubSeq(d, (start + where(k)) - start + 1, (start + w) - start)
        <5>1. Len(b.head) * DirentSize = start
          BY <1>5
        <5> HIDE DEF start
        <5>2. Slice(b, start + where(k), start + w) = Cut(b.data, (start + where(k)) - start + 1, (start + w) - start)
          BY <5>1, SliceIs
        <5> QED BY <5>2 DEF Cut, d
      <4>2. w \in Nat
        BY <2>1, <3>0
      <4> HIDE DEF start, w
      <4>3. (start + where(k)) - start + 1 = where(k) + 1 /\ (start + w) - start = w
        BY <1>4, <2>1, <4>2
      <4>4. NameAt(b, k) = BeforeNul(Slice(b, start + where(k), start + w))
        BY <3>2 DEF w
      <4> QED BY <4>1, <4>3, <4>4 DEF w
    <3>5. t \in Seq(Byte) /\ Len(t) = l + u /\ \A j \in 1..(l + u) : t[j] = d[where(k) + j]
      <4> DEFINE a == where(k)
      <4>1. a \in Nat /\ l \in Nat /\ u \in Nat /\ d \in Seq(Byte) /\ Len(d) = a + l + u
        BY <1>3, <2>1, <3>0
      <4> HIDE DEF a, start, c, u
      <4>2. t = SubSeq(d, a + 1, a + l + u)
        BY DEF a
      <4> HIDE DEF t
      <4>3. \A j \in 1..(l + u) : a + j \in 1..Len(d)
        BY <4>1
      <4>4. t = [j \in 1..(l + u) |-> d[a + j]]
        BY <4>1, <4>2
      <4>5. \A j \in 1..(l + u) : d[a + j] \in Byte
        BY <4>1, <4>3
      <4>6. l + u \in Nat
        BY <4>1
      <4> QED BY <4>4, <4>5, <4>6 DEF a
    <3> HIDE DEF u, t
    <3>6. \A j \in 1..l : t[j] = <<q, j>> /\ t[j] # Nul
      <4>1. \A j \in 1..l : j \in 1..(l + u)
        BY <2>1, <3>0
      <4>2. \A j \in 1..l : t[j] = <<q, j>>
        BY <2>3, <3>5, <4>1
      <4>3. \A j \in 1..l : <<q, j>> # Nul
        BY <2>1 DEF Nul
      <4> QED BY <4>2, <4>3
    <3>7. \A j \in (l + 1)..Len(t) : t[j] = Nul
      <4> SUFFICES ASSUME NEW j \in (l + 1)..Len(t)
                   PROVE  t[j] = Nul
        OBVIOUS
      <4> DEFINE a == where(k)
      <4>1. a \in Nat /\ a + j \in (where(c + 1) + 1)..Len(d) /\ j \in 1..(l + u)
        BY <2>1, <3>0, <3>5
      <4> QED BY <1>3, <3>5, <4>1
    <3>8. l \in 0..Len(t)
      BY <2>1, <3>0, <3>5
    <3>9. BeforeNul(t) = [j \in 1..l |-> t[j]]
      BY <3>5, <3>6, <3>7, <3>8, CutAtNul
    <3> QED BY <2>2, <3>4, <3>6, <3>9 DEF q
  <2> QED BY <1>0, <2>4, <2>5
<1>10. ASSUME NEW k \in 1..c
       PROVE  RankOf(NameAt(b, k)) = from + k - 1
  <2>1. from + k - 1 \in 1..N
    BY <1>1
  <2> QED BY <1>9, <2>1, NameRank
<1> QED BY <1>5, <1>7, <1>8, <1>10 DEF b, c

-----------------------------------------------------------------------------
(* The blocks written so far: block b starts with entry first[b].          *)
Laid(first, n, to) ==
    /\ first \in [1..(n + 1) -> 1..(N + 1)] /\ first[1] = 1 /\ first[n + 1] = to
    /\ \A b \in 1..n : /\ first[b] \in 1..N
                       /\ LastFitting(first[b]) = first[b + 1] - 1
                       /\ blocks[b] = BlockOf(first[b], first[b + 1] - 1)
Image == {BlockOf(from, to) : from \in 1..N, to \in 1..N}

LEMMA SameNames ==
    ASSUME UNCHANGED names
    PROVE  /\ N' = N /\ TextTo' = TextTo /\ Image' = Image
           /\ \A from : LastFitting(from)' = LastFitting(from)
           /\ \A from, to : BlockOf(from, to)' = BlockOf(from, to)
           /\ \A text : RankOf(text)' = RankOf(text)
<1>1. N' = N /\ TextTo' = TextTo
  BY Zenon DEF TextTo, N
<1>2. ASSUME NEW from
      PROVE  LastFitting(from)' = LastFitting(from)
  BY Zenon DEF LastFitting, Used, N, TextTo
<1>3. ASSUME NEW from, NEW to
      PROVE  BlockOf(from, to)' = BlockOf(from, to)
  BY Zenon DEF BlockOf, NameBytes, N, TextTo, RoundUp
<1>4. ASSUME NEW text
      PROVE  RankOf(text)' = RankOf(text)
  BY Zenon DEF RankOf, NameBytes, N
<1>5. Image' = Image
  BY <1>1, <1>2, <1>3 DEF Image
<1> QED BY <1>1, <1>2, <1>3, <1>4, <1>5

LEMMA LaidGrows ==
    ASSUME Names, blocks \in Seq(Image), next \in 1..(N + 1), PackBlock,
           NEW first, Laid(first, Len(blocks), next)
    PROVE  /\ blocks' \in Seq(Image') /\ next' \in 1..(N' + 1)
           /\ Len(blocks') = Len(blocks) + 1
           /\ \E f : /\ Laid(f, Len(blocks), next)'
                     /\ \A b \in 1..(Len(blocks) + 1) : f[b] = first[b]
<1> DEFINE n == Len(blocks)
           last == LastFitting(next)
           new == BlockOf(next, last)
<1>0. n \in Nat /\ N \in Nat
  BY NamesFacts
<1>1. next \in 1..N /\ last \in next..N
  BY <1>0, LastFittingFacts DEF PackBlock
<1>2. new \in Image
  BY <1>0, <1>1 DEF Image
<1>3. blocks' = Append(blocks, new) /\ next' = last + 1 /\ UNCHANGED names
  BY DEF PackBlock
<1>4. new = BlockOf(next, last)
  OBVIOUS
<1> HIDE DEF new
<1>5. blocks' \in Seq(Image) /\ Len(blocks') = n + 1 /\ blocks'[n + 1] = new
      /\ \A b \in 1..n : blocks'[b] = blocks[b]
  BY <1>2, <1>3
<1>6. next' \in 1..(N + 1) /\ last + 1 \in 1..(N + 1) /\ (last + 1) - 1 = last
  BY <1>0, <1>1, <1>3
<1>7. last = LastFitting(next)
  OBVIOUS
<1> HIDE DEF last
<1>8. PICK f : f = [b \in 1..(n + 2) |-> IF b <= n + 1 THEN first[b] ELSE last + 1]
  OBVIOUS
<1>9. /\ first \in [1..(n + 1) -> 1..(N + 1)] /\ first[1] = 1 /\ first[n + 1] = next
      /\ \A b \in 1..n : /\ first[b] \in 1..N
                         /\ LastFitting(first[b]) = first[b + 1] - 1
                         /\ blocks[b] = BlockOf(first[b], first[b + 1] - 1)
  BY DEF Laid
<1>10. ASSUME NEW b \in 1..(n + 1)
       PROVE  f[b] = first[b] /\ first[b] \in 1..(N + 1)
  BY <1>0, <1>8, <1>9
<1>11. f[n + 2] = last + 1
  BY <1>0, <1>8
<1>12. f \in [1..(n + 2) -> 1..(N + 1)]
  <2>1. \A b \in 1..(n + 2) : (IF b <= n + 1 THEN first[b] ELSE last + 1) \in 1..(N + 1)
    BY <1>0, <1>6, <1>10
  <2> QED BY <1>8, <2>1
<1>13. ASSUME NEW b \in 1..(n + 1)
       PROVE  /\ f[b] \in 1..N /\ LastFitting(f[b]) = f[b + 1] - 1
              /\ blocks'[b] = BlockOf(f[b], f[b + 1] - 1)
  <2>1. CASE b \in 1..n
    <3>1. b + 1 \in 1..(n + 1)
      BY <1>0, <2>1
    <3> QED BY <1>5, <1>9, <1>10, <2>1, <3>1
  <2>2. CASE b = n + 1
    <3>1. f[b] = next /\ b + 1 = n + 2
      BY <1>0, <1>9, <1>10, <2>2
    <3> QED BY <1>1, <1>4, <1>5, <1>6, <1>7, <1>11, <2>2, <3>1
  <2> QED BY <1>0, <2>1, <2>2
<1>14. Laid(f, Len(blocks), next)'
  <2>1. Len(blocks') + 1 = n + 2 /\ f[1] = 1 /\ f[n + 2] = next'
    <3>1. 1 \in 1..(n + 1)
      BY <1>0
    <3> QED BY <1>0, <1>3, <1>5, <1>9, <1>10, <1>11, <3>1
  <2>2. /\ N' = N /\ \A from : LastFitting(from)' = LastFitting(from)
        /\ \A from, to : BlockOf(from, to)' = BlockOf(from, to)
    BY <1>3, SameNames
  <2>3. f \in [1..(Len(blocks') + 1) -> 1..(N' + 1)]
    BY <1>12, <2>1, <2>2
  <2>4. ASSUME NEW b \in 1..Len(blocks')
        PROVE  /\ f[b] \in 1..N'
               /\ LastFitting(f[b])' = f[b + 1] - 1
               /\ blocks'[b] = BlockOf(f[b], f[b + 1] - 1)'
    <3>1. b \in 1..(n + 1)
      BY <1>5
    <3> QED BY <1>13, <2>2, <3>1
  <2> QED BY <2>1, <2>3, <2>4 DEF Laid
<1>15. blocks' \in Seq(Image') /\ next' \in 1..(N' + 1)
  BY <1>3, <1>5, <1>6, SameNames
<1> QED BY <1>5, <1>10, <1>14, <1>15

(* Nothing but packing touches it.                                         *)
LEMMA LaidStays ==
    ASSUME UNCHANGED <<names, blocks, next>>, NEW first, Laid(first, Len(blocks), next)
    PROVE  Laid(first, Len(blocks), next)'
<1>1. /\ N' = N /\ \A from : LastFitting(from)' = LastFitting(from)
      /\ \A from, to : BlockOf(from, to)' = BlockOf(from, to)
  BY SameNames
<1> QED BY <1>1 DEF Laid

(* What the reader gets out of a block that was written.                   *)
LEMMA BlockView ==
    ASSUME Names, NEW first, Laid(first, Len(blocks), next), NEW b \in 1..Len(blocks)
    PROVE  LET q == first[b] - 1
               c == first[b + 1] - first[b]
           IN  /\ first[b] \in 1..N /\ first[b + 1] \in (first[b] + 1)..(N + 1)
               /\ LastFitting(first[b]) = first[b + 1] - 1
               /\ Bytes(blocks[b]) = IF first[b + 1] <= N THEN BlockSize ELSE Used(first[b], N)
               /\ EntryN(blocks[b]) = c
               /\ \A k \in 1..c : /\ blocks[b].head[k].nid = q + k
                                  /\ RankOf(NameAt(blocks[b], k)) = q + k
<1> DEFINE from == first[b]
           to == first[b + 1] - 1
           img == blocks[b]
<1>0. N \in Nat
  BY NamesFacts
<1>1. /\ from \in 1..N /\ LastFitting(from) = to /\ img = BlockOf(from, to)
      /\ first[b + 1] \in 1..(N + 1)
  <2>1. b + 1 \in 1..(Len(blocks) + 1) \/ Len(blocks) \notin Nat
    OBVIOUS
  <2> QED BY <2>1 DEF Laid
<1>2. to \in from..N /\ Used(from, to) <= BlockSize
  <2>1. LastFitting(from) \in from..N /\ Used(from, LastFitting(from)) <= BlockSize
    <3> HIDE DEF from
    <3> QED BY <1>1, LastFittingFacts
  <2> QED BY <1>1, <2>1
<1>3. first[b + 1] = to + 1 /\ first[b + 1] - first[b] = to - from + 1
      /\ first[b + 1] \in (first[b] + 1)..(N + 1)
  BY <1>0, <1>1, <1>2
<1> HIDE DEF from, to, img
<1>4. /\ Bytes(img) = IF to < N THEN BlockSize ELSE Used(from, to)
      /\ EntryN(img) = to - from + 1
      /\ \A k \in 1..(to - from + 1) : /\ img.head[k].nid = from + k - 1
                                       /\ RankOf(NameAt(img, k)) = from + k - 1
  BY <1>1, <1>2, ReadBack
<1>5. Bytes(img) = IF to + 1 <= N THEN BlockSize ELSE Used(from, N)
  <2>1. to < N <=> to + 1 <= N
    BY <1>0, <1>1, <1>2
  <2>2. ~(to < N) => to = N
    BY <1>0, <1>1, <1>2
  <2> QED BY <1>4, <2>1, <2>2
<1>6. \A k \in 1..(to - from + 1) : /\ img.head[k].nid = (from - 1) + k
                                    /\ RankOf(NameAt(img, k)) = (from - 1) + k
  <2>1. \A k \in 1..(to - from + 1) : from + k - 1 = (from - 1) + k
    BY <1>0, <1>1, <1>2
  <2> QED BY <1>4, <2>1
<1> QED BY <1>1, <1>3, <1>4, <1>5, <1>6 DEF from, to, img

LEMMA FirstGrows ==
    ASSUME Names, NEW first, Len(blocks) \in Nat, Laid(first, Len(blocks), next),
           NEW i \in 1..(Len(blocks) + 1), NEW j \in 1..(Len(blocks) + 1), i <= j
    PROVE  /\ first[i] \in 1..(N + 1) /\ first[j] \in 1..(N + 1) /\ first[i] <= first[j]
           /\ i < j => first[i] < first[j]
<1> DEFINE n == Len(blocks)
           T == {d \in 0..n : i + d <= n + 1 =>
                   first[i + d] \in 1..(N + 1) /\ first[i] + d <= first[i + d]}
<1>0. n \in Nat /\ N \in Nat
  BY NamesFacts
<1>1. \A b \in 1..(n + 1) : first[b] \in 1..(N + 1)
  BY DEF Laid
<1>2. 0 \in T
  BY <1>0, <1>1
<1>3. ASSUME NEW d \in 0..n, d \in T, d < n
      PROVE  d + 1 \in T
  <2>1. SUFFICES ASSUME i + (d + 1) <= n + 1
                 PROVE  /\ first[i + (d + 1)] \in 1..(N + 1)
                        /\ first[i] + (d + 1) <= first[i + (d + 1)]
    BY <1>0, <1>3
  <2>2. i + d \in 1..n /\ (i + d) + 1 = i + (d + 1) /\ i + (d + 1) \in 1..(n + 1)
    BY <1>0, <2>1
  <2>3. first[(i + d) + 1] \in (first[i + d] + 1)..(N + 1) /\ first[i + d] \in 1..N
    BY <2>2, BlockView
  <2>4. first[i] + d <= first[i + d] /\ first[i] \in 1..(N + 1)
    BY <1>0, <1>1, <1>3, <2>2
  <2> QED BY <1>0, <1>1, <2>2, <2>3, <2>4
<1>4. 0..n \subseteq T
  <2> HIDE DEF T
  <2> QED BY <1>0, <1>2, <1>3, BoundedInduction
<1>5. j - i \in 0..n /\ i + (j - i) = j
  BY <1>0
<1>6. j - i \in T
  <2> HIDE DEF T
  <2> QED BY <1>4, <1>5
<1> QED BY <1>0, <1>1, <1>5, <1>6

-----------------------------------------------------------------------------
(* Listing: what was given out lies before the handle's place, in order.   *)
ChildSet == {k \in 1..N : ~names[k].dot}
Orderly(s, to) ==
    /\ s \in Seq(1..N)
    /\ \A i \in 1..Len(s) : s[i] \in ChildSet /\ s[i] <= to
    /\ \A i, j \in 1..Len(s) : i < j => s[i] < s[j]
GivenOut(s, to) ==
    /\ to \in 0..N /\ Orderly(s, to)
    /\ fails = 0 => s = Ascending(ChildSet, to)
Reading(first) ==
    /\ bn \in 0..Len(blocks) /\ consumed \in Nat
    /\ consumed # 0 => bn < Len(blocks) /\ consumed < first[bn + 2] - first[bn + 1]
    /\ GivenOut(Concat(listed, call.got), (first[bn + 1] - 1) + consumed)

IInv ==
    /\ names \in Directories
    /\ blocks \in Seq(Image) /\ next \in 1..(N + 1)
    /\ fails \in 0..MaxFails /\ ended \in BOOLEAN
    /\ call \in [running : BOOLEAN, n : Pages \cup {0}, got : Seq(1..N)]
    /\ listed \in Seq(1..N)
    /\ ~call.running => call = Idle
    /\ call.running /\ call.n > 0 => Len(call.got) < call.n
    /\ ended => bn = Len(blocks) /\ ~call.running
    /\ ~Packed => bn = 0 /\ listed = <<>> /\ ~call.running /\ ~ended
    /\ \E first : Laid(first, Len(blocks), next) /\ Reading(first)

LEMMA InvNames ==
    ASSUME IInv
    PROVE  Names
  BY DirAssumption DEF IInv, Names

Glued(s, a, b) ==
    /\ Len(s) = Len(a) + Len(b)
    /\ \A i \in 1..(Len(a) + Len(b)) : s[i] = IF i <= Len(a) THEN a[i] ELSE b[i - Len(a)]

LEMMA ConcatFacts ==
    ASSUME NEW S, NEW a \in Seq(S), NEW b \in Seq(S)
    PROVE  Concat(a, b) \in Seq(S) /\ Glued(Concat(a, b), a, b)
  BY Joined DEF Concat, Glued

LEMMA ConcatAssoc ==
    ASSUME NEW S, NEW a \in Seq(S), NEW b \in Seq(S), NEW c \in Seq(S)
    PROVE  Concat(Concat(a, b), c) = Concat(a, Concat(b, c))
<1> DEFINE l == Concat(a, b)
           r == Concat(b, c)
           s == Concat(l, c)
           t == Concat(a, r)
<1>1a. l \in Seq(S) /\ Glued(l, a, b) /\ r \in Seq(S) /\ Glued(r, b, c)
  BY ConcatFacts
<1> HIDE DEF l, r
<1>3a. s \in Seq(S) /\ Glued(s, l, c) /\ t \in Seq(S) /\ Glued(t, a, r)
  BY <1>1a, ConcatFacts
<1> HIDE DEF s, t
<1>1. Len(l) = Len(a) + Len(b)
      /\ \A i \in 1..(Len(a) + Len(b)) : l[i] = IF i <= Len(a) THEN a[i] ELSE b[i - Len(a)]
  BY <1>1a DEF Glued
<1>2. Len(r) = Len(b) + Len(c)
      /\ \A i \in 1..(Len(b) + Len(c)) : r[i] = IF i <= Len(b) THEN b[i] ELSE c[i - Len(b)]
  BY <1>1a DEF Glued
<1>3. Len(s) = Len(l) + Len(c)
      /\ \A i \in 1..(Len(l) + Len(c)) : s[i] = IF i <= Len(l) THEN l[i] ELSE c[i - Len(l)]
  BY <1>3a DEF Glued
<1>4. Len(t) = Len(a) + Len(r)
      /\ \A i \in 1..(Len(a) + Len(r)) : t[i] = IF i <= Len(a) THEN a[i] ELSE r[i - Len(a)]
  BY <1>3a DEF Glued
<1>5. Len(a) \in Nat /\ Len(b) \in Nat /\ Len(c) \in Nat
  OBVIOUS
<1>6. Len(s) = Len(t) /\ Len(s) = Len(a) + Len(b) + Len(c)
  BY <1>1, <1>2, <1>3, <1>4, <1>5
<1>7. ASSUME NEW i \in 1..Len(s)
      PROVE  s[i] = t[i]
  <2>1. CASE i <= Len(a)
    BY <1>1, <1>3, <1>4, <1>5, <1>6, <2>1
  <2>2. CASE i > Len(a) /\ i <= Len(a) + Len(b)
    <3>1. i - Len(a) \in 1..(Len(b) + Len(c)) /\ i - Len(a) <= Len(b)
      BY <1>5, <2>2
    <3>2. s[i] = b[i - Len(a)]
      BY <1>1, <1>3, <1>5, <1>6, <2>2
    <3>3. t[i] = r[i - Len(a)]
      BY <1>2, <1>4, <1>5, <1>6, <2>2
    <3> QED BY <1>2, <3>1, <3>2, <3>3
  <2>3. CASE i > Len(a) + Len(b)
    <3>1. i - Len(a) \in 1..(Len(b) + Len(c)) /\ ~(i - Len(a) <= Len(b))
          /\ (i - Len(a)) - Len(b) = i - (Len(a) + Len(b))
      BY <1>5, <1>6, <2>3
    <3>2. s[i] = c[i - (Len(a) + Len(b))]
      BY <1>1, <1>3, <1>5, <1>6, <2>3
    <3>3. t[i] = r[i - Len(a)]
      BY <1>2, <1>4, <1>5, <1>6, <2>3
    <3> QED BY <1>2, <3>1, <3>2, <3>3
  <2> QED BY <1>5, <1>6, <2>1, <2>2, <2>3
<1>8. s = t
  <2>1. s = [i \in 1..Len(s) |-> s[i]] /\ t = [i \in 1..Len(t) |-> t[i]]
    BY <1>3a
  <2> QED BY <1>6, <1>7, <2>1
<1> QED BY <1>8 DEF s, t, l, r

(* What Fresh looks for in a block that starts behind entry q and has c    *)
(* entries.                                                                *)
Behind(q, c) == {k \in 1..c : k > consumed /\ q + k \in ChildSet}

LEMMA FreshIs ==
    ASSUME IInv, NEW first, Laid(first, Len(blocks), next), Reading(first), bn < Len(blocks)
    PROVE  LET b == blocks[bn + 1]
               q == first[bn + 1] - 1
               c == first[bn + 2] - first[bn + 1]
           IN  /\ q \in Nat /\ c \in Nat /\ q + c <= N /\ consumed \in 0..c /\ EntryN(b) = c
               /\ q + c = first[bn + 2] - 1
               /\ Fresh(b, consumed) = Ascending(Behind(q, c), c)
               /\ \A s \in Seq(1..c) : NamesOf(b, s) = Moved(q, s)
<1> DEFINE b == blocks[bn + 1]
           q == first[bn + 1] - 1
           c == first[bn + 2] - first[bn + 1]
<1>0. Names /\ N \in Nat /\ Len(blocks) \in Nat
  BY InvNames, NamesFacts DEF IInv
<1>1. bn + 1 \in 1..Len(blocks) /\ (bn + 1) + 1 = bn + 2
  BY <1>0 DEF Reading
<1>2. /\ first[bn + 1] \in 1..N /\ first[bn + 2] \in (first[bn + 1] + 1)..(N + 1)
      /\ EntryN(b) = c
      /\ \A k \in 1..c : RankOf(NameAt(b, k)) = q + k
  BY <1>0, <1>1, BlockView
<1>3. q \in Nat /\ c \in Nat /\ q + c <= N /\ c > 0 /\ q + c = first[bn + 2] - 1
  <2> DEFINE x == first[bn + 1]
             y == first[bn + 2]
  <2>1. x \in 1..N /\ y \in (x + 1)..(N + 1) /\ q = x - 1 /\ c = y - x
    BY <1>2
  <2> HIDE DEF x, y, q, c
  <2>2. q \in Nat /\ c \in Nat /\ q + c <= N /\ c > 0 /\ q + c = y - 1
    BY <1>0, <2>1
  <2> QED BY <2>2 DEF y
<1>4. consumed \in 0..c
  BY <1>3 DEF Reading
<1>5. ASSUME NEW k \in 1..c
      PROVE  IsChild(q + k) <=> q + k \in ChildSet
  <2>1. q + k \in 1..N /\ q + k # 0
    BY <1>0, <1>3
  <2> QED BY <2>1 DEF IsChild, ChildSet
<1> HIDE DEF b, q, c
<1>6. {k \in 1..EntryN(b) : k > consumed /\ IsChild(RankOf(NameAt(b, k)))} = Behind(q, c)
  BY <1>2, <1>5 DEF Behind
<1>7. Fresh(b, consumed) = Ascending(Behind(q, c), c)
  BY <1>2, <1>6 DEF Fresh
<1>8. ASSUME NEW s \in Seq(1..c)
      PROVE  NamesOf(b, s) = Moved(q, s)
  <2> DEFINE R == 1..c
  <2>0. s \in Seq(R)
    OBVIOUS
  <2> HIDE DEF R
  <2>1. \A i \in DOMAIN s : s[i] \in R
    BY <2>0
  <2> QED BY <1>2, <2>1 DEF NamesOf, Moved, R
<1> QED BY <1>2, <1>3, <1>4, <1>7, <1>8 DEF b, q, c

LEMMA Taken ==
    ASSUME Names, consumed \in Nat, NEW q \in Nat, NEW c \in Nat, q + c <= N,
           NEW m \in Nat, consumed <= m, m <= c,
           NEW g, GivenOut(g, q + consumed)
    PROVE  /\ Moved(q, Ascending(Behind(q, c), m)) \in Seq(1..N)
           /\ GivenOut(Concat(g, Moved(q, Ascending(Behind(q, c), m))), q + m)
<1> DEFINE U == Behind(q, c)
           es == Ascending(U, m)
           more == Moved(q, es)
           s == Concat(g, more)
<1>0. N \in Nat
  BY NamesFacts
<1>1. g \in Seq(1..N) /\ (\A i \in 1..Len(g) : g[i] \in ChildSet /\ g[i] <= q + consumed)
      /\ (\A i, j \in 1..Len(g) : i < j => g[i] < g[j])
      /\ (fails = 0 => g = Ascending(ChildSet, q + consumed))
  BY DEF GivenOut, Orderly
<1>2. /\ es \in Seq(Nat)
      /\ \A i \in 1..Len(es) : es[i] \in U /\ es[i] \in 1..m
      /\ \A i, j \in 1..Len(es) : i < j => es[i] < es[j]
  <2> HIDE DEF U
  <2> QED BY AscendingLists
<1>3. \A i \in 1..Len(es) : q + es[i] \in ChildSet /\ q + es[i] > q + consumed /\ q + es[i] <= q + m
                            /\ q + es[i] \in 1..N
  <2> SUFFICES ASSUME NEW i \in 1..Len(es)
               PROVE  q + es[i] \in ChildSet /\ q + es[i] > q + consumed /\ q + es[i] <= q + m
                      /\ q + es[i] \in 1..N
    OBVIOUS
  <2>1. es[i] \in 1..m /\ es[i] \in U
    BY <1>2
  <2> HIDE DEF es
  <2>2. es[i] > consumed /\ q + es[i] \in ChildSet
    BY <2>1 DEF Behind
  <2> QED BY <1>0, <2>1, <2>2
<1> HIDE DEF es
<1>4. more \in Seq(1..N) /\ Len(more) = Len(es) /\ \A i \in 1..Len(es) : more[i] = q + es[i]
  <2> DEFINE R == 1..N
  <2>1. more = [i \in 1..Len(es) |-> q + es[i]] /\ Len(es) \in Nat
    BY <1>2 DEF Moved
  <2>2. \A i \in 1..Len(es) : q + es[i] \in R
    BY <1>3
  <2> HIDE DEF more, R
  <2>3. more \in Seq(R) /\ Len(more) = Len(es) /\ \A i \in 1..Len(es) : more[i] = q + es[i]
    BY <2>1, <2>2
  <2> QED BY <2>3 DEF R
<1> HIDE DEF more
<1>5. s \in Seq(1..N) /\ Len(s) = Len(g) + Len(more)
      /\ \A i \in 1..(Len(g) + Len(more)) : s[i] = IF i <= Len(g) THEN g[i] ELSE more[i - Len(g)]
  <2> DEFINE R == 1..N
  <2>1. g \in Seq(R) /\ more \in Seq(R)
    BY <1>1, <1>4
  <2> HIDE DEF R, s
  <2>2. s \in Seq(R) /\ Glued(s, g, more)
    BY <2>1, ConcatFacts DEF s
  <2> QED BY <2>2 DEF Glued, R
<1> HIDE DEF s
<1>6. Len(g) \in Nat /\ Len(es) \in Nat /\ \A i \in 1..Len(g) : g[i] \in 1..N
  <2> DEFINE R == 1..N
  <2>1. g \in Seq(R)
    BY <1>1
  <2> HIDE DEF R
  <2>2. Len(g) \in Nat /\ \A i \in 1..Len(g) : g[i] \in R
    BY <2>1
  <2> QED BY <1>2, <2>2 DEF R
<1>7. ASSUME NEW i \in 1..Len(s)
      PROVE  /\ s[i] \in ChildSet /\ s[i] <= q + m /\ s[i] \in 1..N
             /\ (i <= Len(g) => s[i] = g[i] /\ s[i] <= q + consumed)
             /\ (i > Len(g) => i - Len(g) \in 1..Len(es) /\ s[i] = q + es[i - Len(g)] /\ s[i] > q + consumed)
  <2>1. CASE i <= Len(g)
    <3>1. i \in 1..Len(g) /\ s[i] = g[i]
      BY <1>4, <1>5, <1>6, <2>1
    <3>2. g[i] \in ChildSet /\ g[i] <= q + consumed /\ g[i] \in 1..N
      BY <1>1, <1>6, <3>1
    <3> QED BY <1>6, <2>1, <3>1, <3>2
  <2>2. CASE i > Len(g)
    <3>1. i - Len(g) \in 1..Len(es) /\ s[i] = q + es[i - Len(g)]
      <4>1. i \in 1..(Len(g) + Len(more)) /\ ~(i <= Len(g)) /\ i - Len(g) \in 1..Len(es)
        BY <1>4, <1>5, <1>6, <2>2
      <4>2. s[i] = more[i - Len(g)]
        BY <1>5, <4>1
      <4>3. more[i - Len(g)] = q + es[i - Len(g)]
        BY <1>4, <4>1
      <4> QED BY <4>1, <4>2, <4>3
    <3> QED BY <1>3, <1>6, <2>2, <3>1
  <2> QED BY <1>6, <2>1, <2>2
<1>8. ASSUME NEW i \in 1..Len(s), NEW j \in 1..Len(s), i < j
      PROVE  s[i] < s[j]
  <2>1. CASE j <= Len(g)
    <3>1. i \in 1..Len(g) /\ j \in 1..Len(g) /\ i <= Len(g)
      BY <1>6, <1>8, <2>1
    <3>2. s[i] = g[i] /\ s[j] = g[j]
      BY <1>7, <2>1, <3>1
    <3> QED BY <1>1, <1>8, <3>1, <3>2
  <2>2. CASE i <= Len(g) /\ j > Len(g)
    <3>1. s[i] <= q + consumed /\ s[j] > q + consumed /\ s[i] \in Nat /\ s[j] \in Nat
      BY <1>7, <2>2
    <3> QED BY <3>1
  <2>3. CASE i > Len(g)
    <3>1. j > Len(g) /\ i - Len(g) \in 1..Len(es) /\ j - Len(g) \in 1..Len(es)
      BY <1>6, <1>7, <1>8, <2>3
    <3>2. es[i - Len(g)] < es[j - Len(g)] /\ es[i - Len(g)] \in Nat /\ es[j - Len(g)] \in Nat
      BY <1>2, <1>6, <1>8, <3>1
    <3> QED BY <1>7, <2>3, <3>1, <3>2
  <2> QED BY <1>6, <2>1, <2>2, <2>3
<1>9. ASSUME fails = 0
      PROVE  s = Ascending(ChildSet, q + m)
  <2>1. Shifts(ChildSet, U, q, consumed, m)
    BY DEF Behind, Shifts
  <2>2. Ascending(ChildSet, q + m) = Concat(Ascending(ChildSet, q + consumed), Moved(q, Ascending(U, m)))
    <3> HIDE DEF U
    <3> QED BY <2>1, AscendingShifted
  <2> QED BY <1>1, <1>9, <2>2 DEF s, more, es
<1>10. q + m \in 0..N
  BY <1>0
<1>11. GivenOut(s, q + m)
  BY <1>5, <1>7, <1>8, <1>9, <1>10 DEF GivenOut, Orderly
<1> QED BY <1>4, <1>11 DEF s, more, es

LEMMA InvInit == Init => IInv
<1> SUFFICES ASSUME Init
             PROVE  IInv
  OBVIOUS
<1>0. Names /\ N \in Nat
  <2>1. Names
    BY DirAssumption DEF Init, Names
  <2> QED BY <2>1, NamesFacts
<1>1. PICK first : first = [b \in 1..1 |-> 1]
  OBVIOUS
<1>2. blocks = <<>> /\ Len(blocks) = 0 /\ next = 1 /\ names \in Directories
  BY DEF Init
<1>3. 1 \in 1..(N + 1)
  BY <1>0
<1>4. Laid(first, Len(blocks), next)
  BY <1>1, <1>2, <1>3 DEF Laid
<1>5. Concat(listed, call.got) = <<>> /\ listed = <<>> /\ bn = 0 /\ consumed = 0 /\ fails = 0
      /\ ended = FALSE /\ call = Idle
  BY DEF Init, Concat, Idle
<1>6. (first[bn + 1] - 1) + consumed = 0
  BY <1>1, <1>5
<1>7. Ascending(ChildSet, 0) = <<>>
  BY AscendingStep
<1>8. Reading(first)
  BY <1>0, <1>2, <1>5, <1>6, <1>7 DEF Reading, GivenOut, Orderly
<1>9. call \in [running : BOOLEAN, n : Pages \cup {0}, got : Seq(1..N)]
  BY <1>5 DEF Idle
<1>10. fails \in 0..MaxFails
  BY <1>5, DirAssumption
<1>11. blocks \in Seq(Image) /\ listed \in Seq(1..N)
  BY <1>2, <1>5
<1>12. \E f : Laid(f, Len(blocks), next) /\ Reading(f)
  BY <1>4, <1>8
<1>13. bn = Len(blocks) /\ ~call.running
  BY <1>2, <1>5 DEF Idle
<1> QED BY <1>2, <1>3, <1>5, <1>9, <1>10, <1>11, <1>12, <1>13 DEF IInv

(* What a step of the reader leaves alone.                                 *)
LEMMA ReaderFrame ==
    ASSUME UNCHANGED <<names, blocks, next>>
    PROVE  /\ N' = N /\ ChildSet' = ChildSet /\ Image' = Image /\ Packed' = Packed
           /\ \A first : Laid(first, Len(blocks), next) => Laid(first, Len(blocks), next)'
<1>1. N' = N /\ ChildSet' = ChildSet /\ Packed' = Packed
  BY DEF N, ChildSet, Packed
<1>2. Image' = Image
  BY SameNames
<1> QED BY <1>1, <1>2, LaidStays

LEMMA PackBlockKeeps == IInv /\ PackBlock => IInv'
<1> SUFFICES ASSUME IInv, PackBlock
             PROVE  IInv'
  OBVIOUS
<1>0. Names /\ N \in Nat
  BY InvNames, NamesFacts
<1>1. /\ names \in Directories /\ blocks \in Seq(Image) /\ next \in 1..(N + 1)
      /\ fails \in 0..MaxFails /\ listed \in Seq(1..N)
      /\ call \in [running : BOOLEAN, n : Pages \cup {0}, got : Seq(1..N)]
  BY DEF IInv
<1>2. bn = 0 /\ listed = <<>> /\ ~call.running /\ ~ended /\ call = Idle
  <2>1. ~Packed
    BY <1>0, <1>1 DEF PackBlock, Packed
  <2> QED BY <2>1 DEF IInv
<1>3. PICK first : Laid(first, Len(blocks), next) /\ Reading(first)
  BY DEF IInv
<1>4. /\ blocks' \in Seq(Image') /\ next' \in 1..(N' + 1) /\ Len(blocks') = Len(blocks) + 1
      /\ \E f : Laid(f, Len(blocks), next)' /\ \A b \in 1..(Len(blocks) + 1) : f[b] = first[b]
  BY <1>0, <1>1, <1>3, LaidGrows
<1>5. PICK f : Laid(f, Len(blocks), next)' /\ \A b \in 1..(Len(blocks) + 1) : f[b] = first[b]
  BY <1>4
<1>6. UNCHANGED <<names, bn, consumed, call, listed, ended, fails>> /\ N' = N /\ ChildSet' = ChildSet
  BY DEF PackBlock, N, ChildSet
<1>7. Reading(f)'
  <2>0. Len(blocks) \in Nat
    BY <1>1
  <2>1. f[bn + 1] = first[bn + 1] /\ (consumed # 0 => f[bn + 2] = first[bn + 2])
    BY <1>2, <1>3, <1>5, <2>0 DEF Reading
  <2>2. /\ bn \in 0..Len(blocks) /\ consumed \in Nat
        /\ consumed # 0 => bn < Len(blocks) /\ consumed < first[bn + 2] - first[bn + 1]
        /\ GivenOut(Concat(listed, call.got), (first[bn + 1] - 1) + consumed)
    BY <1>3 DEF Reading
  <2>3. /\ bn \in 0..Len(blocks') /\ consumed \in Nat
        /\ consumed # 0 => bn < Len(blocks') /\ consumed < f[bn + 2] - f[bn + 1]
        /\ GivenOut(Concat(listed, call.got), (f[bn + 1] - 1) + consumed)
    BY <1>4, <2>0, <2>1, <2>2
  <2>4. GivenOut(Concat(listed, call.got), (f[bn + 1] - 1) + consumed)'
    BY <1>6, <2>3 DEF GivenOut, Orderly
  <2> QED BY <1>6, <2>3, <2>4 DEF Reading
<1> QED BY <1>1, <1>2, <1>4, <1>5, <1>6, <1>7 DEF IInv

LEMMA ReadDirKeeps == ASSUME NEW n \in Pages PROVE IInv /\ ReadDir(n) => IInv'
<1> SUFFICES ASSUME IInv, ReadDir(n)
             PROVE  IInv'
  OBVIOUS
<1>0. n \in Nat
  BY DirAssumption
<1>1. UNCHANGED <<names, blocks, next, bn, consumed, listed, ended, fails>> /\ Packed /\ ~call.running
      /\ call' = [running |-> TRUE, n |-> n, got |-> <<>>] /\ ~ended
  BY DEF ReadDir
<1>2. N' = N /\ ChildSet' = ChildSet /\ Image' = Image /\ Packed' = Packed
      /\ \A first : Laid(first, Len(blocks), next) => Laid(first, Len(blocks), next)'
  BY <1>1, ReaderFrame
<1>3. PICK first : Laid(first, Len(blocks), next) /\ Reading(first)
  BY DEF IInv
<1>4. call'.got = call.got /\ call'.n = n /\ call'.running
  BY <1>1 DEF IInv, Idle
<1>5. Reading(first)'
  <2>1. GivenOut(Concat(listed, call.got), (first[bn + 1] - 1) + consumed)'
    BY <1>1, <1>2, <1>3, <1>4 DEF Reading, GivenOut, Orderly
  <2> QED BY <1>1, <1>3, <2>1 DEF Reading
<1>6. call' \in [running : BOOLEAN, n : Pages \cup {0}, got : Seq(1..N)]
      /\ (call'.n > 0 => Len(call'.got) < call'.n)
  BY <1>0, <1>1
<1> QED BY <1>1, <1>2, <1>3, <1>4, <1>5, <1>6 DEF IInv

LEMMA PageFullKeeps == IInv /\ PageFull => IInv'
<1> SUFFICES ASSUME IInv, PageFull
             PROVE  IInv'
  OBVIOUS
<1>0. Names /\ N \in Nat
  BY InvNames, NamesFacts
<1>1. UNCHANGED <<names, blocks, next, ended, fails>> /\ call.running /\ bn < Len(blocks)
      /\ call' = Idle
  BY DEF PageFull
<1>2. N' = N /\ ChildSet' = ChildSet /\ Image' = Image /\ Packed' = Packed
      /\ \A first : Laid(first, Len(blocks), next) => Laid(first, Len(blocks), next)'
  BY <1>1, ReaderFrame
<1>3. PICK first : Laid(first, Len(blocks), next) /\ Reading(first)
  BY DEF IInv
<1> DEFINE b == blocks[bn + 1]
           q == first[bn + 1] - 1
           c == first[bn + 2] - first[bn + 1]
           U == Behind(q, c)
           es == Ascending(U, c)
           g == Concat(listed, call.got)
           m == es[Room]
<1>4. /\ q \in Nat /\ c \in Nat /\ q + c <= N /\ consumed \in 0..c /\ EntryN(b) = c
      /\ q + c = first[bn + 2] - 1
      /\ Fresh(b, consumed) = es
      /\ \A s \in Seq(1..c) : NamesOf(b, s) = Moved(q, s)
  BY <1>1, <1>3, FreshIs
<1>5. /\ call.n > 0 /\ Len(es) >= Room
      /\ listed' = listed \o call.got \o NamesOf(b, SubSeq(es, 1, Room))
      /\ consumed' = (IF m = EntryN(b) THEN 0 ELSE m)
      /\ bn' = (IF m = EntryN(b) THEN bn + 1 ELSE bn)
  <2> HIDE DEF b, es
  <2>1. Fresh(b, consumed) = es
    BY <1>4
  <2> QED BY <2>1 DEF PageFull, b
<1>6. /\ es \in Seq(Nat)
      /\ \A i \in 1..Len(es) : es[i] \in U /\ es[i] \in 1..c
      /\ \A r \in 1..Len(es) : SubSeq(es, 1, r) = Ascending(U, es[r])
  <2> HIDE DEF U
  <2> QED BY <1>4, AscendingLists
<1>7. listed \in Seq(1..N) /\ call.got \in Seq(1..N) /\ call.n \in Nat /\ Len(call.got) < call.n
  <2> HIDE DEF b, es
  <2>1. call \in [running : BOOLEAN, n : Pages \cup {0}, got : Seq(1..N)] /\ listed \in Seq(1..N)
        /\ Len(call.got) < call.n
    BY <1>1, <1>5 DEF IInv
  <2>2. call.n \in Pages \cup {0} /\ call.got \in Seq(1..N)
    BY <2>1
  <2>3. call.n \in Nat
    <3>1. Pages \subseteq Nat /\ 0 \in Nat
      BY DirAssumption
    <3> QED BY <2>2, <3>1, Zenon
  <2> QED BY <2>1, <2>2, <2>3
<1> HIDE DEF es, b
<1>8. Room \in 1..Len(es)
  <2>1. Len(call.got) \in Nat /\ Len(es) \in Nat
    BY <1>6, <1>7
  <2> QED BY <1>5, <1>7, <2>1 DEF Room
<1>9. m \in 1..c /\ m \in U /\ SubSeq(es, 1, Room) = Ascending(U, m)
  BY <1>6, <1>8
<1>10. m > consumed /\ m \in Nat
  BY <1>9 DEF Behind
<1> HIDE DEF q, c, U, m
<1>11. Ascending(U, m) \in Seq(1..c)
  <2>1. /\ Ascending(U, m) \in Seq(Nat)
        /\ \A i \in 1..Len(Ascending(U, m)) : Ascending(U, m)[i] \in 1..m
    BY <1>10, AscendingLists
  <2> DEFINE a == Ascending(U, m)
             R == 1..c
  <2>2. \A i \in 1..Len(a) : a[i] \in R
    BY <1>4, <1>9, <2>1
  <2>3. a \in Seq(Nat)
    BY <2>1
  <2> HIDE DEF a, R
  <2>4. a = [i \in 1..Len(a) |-> a[i]] /\ Len(a) \in Nat
    BY <2>3
  <2>5. a \in Seq(R)
    BY <2>2, <2>4
  <2> QED BY <2>5 DEF a, R
<1> DEFINE more == Moved(q, Ascending(U, m))
<1>12. GivenOut(g, q + consumed)
  BY <1>3 DEF Reading, q
<1>13. more \in Seq(1..N) /\ GivenOut(Concat(g, more), q + m)
  <2> HIDE DEF g
  <2>1. consumed \in Nat /\ consumed <= m /\ m <= c
    BY <1>4, <1>9, <1>10
  <2> QED BY <1>0, <1>4, <1>10, <1>12, <2>1, Taken DEF U
<1>14. listed' = Concat(g, more)
  <2>1. NamesOf(b, SubSeq(es, 1, Room)) = more
    BY <1>4, <1>9, <1>11
  <2> HIDE DEF more
  <2> QED BY <1>5, <2>1, Zenon DEF g, Concat
<1> HIDE DEF more
<1>15. listed' \in Seq(1..N)
  <2>1. GivenOut(listed', q + m)
    BY <1>13, <1>14
  <2> QED BY <2>1 DEF GivenOut, Orderly
<1>16. Concat(listed, call.got)' = listed'
  <2> DEFINE R == 1..N
  <2>1. listed' \in Seq(R) /\ call'.got = <<>>
    BY <1>1, <1>15 DEF Idle
  <2> HIDE DEF R
  <2>2. listed' \o <<>> = listed'
    BY <2>1
  <2> QED BY <2>1, <2>2 DEF Concat
<1>17. /\ bn' \in 0..Len(blocks) /\ consumed' \in Nat
       /\ consumed' # 0 => bn' < Len(blocks) /\ consumed' < first[bn' + 2] - first[bn' + 1]
       /\ (first[bn' + 1] - 1) + consumed' = q + m
  <2>0. bn \in Nat /\ Len(blocks) \in Nat
    BY <1>3 DEF Reading, IInv
  <2>1. CASE m = c
    <3>1. consumed' = 0 /\ bn' = bn + 1
      BY <1>4, <1>5, <2>1
    <3>2. bn' + 1 = bn + 2
      BY <2>0, <3>1
    <3>3. (first[bn' + 1] - 1) + consumed' = q + c
      BY <1>4, <3>1, <3>2
    <3> QED BY <1>1, <2>0, <2>1, <3>1, <3>3
  <2>2. CASE m # c
    <3>1. consumed' = m /\ bn' = bn /\ m < c
      BY <1>4, <1>5, <1>9, <2>2
    <3> QED BY <1>1, <1>10, <2>0, <3>1 DEF q, c
  <2> QED BY <2>1, <2>2
<1>18. Reading(first)'
  <2>1. PICK s, to : s = Concat(g, more) /\ to = q + m
    OBVIOUS
  <2>2. GivenOut(s, to)
    BY <1>13, <2>1
  <2>3. GivenOut(s, to)'
    BY <1>1, <1>2, <2>2 DEF GivenOut, Orderly
  <2>4. Concat(listed, call.got)' = s /\ ((first[bn + 1] - 1) + consumed)' = to
    BY <1>14, <1>16, <1>17, <2>1
  <2>5. GivenOut(Concat(listed, call.got), (first[bn + 1] - 1) + consumed)'
    BY <2>3, <2>4
  <2> QED BY <1>1, <1>17, <2>5 DEF Reading
<1>19. Packed
  BY <1>1 DEF IInv
<1>20. call' \in [running : BOOLEAN, n : Pages \cup {0}, got : Seq(1..N)] /\ ~call'.running
  BY <1>1 DEF Idle
<1>21. ~ended
  BY <1>1 DEF IInv
<1> QED BY <1>1, <1>2, <1>3, <1>15, <1>18, <1>19, <1>20, <1>21 DEF IInv, Idle

LEMMA TakeBlockKeeps == IInv /\ TakeBlock => IInv'
<1> SUFFICES ASSUME IInv, TakeBlock
             PROVE  IInv'
  OBVIOUS
<1>0. Names /\ N \in Nat
  BY InvNames, NamesFacts
<1>1. UNCHANGED <<names, blocks, next, listed, ended, fails>> /\ call.running /\ bn < Len(blocks)
      /\ bn' = bn + 1 /\ consumed' = 0
  BY DEF TakeBlock
<1>2. N' = N /\ ChildSet' = ChildSet /\ Image' = Image /\ Packed' = Packed
      /\ \A first : Laid(first, Len(blocks), next) => Laid(first, Len(blocks), next)'
  BY <1>1, ReaderFrame
<1>3. PICK first : Laid(first, Len(blocks), next) /\ Reading(first)
  BY DEF IInv
<1> DEFINE b == blocks[bn + 1]
           q == first[bn + 1] - 1
           c == first[bn + 2] - first[bn + 1]
           U == Behind(q, c)
           es == Ascending(U, c)
           g == Concat(listed, call.got)
<1>4. /\ q \in Nat /\ c \in Nat /\ q + c <= N /\ consumed \in 0..c /\ EntryN(b) = c
      /\ q + c = first[bn + 2] - 1
      /\ Fresh(b, consumed) = es
      /\ \A s \in Seq(1..c) : NamesOf(b, s) = Moved(q, s)
  BY <1>1, <1>3, FreshIs
<1>5. /\ call.n = 0 \/ Len(es) < Room
      /\ call' = [call EXCEPT !.got = @ \o NamesOf(b, es)]
  <2> HIDE DEF b, es
  <2>1. Fresh(b, consumed) = es
    BY <1>4
  <2> QED BY <2>1 DEF TakeBlock, b
<1>6. es \in Seq(Nat) /\ \A i \in 1..Len(es) : es[i] \in 1..c
  <2> HIDE DEF U
  <2> QED BY <1>4, AscendingLists
<1>7. listed \in Seq(1..N) /\ call \in [running : BOOLEAN, n : Pages \cup {0}, got : Seq(1..N)]
      /\ call.n \in Nat /\ (call.n > 0 => Len(call.got) < call.n)
  <2> HIDE DEF b, es
  <2>1. call \in [running : BOOLEAN, n : Pages \cup {0}, got : Seq(1..N)] /\ listed \in Seq(1..N)
        /\ (call.n > 0 => Len(call.got) < call.n)
    BY <1>1 DEF IInv
  <2>2. \A x \in Pages \cup {0} : x \in Nat
    BY DirAssumption
  <2>3. call.n \in Nat
    <3>1. call.n \in Pages \cup {0}
      BY <2>1
    <3> QED BY <2>2, <3>1, Zenon
  <2> QED BY <2>1, <2>3
<1> HIDE DEF es, b
<1>8. es \in Seq(1..c)
  <2> DEFINE R == 1..c
  <2>1. es \in Seq(Nat) /\ \A i \in 1..Len(es) : es[i] \in R
    BY <1>6
  <2> HIDE DEF R
  <2>2. es = [i \in 1..Len(es) |-> es[i]] /\ Len(es) \in Nat
    BY <2>1
  <2>3. es \in Seq(R)
    BY <2>1, <2>2
  <2> QED BY <2>3 DEF R
<1> DEFINE more == Moved(q, es)
           got == Concat(call.got, more)
<1>9. call' = [call EXCEPT !.got = got]
  <2>1. NamesOf(b, es) = more
    BY <1>4, <1>8
  <2> HIDE DEF more
  <2> QED BY <1>5, <2>1, Zenon DEF Concat
<1>10. GivenOut(g, q + consumed)
  BY <1>3 DEF Reading
<1> HIDE DEF q, c, U
<1>11. more \in Seq(1..N) /\ GivenOut(Concat(g, more), q + c)
  <2> HIDE DEF g
  <2>1. consumed \in Nat /\ consumed <= c /\ c <= c
    BY <1>4
  <2> QED BY <1>0, <1>4, <1>10, <2>1, Taken DEF U, es
<1>12. Len(more) = Len(es)
  <2>1. more = [i \in 1..Len(es) |-> q + es[i]] /\ Len(es) \in Nat
    BY <1>6 DEF Moved
  <2> QED BY <2>1
<1> HIDE DEF more
<1>13. got \in Seq(1..N) /\ Len(got) = Len(call.got) + Len(more)
       /\ Concat(g, more) = Concat(listed, got)
  <2> DEFINE R == 1..N
             k == call.got
  <2>1. listed \in Seq(R) /\ k \in Seq(R) /\ more \in Seq(R)
    BY <1>7, <1>11
  <2> HIDE DEF R, k
  <2>2. Concat(k, more) \in Seq(R) /\ Glued(Concat(k, more), k, more)
    BY <2>1, ConcatFacts
  <2>3. Concat(Concat(listed, k), more) = Concat(listed, Concat(k, more))
    BY <2>1, ConcatAssoc
  <2> QED BY <2>2, <2>3 DEF Glued, R, k
<1> HIDE DEF got, g
<1>14. /\ call' \in [running : BOOLEAN, n : Pages \cup {0}, got : Seq(1..N)]
       /\ call'.got = got /\ call'.n = call.n /\ call'.running
  BY <1>1, <1>7, <1>9, <1>13
<1>15. call'.n > 0 => Len(call'.got) < call'.n
  <2>1. Len(es) \in Nat /\ Len(call.got) \in Nat /\ Len(got) = Len(call.got) + Len(es)
    BY <1>6, <1>7, <1>12, <1>13
  <2>2. call.n > 0 => Len(es) < call.n - Len(call.got)
    BY <1>5, <1>7 DEF Room
  <2>3. call.n > 0 => Len(got) < call.n
    BY <1>7, <2>1, <2>2
  <2> QED BY <1>14, <2>3
<1>16. /\ bn' \in 0..Len(blocks) /\ consumed' = 0
       /\ (first[bn' + 1] - 1) + consumed' = q + c
  <2>1. bn \in Nat /\ Len(blocks) \in Nat
    BY <1>3 DEF Reading, IInv
  <2>2. bn' + 1 = bn + 2
    BY <1>1, <2>1
  <2>3. first[bn' + 1] - 1 = q + c
    BY <1>4, <2>2
  <2>4. (q + c) + 0 = q + c
    BY <1>4
  <2> QED BY <1>1, <2>1, <2>3, <2>4
<1>17. Reading(first)'
  <2>1. PICK s, to : s = Concat(g, more) /\ to = q + c
    OBVIOUS
  <2>2. GivenOut(s, to)
    BY <1>11, <2>1
  <2>3. GivenOut(s, to)'
    BY <1>1, <1>2, <2>2 DEF GivenOut, Orderly
  <2>4. Concat(listed, call.got)' = s /\ ((first[bn + 1] - 1) + consumed)' = to
    BY <1>1, <1>13, <1>14, <1>16, <2>1
  <2>5. GivenOut(Concat(listed, call.got), (first[bn + 1] - 1) + consumed)'
    BY <2>3, <2>4
  <2> QED BY <1>1, <1>16, <2>5 DEF Reading
<1>18. Packed /\ ~ended
  BY <1>1 DEF IInv
<1> QED BY <1>1, <1>2, <1>3, <1>7, <1>14, <1>15, <1>17, <1>18 DEF IInv

LEMMA AtEndKeeps == IInv /\ AtEnd => IInv'
<1> SUFFICES ASSUME IInv, AtEnd
             PROVE  IInv'
  OBVIOUS
<1>0. Names /\ N \in Nat
  BY InvNames, NamesFacts
<1>1. UNCHANGED <<names, blocks, next, bn, consumed, fails>> /\ call.running /\ bn = Len(blocks)
      /\ call' = Idle /\ listed' = Concat(listed, call.got) /\ ended' = TRUE
  BY DEF AtEnd, Concat
<1>2. N' = N /\ ChildSet' = ChildSet /\ Image' = Image /\ Packed' = Packed
      /\ \A first : Laid(first, Len(blocks), next) => Laid(first, Len(blocks), next)'
  BY <1>1, ReaderFrame
<1>3. PICK first : Laid(first, Len(blocks), next) /\ Reading(first)
  BY DEF IInv
<1>4. PICK s, to : s = Concat(listed, call.got) /\ to = (first[bn + 1] - 1) + consumed
  OBVIOUS
<1>5. GivenOut(s, to)
  BY <1>3, <1>4 DEF Reading
<1>6. s \in Seq(1..N)
  BY <1>5 DEF GivenOut, Orderly
<1>7. Concat(listed, call.got)' = s
  <2> DEFINE R == 1..N
  <2>1. s \in Seq(R) /\ listed' = s /\ call'.got = <<>>
    BY <1>1, <1>4, <1>6 DEF Idle
  <2> HIDE DEF R
  <2>2. s \o <<>> = s
    BY <2>1
  <2> QED BY <2>1, <2>2 DEF Concat
<1>8. Reading(first)'
  <2>1. GivenOut(s, to)'
    BY <1>1, <1>2, <1>5 DEF GivenOut, Orderly
  <2>2. ((first[bn + 1] - 1) + consumed)' = to
    BY <1>1, <1>4
  <2>3. GivenOut(Concat(listed, call.got), (first[bn + 1] - 1) + consumed)'
    BY <1>7, <2>1, <2>2
  <2> QED BY <1>1, <1>3, <2>3 DEF Reading
<1>9. Packed
  BY <1>1 DEF IInv
<1>10. call' \in [running : BOOLEAN, n : Pages \cup {0}, got : Seq(1..N)] /\ ~call'.running
  BY <1>1 DEF Idle
<1>11. listed' \in Seq(1..N)
  BY <1>1, <1>4, <1>6
<1> QED BY <1>1, <1>2, <1>3, <1>8, <1>9, <1>10, <1>11 DEF IInv, Idle

LEMMA LoadFailsKeeps == IInv /\ LoadFails => IInv'
<1> SUFFICES ASSUME IInv, LoadFails
             PROVE  IInv'
  OBVIOUS
<1>0. Names /\ N \in Nat
  BY InvNames, NamesFacts
<1>1. UNCHANGED <<names, blocks, next, bn, consumed, listed, ended>> /\ call.running
      /\ bn < Len(blocks) /\ call' = Idle /\ fails < MaxFails /\ fails' = fails + 1
  BY DEF LoadFails
<1>2. N' = N /\ ChildSet' = ChildSet /\ Image' = Image /\ Packed' = Packed
      /\ \A first : Laid(first, Len(blocks), next) => Laid(first, Len(blocks), next)'
  BY <1>1, ReaderFrame
<1>3. PICK first : Laid(first, Len(blocks), next) /\ Reading(first)
  BY DEF IInv
<1>4. PICK s, to : s = Concat(listed, call.got) /\ to = (first[bn + 1] - 1) + consumed
  OBVIOUS
<1>5. GivenOut(s, to)
  BY <1>3, <1>4 DEF Reading
<1>6. listed \in Seq(1..N) /\ call.got \in Seq(1..N) /\ fails \in Nat /\ MaxFails \in Nat
  BY DirAssumption DEF IInv
<1>7. PICK l : l = listed
  OBVIOUS
<1>8. Glued(s, listed, call.got)
  <2> DEFINE R == 1..N
             k == call.got
  <2>1. listed \in Seq(R) /\ k \in Seq(R)
    BY <1>6
  <2> HIDE DEF R, k
  <2>2. Glued(Concat(listed, k), listed, k)
    BY <2>1, ConcatFacts
  <2> QED BY <1>4, <2>2 DEF k
<1>9. Orderly(l, to) /\ to \in 0..N
  <2>1. Len(l) \in Nat /\ Len(call.got) \in Nat /\ Len(s) = Len(l) + Len(call.got)
        /\ \A i \in 1..(Len(l) + Len(call.got)) : s[i] = IF i <= Len(l) THEN l[i] ELSE call.got[i - Len(l)]
    BY <1>6, <1>7, <1>8 DEF Glued
  <2>2. \A i \in 1..Len(l) : i \in 1..Len(s) /\ s[i] = l[i]
    BY <2>1
  <2>3. /\ \A i \in 1..Len(s) : s[i] \in ChildSet /\ s[i] <= to
        /\ \A i, j \in 1..Len(s) : i < j => s[i] < s[j]
    BY <1>5 DEF GivenOut, Orderly
  <2>4. \A i \in 1..Len(l) : l[i] \in ChildSet /\ l[i] <= to
    BY <2>2, <2>3
  <2>5. \A i, j \in 1..Len(l) : i < j => l[i] < l[j]
    BY <2>2, <2>3
  <2> QED BY <1>5, <1>6, <1>7, <2>4, <2>5 DEF GivenOut, Orderly
<1>10. Concat(listed, call.got)' = l
  <2> DEFINE R == 1..N
  <2>1. l \in Seq(R) /\ listed' = l /\ call'.got = <<>>
    BY <1>1, <1>6, <1>7 DEF Idle
  <2> HIDE DEF R
  <2>2. l \o <<>> = l
    BY <2>1
  <2> QED BY <2>1, <2>2 DEF Concat
<1>11. Reading(first)'
  <2>1. GivenOut(l, to)'
    <3>1. fails' # 0
      BY <1>1, <1>6
    <3> QED BY <1>2, <1>9, <3>1 DEF GivenOut, Orderly
  <2>2. ((first[bn + 1] - 1) + consumed)' = to
    BY <1>1, <1>4
  <2>3. GivenOut(Concat(listed, call.got), (first[bn + 1] - 1) + consumed)'
    BY <1>10, <2>1, <2>2
  <2> QED BY <1>1, <1>3, <2>3 DEF Reading
<1>12. Packed /\ ~ended
  BY <1>1 DEF IInv
<1>13. call' \in [running : BOOLEAN, n : Pages \cup {0}, got : Seq(1..N)] /\ ~call'.running
  BY <1>1 DEF Idle
<1>14. fails' \in 0..MaxFails
  BY <1>1, <1>6
<1> QED BY <1>1, <1>2, <1>3, <1>11, <1>12, <1>13, <1>14 DEF IInv, Idle

LEMMA InvStep == IInv /\ [Next]_vars => IInv'
<1> SUFFICES ASSUME IInv, [Next]_vars
             PROVE  IInv'
  OBVIOUS
<1>1. CASE UNCHANGED vars
  <2>1. UNCHANGED <<names, blocks, next, bn, consumed, call, listed, ended, fails>>
    BY <1>1 DEF vars
  <2>2. N' = N /\ ChildSet' = ChildSet /\ Image' = Image /\ Packed' = Packed
        /\ \A first : Laid(first, Len(blocks), next) => Laid(first, Len(blocks), next)'
    BY <2>1, ReaderFrame
  <2>3. \A first : Reading(first) => Reading(first)'
    BY <2>1, <2>2 DEF Reading, GivenOut, Orderly
  <2> QED BY <2>1, <2>2, <2>3 DEF IInv
<1>2. CASE PackBlock
  BY <1>2, PackBlockKeeps
<1>3. CASE \E n \in Pages : ReadDir(n)
  BY <1>3, ReadDirKeeps
<1>4. CASE PageFull
  BY <1>4, PageFullKeeps
<1>5. CASE TakeBlock
  BY <1>5, TakeBlockKeeps
<1>6. CASE AtEnd
  BY <1>6, AtEndKeeps
<1>7. CASE LoadFails
  BY <1>7, LoadFailsKeeps
<1> QED BY <1>1, <1>2, <1>3, <1>4, <1>5, <1>6, <1>7 DEF Next

LEMMA Invariant == Spec => []IInv
  BY InvInit, InvStep, PTL DEF Spec

(* Everything stays of its type.                                           *)
LEMMA InvType == IInv => TypeOK
<1> SUFFICES ASSUME IInv
             PROVE  TypeOK
  OBVIOUS
<1>0. Names /\ N \in Nat /\ Len(blocks) \in Nat
  BY InvNames, NamesFacts DEF IInv
<1>1. PICK first : Laid(first, Len(blocks), next) /\ Reading(first)
  BY DEF IInv
<1>2. bn \in 0..Len(blocks)
      /\ (consumed # 0 => bn < Len(blocks) /\ consumed < first[bn + 2] - first[bn + 1])
  BY <1>1 DEF Reading
<1>3. consumed # 0 => bn < Len(blocks) /\ consumed < EntryN(blocks[bn + 1])
  <2> SUFFICES ASSUME consumed # 0
               PROVE  bn < Len(blocks) /\ consumed < EntryN(blocks[bn + 1])
    OBVIOUS
  <2>1. bn + 1 \in 1..Len(blocks) /\ (bn + 1) + 1 = bn + 2
    BY <1>0, <1>2
  <2>2. EntryN(blocks[bn + 1]) = first[(bn + 1) + 1] - first[bn + 1]
    BY <1>0, <1>1, <2>1, BlockView
  <2> QED BY <1>2, <2>1, <2>2
<1> QED BY <1>2, <1>3 DEF IInv, TypeOK

(* A shorter list of a set is how a longer one begins.                     *)
LEMMA AscendingPrefix ==
    ASSUME NEW S, NEW n \in Nat, NEW m \in Nat, m <= n
    PROVE  \E t \in Seq(Nat) : Ascending(S, n) = Concat(Ascending(S, m), t)
<1> DEFINE U == {k \in Nat : 0 + k \in S /\ k > m}
<1>1. Shifts(S, U, 0, m, n)
  BY DEF Shifts
<1>2. Ascending(S, 0 + n) = Concat(Ascending(S, 0 + m), Moved(0, Ascending(U, n)))
  <2> HIDE DEF U
  <2>1. 0 \in Nat
    OBVIOUS
  <2> QED BY <1>1, <2>1, AscendingShifted
<1>3. 0 + n = n /\ 0 + m = m
  OBVIOUS
<1>4. Moved(0, Ascending(U, n)) \in Seq(Nat)
  <2> DEFINE a == Ascending(U, n)
  <2>1. a \in Seq(Nat)
    BY AscendingStep
  <2> HIDE DEF a
  <2>2. Moved(0, a) = [i \in 1..Len(a) |-> 0 + a[i]] /\ Len(a) \in Nat
    BY <2>1 DEF Moved
  <2>3. Moved(0, a) \in Seq(Nat)
    BY <2>1, <2>2
  <2> QED BY <2>3 DEF a
<1> QED BY <1>2, <1>3, <1>4

LEMMA PrefixOfConcat ==
    ASSUME NEW S, NEW a \in Seq(S), NEW b \in Seq(S)
    PROVE  IsPrefix(a, Concat(a, b))
<1> DEFINE s == Concat(a, b)
<1>1. s \in Seq(S) /\ Glued(s, a, b)
  BY ConcatFacts
<1> HIDE DEF s
<1>2. Len(s) = Len(a) + Len(b) /\ Len(a) \in Nat /\ Len(b) \in Nat
      /\ \A i \in 1..(Len(a) + Len(b)) : s[i] = IF i <= Len(a) THEN a[i] ELSE b[i - Len(a)]
  BY <1>1 DEF Glued
<1>3. \A i \in 1..Len(a) : s[i] = a[i]
  BY <1>2
<1>4. SubSeq(s, 1, Len(a)) = SubSeq(a, 1, Len(a))
  BY <1>1, <1>2, <1>3
<1> QED BY <1>2, <1>4 DEF IsPrefix, s

(* Every number of a set is listed.                                        *)
LEMMA AscendingHas ==
    ASSUME NEW S, NEW n \in Nat, NEW x \in S, x \in 1..n
    PROVE  x \in {Ascending(S, n)[i] : i \in DOMAIN Ascending(S, n)}
<1>1. PICK t \in Seq(Nat) : Ascending(S, n) = Concat(Ascending(S, x), t)
  <2>1. x \in Nat /\ x <= n
    OBVIOUS
  <2> QED BY <2>1, AscendingPrefix
<1> DEFINE a == Ascending(S, x - 1)
           b == Ascending(S, x)
           s == Ascending(S, n)
<1>2. x - 1 \in Nat /\ (x - 1) + 1 = x /\ x \in Nat
  OBVIOUS
<1>3. a \in Seq(Nat) /\ b = Append(a, x)
  BY <1>2, AscendingStep
<1> HIDE DEF a, b
<1>4. b \in Seq(Nat) /\ Len(b) \in Nat /\ Len(b) \in 1..Len(b) /\ b[Len(b)] = x
  BY <1>2, <1>3
<1>5. s \in Seq(Nat) /\ Glued(s, b, t)
  BY <1>1, <1>4, ConcatFacts DEF b
<1> HIDE DEF s
<1>6. Len(t) \in Nat /\ Len(s) = Len(b) + Len(t)
      /\ \A i \in 1..(Len(b) + Len(t)) : s[i] = IF i <= Len(b) THEN b[i] ELSE t[i - Len(b)]
  BY <1>5 DEF Glued
<1>7. Len(b) \in DOMAIN s /\ s[Len(b)] = x
  <2>1. DOMAIN s = 1..Len(s)
    BY <1>5
  <2> QED BY <1>4, <1>6, <2>1
<1> QED BY <1>7 DEF s

LEMMA InvListed == IInv => ListedOnce
<1> SUFFICES ASSUME IInv
             PROVE  ListedOnce
  OBVIOUS
<1>0. Names /\ N \in Nat
  BY InvNames, NamesFacts
<1>1. PICK first : Laid(first, Len(blocks), next) /\ Reading(first)
  BY DEF IInv
<1> DEFINE s == Concat(listed, call.got)
           to == (first[bn + 1] - 1) + consumed
<1>2. to \in 0..N /\ Orderly(s, to) /\ (fails = 0 => s = Ascending(ChildSet, to))
  BY <1>1 DEF Reading, GivenOut
<1>3. listed \in Seq(1..N) /\ call.got \in Seq(1..N)
  BY DEF IInv
<1>4. Glued(s, listed, call.got) /\ s \in Seq(1..N)
  <2> DEFINE R == 1..N
             k == call.got
  <2>1. listed \in Seq(R) /\ k \in Seq(R)
    BY <1>3
  <2> HIDE DEF R, k
  <2>2. Glued(Concat(listed, k), listed, k) /\ Concat(listed, k) \in Seq(R)
    BY <2>1, ConcatFacts
  <2> QED BY <2>2 DEF k, R
<1>5. Children = Ascending(ChildSet, N)
  BY DEF Children, ChildSet
<1> HIDE DEF s, to
<1>6. \A i \in 1..Len(listed) : i \in 1..Len(s) /\ s[i] = listed[i]
  <2>1. Len(listed) \in Nat /\ Len(call.got) \in Nat /\ Len(s) = Len(listed) + Len(call.got)
        /\ \A i \in 1..(Len(listed) + Len(call.got)) :
             s[i] = IF i <= Len(listed) THEN listed[i] ELSE call.got[i - Len(listed)]
    BY <1>3, <1>4 DEF Glued
  <2> QED BY <2>1
<1>7. \A k \in 1..(Len(listed) - 1) : listed[k] < listed[k + 1]
  <2> SUFFICES ASSUME NEW k \in 1..(Len(listed) - 1)
               PROVE  listed[k] < listed[k + 1]
    OBVIOUS
  <2>1. Len(listed) \in Nat
    BY <1>3
  <2>2. k \in 1..Len(listed) /\ k + 1 \in 1..Len(listed) /\ k < k + 1
    BY <2>1
  <2> QED BY <1>2, <1>6, <2>2 DEF Orderly
<1>8. ToSet(listed) \subseteq ToSet(Children)
  <2> SUFFICES ASSUME NEW i \in 1..Len(listed)
               PROVE  listed[i] \in ToSet(Children)
    <3>1. DOMAIN listed = 1..Len(listed)
      BY <1>3
    <3> QED BY <3>1 DEF ToSet
  <2>1. listed[i] \in ChildSet
    BY <1>2, <1>6 DEF Orderly
  <2>2. listed[i] \in 1..N
    BY <2>1 DEF ChildSet
  <2> QED BY <1>0, <1>5, <2>1, <2>2, AscendingHas DEF ToSet
<1>9. fails = 0 => IsPrefix(listed, Children)
  <2> SUFFICES ASSUME fails = 0
               PROVE  IsPrefix(listed, Children)
    OBVIOUS
  <2>1. PICK t \in Seq(Nat) : Children = Concat(Ascending(ChildSet, to), t)
    BY <1>0, <1>2, <1>5, AscendingPrefix
  <2>2. Children = Concat(s, t)
    BY <1>2, <2>1
  <2>3. Concat(s, t) = Concat(listed, Concat(call.got, t)) /\ Concat(call.got, t) \in Seq(Nat)
        /\ listed \in Seq(Nat)
    <3> DEFINE k == call.got
    <3>1. listed \in Seq(Nat) /\ k \in Seq(Nat)
      <4>1. \A x \in Seq(1..N) : x \in Seq(Nat)
        BY <1>0
      <4> QED BY <1>3, <4>1
    <3> HIDE DEF k
    <3>2. Concat(Concat(listed, k), t) = Concat(listed, Concat(k, t)) /\ Concat(k, t) \in Seq(Nat)
      BY <3>1, ConcatAssoc, ConcatFacts
    <3> QED BY <3>1, <3>2 DEF s, k
  <2> QED BY <2>2, <2>3, PrefixOfConcat
<1>10. fails = 0 /\ ended => listed = Children
  <2> SUFFICES ASSUME fails = 0, ended
               PROVE  listed = Children
    OBVIOUS
  <2>1. bn = Len(blocks) /\ call = Idle /\ Packed
    BY DEF IInv
  <2>2. consumed = 0 /\ first[bn + 1] = next /\ next = N + 1
    <3>1. Len(blocks) \in Nat /\ next \in 1..(N + 1)
      BY DEF IInv
    <3>2. consumed = 0
      BY <1>1, <2>1, <3>1 DEF Reading
    <3> QED BY <1>0, <1>1, <2>1, <3>1, <3>2 DEF Laid, Packed
  <2>3. to = N
    BY <1>0, <2>2 DEF to
  <2>4. s = listed
    <3> DEFINE R == 1..N
    <3>1. listed \in Seq(R) /\ call.got = <<>>
      BY <1>3, <2>1 DEF Idle
    <3> HIDE DEF R
    <3>2. listed \o <<>> = listed
      BY <3>1
    <3> QED BY <3>1, <3>2 DEF s, Concat
  <2> QED BY <1>2, <1>5, <2>3, <2>4
<1> QED BY <1>7, <1>8, <1>9, <1>10 DEF ListedOnce

-----------------------------------------------------------------------------
(* What direntDataSize adds up, from an entry on.                          *)
Share(from) == IF LastFitting(from) < N THEN BlockSize ELSE Used(from, N)
Follows(from) == IF from > N THEN from ELSE LastFitting(from) + 1
Totals(size) ==
    /\ \A from \in 1..(N + 1) : size[from] \in Nat
    /\ size[N + 1] = 0
    /\ \A from \in 1..N : size[from] = Share(from) + size[LastFitting(from) + 1]

LEMMA ShareFacts ==
    ASSUME Names, NEW from \in 1..N
    PROVE  /\ Share(from) \in Nat
           /\ LastFitting(from) \in from..N /\ LastFitting(from) + 1 \in (from + 1)..(N + 1)
           /\ Share(from) = IF LastFitting(from) < N
                            THEN RoundUp(Used(from, LastFitting(from)))
                            ELSE Used(from, LastFitting(from))
<1> DEFINE to == LastFitting(from)
<1>1. N \in Nat /\ BlockSize \in Nat /\ to \in from..N /\ Used(from, to) <= BlockSize
  BY NamesFacts, Sizes, LastFittingFacts
<1>2. Used(from, to) \in Nat /\ Used(from, to) > 0
  BY <1>1, UsedFacts
<1>3. RoundUp(Used(from, to)) = BlockSize
  BY <1>1, <1>2, Padded
<1>4. to < N \/ to = N
  BY <1>1
<1>5. to + 1 \in (from + 1)..(N + 1)
  BY <1>1
<1> HIDE DEF to
<1>6. to = LastFitting(from)
  BY DEF to
<1> QED BY <1>1, <1>2, <1>3, <1>4, <1>5, <1>6 DEF Share

LEMMA TotalsIs ==
    ASSUME Names
    PROVE  \E size : Totals(size) /\ (N # 2 => DirentDataSize = size[1])
<1> DEFINE Weight(x) == LET to == LastFitting(x)
                        IN  IF to < N THEN RoundUp(Used(x, to)) ELSE Used(x, to)
           Turn(h) == [from \in 1..(N + 1) |->
                         IF from > N THEN 0
                         ELSE LET to == LastFitting(from)
                              IN  (IF to < N THEN RoundUp(Used(from, to)) ELSE Used(from, to))
                                  + h[to + 1]]
           size == CHOOSE h : h = Turn(h)
           D == 1..(N + 1)
           m == [x \in D |-> N + 1 - x]
           v == [x \in D |-> 0]
           nx == [x \in D |-> Follows(x)]
           g == [p \in D \X Nat |-> IF p[1] > N THEN 0 ELSE Share(p[1]) + p[2]]
<1>0. N \in Nat
  BY NamesFacts
<1>1. \A x \in 1..N : /\ Share(x) \in Nat /\ LastFitting(x) \in x..N
                      /\ LastFitting(x) + 1 \in (x + 1)..(N + 1) /\ Share(x) = Weight(x)
  BY ShareFacts
<1>2. Recursive(D, Nat, N, m, {N + 1}, v, nx, g)
  <2>1. m \in [D -> 0..N] /\ v \in [D -> Nat]
    BY <1>0
  <2>2. \A x \in D : Follows(x) \in D /\ (x # N + 1 => Follows(x) > x /\ x \in 1..N)
    <3> HIDE DEF Weight
    <3> QED BY <1>0, <1>1 DEF Follows
  <2>3. nx \in [D -> D]
    BY <2>2
  <2>4. g \in [D \X Nat -> Nat]
    <3> HIDE DEF Weight
    <3>1. ASSUME NEW x \in D, NEW y \in Nat
          PROVE  (IF x > N THEN 0 ELSE Share(x) + y) \in Nat
      BY <1>0, <1>1
    <3>2. \A p \in D \X Nat : p[1] \in D /\ p[2] \in Nat
      OBVIOUS
    <3>3. \A p \in D \X Nat : (IF p[1] > N THEN 0 ELSE Share(p[1]) + p[2]) \in Nat
      <4> HIDE DEF D
      <4> QED BY <3>1, <3>2
    <3> QED BY <3>3
  <2>5. \A x \in D : x \notin {N + 1} => m[nx[x]] < m[x]
    <3> SUFFICES ASSUME NEW x \in D, x # N + 1
                 PROVE  m[nx[x]] < m[x]
      OBVIOUS
    <3>1. nx[x] = Follows(x) /\ Follows(x) \in D /\ Follows(x) > x
      BY <2>2
    <3>2. m[Follows(x)] = N + 1 - Follows(x) /\ m[x] = N + 1 - x
      BY <3>1
    <3> HIDE DEF nx, m
    <3> QED BY <1>0, <3>1, <3>2
  <2> HIDE DEF m, v, nx, g, D
  <2> QED BY <1>0, <2>1, <2>3, <2>4, <2>5 DEF Recursive
<1>3. \A x \in 1..N, y \in Nat : x \in D /\ x # N + 1 /\ nx[x] = LastFitting(x) + 1
                                  /\ g[<<x, y>>] = Share(x) + y
  <2> SUFFICES ASSUME NEW x \in 1..N, NEW y \in Nat
               PROVE  x \in D /\ x # N + 1 /\ nx[x] = LastFitting(x) + 1
                      /\ g[<<x, y>>] = Share(x) + y
    OBVIOUS
  <2>1. x \in D /\ ~(x > N) /\ x # N + 1 /\ <<x, y>> \in D \X Nat
    BY <1>0
  <2>2. g[<<x, y>>] = Share(x) + y
    BY <2>1
  <2>3. nx[x] = LastFitting(x) + 1
    BY <2>1 DEF Follows
  <2> QED BY <2>1, <2>2, <2>3
<1>4. v[N + 1] = 0 /\ N + 1 \in D
  BY <1>0
<1> HIDE DEF m, v, nx, g
<1>5. PICK f : Solves(f, D, Nat, {N + 1}, v, nx, g)
  BY <1>2, Recursion
<1>6. /\ f \in [D -> Nat]
      /\ \A x \in D : f[x] = IF x \in {N + 1} THEN v[x] ELSE g[<<x, f[nx[x]]>>]
  BY <1>5 DEF Solves
<1>7. f[N + 1] = 0 /\ \A x \in 1..N : f[x] = Weight(x) + f[LastFitting(x) + 1]
  <2>1. f[N + 1] = 0
    BY <1>4, <1>6
  <2>2. ASSUME NEW x \in 1..N
        PROVE  f[x] = Weight(x) + f[LastFitting(x) + 1]
    <3> HIDE DEF Weight
    <3>1. LastFitting(x) + 1 \in D
      BY <1>0, <1>1
    <3>2. f[LastFitting(x) + 1] \in Nat
      BY <1>6, <3>1
    <3> QED BY <1>1, <1>3, <1>6, <3>2
  <2> QED BY <2>1, <2>2
<1>8. f = Turn(f)
  <2>1. ASSUME NEW x \in D
        PROVE  f[x] = IF x > N THEN 0 ELSE Weight(x) + f[LastFitting(x) + 1]
    <3>1. x = N + 1 \/ (x \in 1..N /\ ~(x > N))
      BY <1>0
    <3> QED BY <1>0, <1>7, <3>1
  <2> QED BY <1>6, <2>1
<1>9. size = Turn(size)
  <2> HIDE DEF Turn
  <2> QED BY <1>8
<1>10. N # 2 => DirentDataSize = size[1]
  BY DEF DirentDataSize
<1> HIDE DEF size
<1>11. \A x \in D : size[x] = IF x > N THEN 0 ELSE Weight(x) + size[LastFitting(x) + 1]
  BY <1>9
<1> HIDE DEF Weight
<1>12. size[N + 1] = 0 /\ \A x \in 1..N : size[x] = Share(x) + size[LastFitting(x) + 1]
  BY <1>0, <1>1, <1>11
<1> DEFINE T == {d \in 0..N : \A x \in D : x + d >= N + 1 => size[x] \in Nat}
<1>13. 0..N \subseteq T
  <2>1. 0 \in T
    BY <1>0, <1>12
  <2>2. ASSUME NEW d \in 0..N, d \in T, d < N
        PROVE  d + 1 \in T
    <3>1. ASSUME NEW x \in D, x + (d + 1) >= N + 1
          PROVE  size[x] \in Nat
      <4>1. CASE x = N + 1
        BY <1>12, <4>1
      <4>2. CASE x # N + 1
        <5>1. x \in 1..N
          BY <1>0, <4>2
        <5> DEFINE y == LastFitting(x) + 1
        <5>2. y \in (x + 1)..(N + 1) /\ Share(x) \in Nat /\ size[x] = Share(x) + size[y]
          BY <1>1, <1>12, <5>1
        <5> HIDE DEF y
        <5>3. y \in D /\ y + d >= N + 1
          BY <1>0, <2>2, <3>1, <5>1, <5>2
        <5>4. size[y] \in Nat
          BY <2>2, <5>3
        <5> QED BY <5>2, <5>4
      <4> QED BY <4>1, <4>2
    <3> QED BY <1>0, <2>2, <3>1
  <2> HIDE DEF T
  <2> QED BY <1>0, <2>1, <2>2, BoundedInduction
<1>14. \A x \in D : size[x] \in Nat
  <2>1. N \in T
    <3> HIDE DEF T
    <3> QED BY <1>0, <1>13
  <2>2. \A x \in D : x + N >= N + 1
    BY <1>0
  <2> QED BY <2>1, <2>2
<1> QED BY <1>10, <1>12, <1>14 DEF Totals

(* Two entries are the dots: direntDataSize's own case for an empty        *)
(* directory gives what the sum gives.                                     *)
LEMMA OnlyDots ==
    ASSUME Names, N = 2
    PROVE  LastFitting(1) = 2 /\ Used(1, 2) = 2 * DirentSize + 1 + 2
<1>1. N \in Nat /\ DOMAIN names = 1..N /\ \A k \in 1..N : names[k].len \in Nat
  BY NamesFacts
<1>2. PICK i, j \in DOMAIN names : names[i].len = 1 /\ names[j].len = 2
  BY DEF Names
<1>3. (i = 1 /\ j = 2) \/ (i = 2 /\ j = 1)
  BY <1>1, <1>2
<1>4. names[1].len + names[2].len = 3
  BY <1>2, <1>3
<1>5. Used(1, 1) = DirentSize + names[1].len
      /\ Used(1, 1 + 1) = Used(1, 1) + DirentSize + names[1 + 1].len
  <2>1. 1 \in 1..N /\ 1 \in 1..N /\ 1 < N
    OBVIOUS
  <2> QED BY <2>1, UsedFacts
<1>6. Used(1, 2) = 2 * DirentSize + 1 + 2
  <2>1. Used(1, 2) = (DirentSize + names[1].len) + DirentSize + names[2].len
    BY <1>5
  <2> QED BY <1>1, <1>4, <2>1, Sizes
<1>7. Used(1, 2) <= BlockSize
  BY <1>6, Sizes
<1>8. LastFitting(1) \in 1..N /\ (2 \in 1..N => 2 <= LastFitting(1))
  <2>1. 1 \in 1..N
    OBVIOUS
  <2> QED BY <1>7, <2>1, LastFittingFacts
<1> QED BY <1>6, <1>8

LEMMA DataSizeIs ==
    ASSUME Names
    PROVE  \E size : Totals(size) /\ DirentDataSize = size[1]
<1>1. PICK size : Totals(size) /\ (N # 2 => DirentDataSize = size[1])
  BY TotalsIs
<1>2. ASSUME N = 2
      PROVE  DirentDataSize = size[1]
  <2>1. LastFitting(1) = 2 /\ Used(1, 2) = 2 * DirentSize + 1 + 2
    BY <1>2, OnlyDots
  <2>2. size[1] = Share(1) + size[LastFitting(1) + 1] /\ size[N + 1] = 0
    BY <1>1, <1>2 DEF Totals
  <2>3. Share(1) = Used(1, 2)
    BY <1>2, <2>1 DEF Share
  <2>4. size[1] = Used(1, 2) + 0 /\ Used(1, 2) \in Nat
    BY <1>2, <2>1, <2>2, <2>3, Sizes
  <2>5. DirentDataSize = 2 * DirentSize + 1 + 2
    BY <1>2 DEF DirentDataSize
  <2> QED BY <2>1, <2>4, <2>5
<1> QED BY <1>1, <1>2

LEMMA ShareWritten ==
    ASSUME Names, NEW first, Laid(first, Len(blocks), next), NEW b \in 1..Len(blocks)
    PROVE  /\ Bytes(blocks[b]) = Share(first[b]) /\ Bytes(blocks[b]) \in Nat
           /\ first[b] \in 1..N /\ LastFitting(first[b]) + 1 = first[b + 1]
           /\ first[b + 1] <= N => Bytes(blocks[b]) = BlockSize
<1>1. /\ first[b] \in 1..N /\ first[b + 1] \in (first[b] + 1)..(N + 1)
      /\ LastFitting(first[b]) = first[b + 1] - 1
      /\ Bytes(blocks[b]) = IF first[b + 1] <= N THEN BlockSize ELSE Used(first[b], N)
  BY BlockView
<1>2. N \in Nat
  BY NamesFacts
<1>3. LastFitting(first[b]) + 1 = first[b + 1] /\ (LastFitting(first[b]) < N <=> first[b + 1] <= N)
  BY <1>1, <1>2
<1>4. Bytes(blocks[b]) = Share(first[b])
  BY <1>1, <1>3 DEF Share
<1>5. Share(first[b]) \in Nat
  BY <1>1, ShareFacts
<1> QED BY <1>1, <1>3, <1>4, <1>5

LEMMA WrittenIs ==
    ASSUME Names, Len(blocks) \in Nat, NEW first, Laid(first, Len(blocks), next)
    PROVE  \E f : /\ Written = f[Len(blocks)] /\ f[0] = 0
                  /\ \A b \in 1..Len(blocks) : /\ f[b] = f[b - 1] + Bytes(blocks[b])
                  /\ \A b \in 0..Len(blocks) : f[b] \in Nat
<1> DEFINE n == Len(blocks)
           Turn(h) == [b \in 0..Len(blocks) |-> IF b = 0 THEN 0 ELSE h[b - 1] + Bytes(blocks[b])]
           sum == CHOOSE h : h = Turn(h)
           g == [b \in 1..n |-> Bytes(blocks[b])]
<1>1. \A b \in 1..n : g[b] \in Nat /\ g[b] = Bytes(blocks[b])
  BY ShareWritten
<1> HIDE DEF g
<1>2. PICK f \in [0..n -> Nat] : f[0] = 0 /\ \A b \in 1..n : f[b] = f[b - 1] + g[b]
  BY <1>1, PartialSums
<1>3. f = Turn(f)
  <2>1. ASSUME NEW b \in 0..n
        PROVE  f[b] = IF b = 0 THEN 0 ELSE f[b - 1] + Bytes(blocks[b])
    <3>1. b # 0 => b \in 1..n
      OBVIOUS
    <3> QED BY <1>1, <1>2, <3>1
  <2> QED BY <1>2, <2>1
<1>4. sum = Turn(sum)
  <2> HIDE DEF Turn
  <2> QED BY <1>3
<1>5. Written = sum[n]
  BY DEF Written
<1> HIDE DEF sum
<1>6. \A b \in 0..n : sum[b] = IF b = 0 THEN 0 ELSE sum[b - 1] + Bytes(blocks[b])
  BY <1>4
<1>7. sum[0] = 0 /\ \A b \in 1..n : sum[b] = sum[b - 1] + Bytes(blocks[b])
  BY <1>6
<1> DEFINE T == {b \in 0..n : sum[b] \in Nat}
<1>8. 0..n \subseteq T
  <2>1. 0 \in T
    BY <1>7
  <2>2. ASSUME NEW b \in 0..n, b \in T, b < n
        PROVE  b + 1 \in T
    <3>1. b + 1 \in 1..n /\ (b + 1) - 1 = b
      BY <2>2
    <3>2. sum[b + 1] = sum[b] + Bytes(blocks[b + 1]) /\ Bytes(blocks[b + 1]) \in Nat
      BY <1>1, <1>7, <3>1
    <3> QED BY <2>2, <3>1, <3>2
  <2> HIDE DEF T
  <2> QED BY <2>1, <2>2, BoundedInduction
<1> QED BY <1>5, <1>7, <1>8

LEMMA InvPacked == IInv => PackedAsPlanned
<1> SUFFICES ASSUME IInv, Packed
             PROVE  /\ Written = DirentDataSize
                    /\ \A b \in 1..(Len(blocks) - 1) : Bytes(blocks[b]) = BlockSize
  BY DEF PackedAsPlanned, JustPacked
<1> DEFINE n == Len(blocks)
<1>0. Names /\ N \in Nat /\ n \in Nat /\ next = N + 1
  BY InvNames, NamesFacts DEF IInv, Packed
<1>1. PICK first : Laid(first, n, next)
  BY DEF IInv
<1>2. first[1] = 1 /\ first[n + 1] = N + 1
  BY <1>0, <1>1 DEF Laid
<1>3. PICK size : Totals(size) /\ DirentDataSize = size[1]
  BY <1>0, DataSizeIs
<1>4. PICK f : /\ Written = f[n] /\ f[0] = 0
               /\ \A b \in 1..n : f[b] = f[b - 1] + Bytes(blocks[b])
               /\ \A b \in 0..n : f[b] \in Nat
  BY <1>0, <1>1, WrittenIs
<1> DEFINE T == {b \in 0..n : first[b + 1] \in 1..(N + 1) /\ f[b] + size[first[b + 1]] = size[1]}
<1>5. \A x \in 1..(N + 1) : size[x] \in Nat
  BY <1>3 DEF Totals
<1>6. 0 \in T
  BY <1>0, <1>2, <1>4, <1>5
<1>7. ASSUME NEW b \in 0..n, b \in T, b < n
      PROVE  b + 1 \in T
  <2> DEFINE x == first[b + 1]
             y == first[(b + 1) + 1]
  <2>1. b + 1 \in 1..n /\ (b + 1) - 1 = b
    BY <1>0, <1>7
  <2>2. /\ Bytes(blocks[b + 1]) = Share(x) /\ Share(x) \in Nat
        /\ x \in 1..N /\ LastFitting(x) + 1 = y
    BY <1>0, <1>1, <2>1, ShareWritten
  <2>3. y \in 1..(N + 1)
    <3> HIDE DEF x, y
    <3>1. LastFitting(x) + 1 \in (x + 1)..(N + 1)
      BY <1>0, <2>2, ShareFacts
    <3> QED BY <1>0, <2>2, <3>1
  <2>4. f[b + 1] = f[b] + Share(x) /\ f[b] \in Nat /\ f[b + 1] \in Nat
    <3>1. f[b + 1] = f[(b + 1) - 1] + Bytes(blocks[b + 1])
      BY <1>4, <2>1
    <3> QED BY <1>0, <1>4, <2>1, <2>2, <3>1
  <2>5. size[x] = Share(x) + size[y] /\ size[y] \in Nat
    <3>1. size[x] = Share(x) + size[LastFitting(x) + 1]
      BY <1>3, <2>2 DEF Totals
    <3> QED BY <1>5, <2>2, <2>3, <3>1
  <2>6. f[b] + size[x] = size[1]
    BY <1>7
  <2>7. b + 1 \in 0..n
    BY <1>0, <2>1
  <2> HIDE DEF x, y
  <2>8. f[b + 1] + size[y] = size[1]
    BY <2>2, <2>4, <2>5, <2>6
  <2> QED BY <2>3, <2>7, <2>8 DEF y
<1>8. n \in T
  <2> HIDE DEF T
  <2>1. 0..n \subseteq T
    BY <1>0, <1>6, <1>7, BoundedInduction
  <2> QED BY <1>0, <2>1
<1>9. Written = DirentDataSize
  <2>1. f[n] + size[N + 1] = size[1] /\ f[n] \in Nat
    BY <1>0, <1>2, <1>4, <1>8
  <2>2. size[N + 1] = 0
    BY <1>3 DEF Totals
  <2> QED BY <1>3, <1>4, <2>1, <2>2
<1>10. ASSUME NEW b \in 1..(n - 1)
       PROVE  Bytes(blocks[b]) = BlockSize
  <2>1. b \in 1..n /\ b + 1 \in 1..(n + 1) /\ n + 1 \in 1..(n + 1) /\ b + 1 < n + 1
    BY <1>0
  <2>2. first[b + 1] < first[n + 1] /\ first[b + 1] \in 1..(N + 1)
    BY <1>0, <1>1, <2>1, FirstGrows
  <2>3. first[b + 1] <= N
    BY <1>0, <1>2, <2>2
  <2> QED BY <1>0, <1>1, <2>1, <2>3, ShareWritten
<1> QED BY <1>9, <1>10

-----------------------------------------------------------------------------
(* The two binary searches, of n things: right and left are what remains   *)
(* of a window when the middle is passed or left behind.                   *)
RightOf(w) == [lo |-> Mid(w) + 1, hi |-> w.hi, last |-> Mid(w) + 1]
RightIn(w) == [lo |-> Mid(w) + 1, hi |-> w.hi, last |-> w.last]
LeftOf(w) == [lo |-> w.lo, hi |-> Mid(w), last |-> w.last]
Whole(n) == [lo |-> 0, hi |-> n, last |-> 0]

Bisects(s, n, A) ==
    \A w \in Window(n) :
      s[w] = IF w.lo >= w.hi THEN w.last
             ELSE IF Mid(w) + 1 \in A THEN s[RightOf(w)] ELSE s[LeftOf(w)]
Halves(s, n, E, A, nid) ==
    \A w \in Window(n) :
      s[w] = IF w.lo >= w.hi THEN 0
             ELSE IF Mid(w) + 1 \in E THEN nid[Mid(w) + 1]
             ELSE IF Mid(w) + 1 \in A THEN s[RightIn(w)] ELSE s[LeftOf(w)]

LEMMA MidFacts ==
    ASSUME NEW n \in Nat, NEW w \in Window(n)
    PROVE  /\ w.lo \in 0..n /\ w.hi \in 0..n /\ w.last \in 0..n
           /\ w.lo < w.hi =>
                /\ Mid(w) \in w.lo..(w.hi - 1) /\ Mid(w) + 1 \in 1..n
                /\ RightOf(w) \in Window(n) /\ RightIn(w) \in Window(n) /\ LeftOf(w) \in Window(n)
                /\ RightOf(w) = [w EXCEPT !.lo = Mid(w) + 1, !.last = Mid(w) + 1]
                /\ RightIn(w) = [w EXCEPT !.lo = Mid(w) + 1]
                /\ LeftOf(w) = [w EXCEPT !.hi = Mid(w)]
<1>1. w.lo \in 0..n /\ w.hi \in 0..n /\ w.last \in 0..n
  BY DEF Window
<1>2. ASSUME w.lo < w.hi
      PROVE  Mid(w) \in w.lo..(w.hi - 1) /\ Mid(w) + 1 \in 1..n
  <2> DEFINE d == w.hi - w.lo
             h == d \div 2
  <2>1. d \in Nat /\ d > 0
    BY <1>1, <1>2
  <2> HIDE DEF d
  <2>2. h \in Nat /\ h * 2 <= d
    BY <2>1, Division
  <2>3. Mid(w) = w.lo + h
    BY DEF Mid, d
  <2> HIDE DEF h
  <2>4. h < d
    BY <2>1, <2>2
  <2> QED BY <1>1, <1>2, <2>2, <2>3, <2>4 DEF d
<1>3. ASSUME w.lo < w.hi
      PROVE  /\ RightOf(w) \in Window(n) /\ RightIn(w) \in Window(n) /\ LeftOf(w) \in Window(n)
             /\ RightOf(w) = [w EXCEPT !.lo = Mid(w) + 1, !.last = Mid(w) + 1]
             /\ RightIn(w) = [w EXCEPT !.lo = Mid(w) + 1]
             /\ LeftOf(w) = [w EXCEPT !.hi = Mid(w)]
  <2> DEFINE x == Mid(w)
  <2>1. x \in 0..n /\ x + 1 \in 0..n
    BY <1>1, <1>2, <1>3
  <2> HIDE DEF x
  <2>2. [lo |-> x + 1, hi |-> w.hi, last |-> x + 1] \in Window(n)
        /\ [lo |-> x + 1, hi |-> w.hi, last |-> w.last] \in Window(n)
        /\ [lo |-> w.lo, hi |-> x, last |-> w.last] \in Window(n)
    BY <1>1, <2>1 DEF Window
  <2>3. w \in [{"lo", "hi", "last"} -> 0..n]
    BY DEF Window
  <2>4. [lo |-> x + 1, hi |-> w.hi, last |-> x + 1] = [w EXCEPT !.lo = x + 1, !.last = x + 1]
    <3> DEFINE u == [lo |-> x + 1, hi |-> w.hi, last |-> w.last]
    <3>1. u = [w EXCEPT !.lo = x + 1] /\ u \in [{"lo", "hi", "last"} -> 0..n]
      BY <2>1, <2>3
    <3>2. [lo |-> x + 1, hi |-> w.hi, last |-> x + 1] = [u EXCEPT !.last = x + 1]
      OBVIOUS
    <3>3. [w EXCEPT !.lo = x + 1, !.last = x + 1] = [[w EXCEPT !.lo = x + 1] EXCEPT !.last = x + 1]
      OBVIOUS
    <3> HIDE DEF u
    <3> QED BY <3>1, <3>2, <3>3, Zenon
  <2>5. [lo |-> x + 1, hi |-> w.hi, last |-> w.last] = [w EXCEPT !.lo = x + 1]
    BY <2>3
  <2>6. [lo |-> w.lo, hi |-> x, last |-> w.last] = [w EXCEPT !.hi = x]
    BY <2>3
  <2> QED BY <2>2, <2>4, <2>5, <2>6 DEF RightOf, RightIn, LeftOf, x
<1> QED BY <1>1, <1>2, <1>3

(* How much a window still has.                                            *)
Width(w) == IF w.lo < w.hi THEN w.hi - w.lo ELSE 0

LEMMA Narrows ==
    ASSUME NEW n \in Nat, NEW w \in Window(n)
    PROVE  /\ Width(w) \in 0..n
           /\ w.lo < w.hi => /\ Width(RightOf(w)) < Width(w) /\ Width(RightIn(w)) < Width(w)
                             /\ Width(LeftOf(w)) < Width(w)
<1>1. w.lo \in 0..n /\ w.hi \in 0..n
  BY MidFacts
<1>2. Width(w) \in 0..n
  BY <1>1 DEF Width
<1>3. ASSUME w.lo < w.hi
      PROVE  /\ Width(RightOf(w)) < Width(w) /\ Width(RightIn(w)) < Width(w)
             /\ Width(LeftOf(w)) < Width(w)
  <2>1. Mid(w) \in w.lo..(w.hi - 1)
    BY <1>3, MidFacts
  <2>2. /\ RightOf(w).lo = Mid(w) + 1 /\ RightOf(w).hi = w.hi
        /\ RightIn(w).lo = Mid(w) + 1 /\ RightIn(w).hi = w.hi
        /\ LeftOf(w).lo = w.lo /\ LeftOf(w).hi = Mid(w)
    BY DEF RightOf, RightIn, LeftOf
  <2> QED BY <1>1, <1>3, <2>1, <2>2 DEF Width
<1> QED BY <1>2, <1>3

LEMMA WholeIs ==
    ASSUME NEW n \in Nat
    PROVE  Whole(n) \in Window(n) /\ Whole(n).lo = 0 /\ Whole(n).hi = n /\ Whole(n).last = 0
  BY DEF Whole, Window

LEMMA BisectExists ==
    ASSUME NEW n \in Nat, NEW A
    PROVE  \E f : Bisects(f, n, A) /\ f = [w \in Window(n) |-> f[w]]
<1> DEFINE D == Window(n)
           V == 0..n
           leaf == {w \in D : w.lo >= w.hi}
           On(w) == IF w.lo >= w.hi THEN w ELSE IF Mid(w) + 1 \in A THEN RightOf(w) ELSE LeftOf(w)
           m == [w \in D |-> Width(w)]
           v == [w \in D |-> w.last]
           nx == [w \in D |-> On(w)]
           g == [p \in D \X V |-> p[2]]
<1>1. ASSUME NEW w \in D
      PROVE  /\ w.lo \in 0..n /\ w.hi \in 0..n /\ w.last \in V /\ On(w) \in D /\ Width(w) \in 0..n
             /\ w \notin leaf => Width(On(w)) < Width(w)
  <2>1. w.lo \in 0..n /\ w.hi \in 0..n /\ w.last \in V /\ Width(w) \in 0..n
    BY MidFacts, Narrows
  <2>2. CASE w.lo >= w.hi
    BY <2>1, <2>2
  <2>3. CASE ~(w.lo >= w.hi)
    <3>1. w.lo < w.hi
      BY <2>1, <2>3
    <3>2. RightOf(w) \in D /\ LeftOf(w) \in D
          /\ Width(RightOf(w)) < Width(w) /\ Width(LeftOf(w)) < Width(w)
      BY <3>1, MidFacts, Narrows
    <3>3. On(w) = RightOf(w) \/ On(w) = LeftOf(w)
      BY <2>3
    <3> HIDE DEF On, D
    <3> QED BY <2>1, <3>2, <3>3
  <2> QED BY <2>2, <2>3
<1>2. Recursive(D, V, n, m, leaf, v, nx, g)
  <2> HIDE DEF D, On
  <2>1. m \in [D -> 0..n] /\ v \in [D -> V] /\ nx \in [D -> D]
    BY <1>1
  <2>2. g \in [D \X V -> V]
    OBVIOUS
  <2>3. \A w \in D : w \notin leaf => m[nx[w]] < m[w]
    <3> SUFFICES ASSUME NEW w \in D, w \notin leaf
                 PROVE  m[nx[w]] < m[w]
      OBVIOUS
    <3> HIDE DEF leaf
    <3>1. nx[w] = On(w) /\ On(w) \in D /\ Width(On(w)) < Width(w)
      BY <1>1
    <3>2. m[On(w)] = Width(On(w)) /\ m[w] = Width(w)
      BY <3>1
    <3> QED BY <3>1, <3>2
  <2> HIDE DEF m, v, nx, g, leaf, V
  <2> QED BY <2>1, <2>2, <2>3 DEF Recursive
<1>3. PICK f : Solves(f, D, V, leaf, v, nx, g)
  <2> HIDE DEF D, V, leaf, m, v, nx, g
  <2> QED BY <1>2, Recursion
<1>4. /\ f \in [D -> V]
      /\ \A w \in D : f[w] = IF w \in leaf THEN v[w] ELSE g[<<w, f[nx[w]]>>]
  BY <1>3 DEF Solves
<1>5. ASSUME NEW w \in D
      PROVE  f[w] = IF w.lo >= w.hi THEN w.last
                    ELSE IF Mid(w) + 1 \in A THEN f[RightOf(w)] ELSE f[LeftOf(w)]
  <2>1. CASE w.lo >= w.hi
    <3>1. w \in leaf /\ v[w] = w.last
      BY <2>1
    <3> HIDE DEF leaf, v, g, nx, D
    <3> QED BY <1>4, <2>1, <3>1
  <2>2. CASE ~(w.lo >= w.hi)
    <3>1. w \notin leaf /\ nx[w] = On(w) /\ On(w) \in D
      <4> HIDE DEF D, On
      <4> QED BY <1>1, <2>2
    <3>2. f[On(w)] \in V
      <4> HIDE DEF D, V, On
      <4> QED BY <1>4, <3>1
    <3>3. g[<<w, f[On(w)]>>] = f[On(w)]
      <4> HIDE DEF D, V, On
      <4> QED BY <3>2
    <3>4. f[w] = f[On(w)]
      <4> HIDE DEF D, V, On, g, nx, leaf, v
      <4> QED BY <1>4, <3>1, <3>3
    <3> QED BY <2>2, <3>4
  <2> QED BY <2>1, <2>2
<1>6. f = [w \in Window(n) |-> f[w]]
  BY <1>4
<1> QED BY <1>5, <1>6 DEF Bisects

(* The last of those passed, when they come first.                         *)
LEMMA BisectFinds ==
    ASSUME NEW n \in Nat, NEW A, NEW s, Bisects(s, n, A),
           \A i, j \in 1..n : i <= j /\ j \in A => i \in A
    PROVE  /\ s[Whole(n)] \in 0..n
           /\ \A j \in 1..n : j \in A <=> j <= s[Whole(n)]
<1> DEFINE Open(w) == /\ w.lo <= w.hi /\ w.last = w.lo
                      /\ \A j \in 1..n : (j <= w.lo => j \in A) /\ (j > w.hi => j \notin A)
           Right(r) == r \in 0..n /\ \A j \in 1..n : j \in A <=> j <= r
           T == {d \in 0..n : \A w \in Window(n) : Open(w) /\ w.hi - w.lo <= d => Right(s[w])}
<1>1. \A w \in Window(n) :
        s[w] = IF w.lo >= w.hi THEN w.last
               ELSE IF Mid(w) + 1 \in A THEN s[RightOf(w)] ELSE s[LeftOf(w)]
  BY DEF Bisects
<1>2. ASSUME NEW w \in Window(n), Open(w), w.lo >= w.hi
      PROVE  Right(s[w])
  <2>1. w.lo \in 0..n /\ w.hi \in 0..n
    BY MidFacts
  <2>2. s[w] = w.lo /\ w.lo = w.hi
    BY <1>1, <1>2, <2>1
  <2> QED BY <1>2, <2>1, <2>2
<1>3. 0 \in T
  <2>1. ASSUME NEW w \in Window(n), Open(w), w.hi - w.lo <= 0
        PROVE  Right(s[w])
    <3>1. w.lo \in 0..n /\ w.hi \in 0..n
      BY MidFacts
    <3>2. w.lo >= w.hi
      BY <2>1, <3>1
    <3> QED BY <1>2, <2>1, <3>2
  <2> HIDE DEF Open, Right
  <2> QED BY <2>1
<1>4. ASSUME NEW d \in 0..n, d \in T, d < n
      PROVE  d + 1 \in T
  <2>1. ASSUME NEW w \in Window(n), Open(w), w.hi - w.lo <= d + 1
        PROVE  Right(s[w])
    <3>1. CASE w.lo >= w.hi
      BY <1>2, <2>1, <3>1
    <3>2. CASE ~(w.lo >= w.hi)
      <4>a. w.lo \in 0..n /\ w.hi \in 0..n
        BY MidFacts
      <4>0. w.lo \in 0..n /\ w.hi \in 0..n /\ w.lo < w.hi
        BY <3>2, <4>a
      <4>1. /\ Mid(w) \in w.lo..(w.hi - 1) /\ Mid(w) + 1 \in 1..n
            /\ RightOf(w) \in Window(n) /\ LeftOf(w) \in Window(n)
        BY <4>0, MidFacts
      <4>2. /\ RightOf(w).lo = Mid(w) + 1 /\ RightOf(w).hi = w.hi /\ RightOf(w).last = Mid(w) + 1
            /\ LeftOf(w).lo = w.lo /\ LeftOf(w).hi = Mid(w) /\ LeftOf(w).last = w.last
        BY DEF RightOf, LeftOf
      <4>3. CASE Mid(w) + 1 \in A
        <5>1. s[w] = s[RightOf(w)]
          BY <1>1, <3>2, <4>3
        <5>2. Open(RightOf(w)) /\ RightOf(w).hi - RightOf(w).lo <= d
          BY <1>4, <2>1, <4>0, <4>1, <4>2, <4>3
        <5> HIDE DEF Open, Right
        <5>3. Right(s[RightOf(w)])
          BY <1>4, <4>1, <5>2
        <5> QED BY <5>1, <5>3
      <4>4. CASE Mid(w) + 1 \notin A
        <5>1. s[w] = s[LeftOf(w)]
          BY <1>1, <3>2, <4>4
        <5>2. \A j \in 1..n : j > Mid(w) => j \notin A
          <6>1. \A j \in 1..n : j > Mid(w) => Mid(w) + 1 <= j
            BY <4>0, <4>1
          <6> QED BY <4>1, <4>4, <6>1
        <5>3. Open(LeftOf(w)) /\ LeftOf(w).hi - LeftOf(w).lo <= d
          BY <1>4, <2>1, <4>0, <4>1, <4>2, <5>2
        <5> HIDE DEF Open, Right
        <5>4. Right(s[LeftOf(w)])
          BY <1>4, <4>1, <5>3
        <5> QED BY <5>1, <5>4
      <4> QED BY <4>3, <4>4
    <3> QED BY <3>1, <3>2
  <2>2. d + 1 \in 0..n
    BY <1>4
  <2> HIDE DEF Open, Right
  <2> QED BY <2>1, <2>2
<1>5. 0..n \subseteq T
  <2> HIDE DEF T
  <2> QED BY <1>3, <1>4, BoundedInduction
<1>6. n \in T
  <2> HIDE DEF T
  <2> QED BY <1>5
<1>7. Open(Whole(n)) /\ Whole(n) \in Window(n) /\ Whole(n).hi - Whole(n).lo <= n
  BY WholeIs
<1>8. Right(s[Whole(n)])
  <2> HIDE DEF Open, Right
  <2> QED BY <1>6, <1>7
<1> QED BY <1>8

LEMMA HalvingExists ==
    ASSUME NEW n \in Nat, NEW E, NEW A, NEW nid
    PROVE  \E f : Halves(f, n, E, A, nid) /\ f = [w \in Window(n) |-> f[w]]
<1> DEFINE D == Window(n)
           V == {0} \cup {nid[k] : k \in 1..n}
           Leaf(w) == w.lo >= w.hi \/ Mid(w) + 1 \in E
           leaf == {w \in D : Leaf(w)}
           On(w) == IF Leaf(w) THEN w ELSE IF Mid(w) + 1 \in A THEN RightIn(w) ELSE LeftOf(w)
           m == [w \in D |-> Width(w)]
           v == [w \in D |-> IF w.lo >= w.hi THEN 0 ELSE nid[Mid(w) + 1]]
           nx == [w \in D |-> On(w)]
           g == [p \in D \X V |-> p[2]]
<1>1. ASSUME NEW w \in D
      PROVE  /\ On(w) \in D /\ Width(w) \in 0..n
             /\ (IF w.lo >= w.hi THEN 0 ELSE nid[Mid(w) + 1]) \in V
             /\ ~Leaf(w) => Width(On(w)) < Width(w)
  <2>1. w.lo \in 0..n /\ w.hi \in 0..n /\ Width(w) \in 0..n
    BY MidFacts, Narrows
  <2>2. CASE w.lo >= w.hi
    BY <2>1, <2>2
  <2>3. CASE ~(w.lo >= w.hi)
    <3>1. w.lo < w.hi
      BY <2>1, <2>3
    <3>2. RightIn(w) \in D /\ LeftOf(w) \in D /\ Mid(w) + 1 \in 1..n
          /\ Width(RightIn(w)) < Width(w) /\ Width(LeftOf(w)) < Width(w)
      BY <3>1, MidFacts, Narrows
    <3>3. (On(w) = w /\ Leaf(w)) \/ On(w) = RightIn(w) \/ On(w) = LeftOf(w)
      OBVIOUS
    <3>4. nid[Mid(w) + 1] \in V
      BY <3>2
    <3> HIDE DEF On, D, V, Leaf
    <3> QED BY <2>1, <2>3, <3>2, <3>3, <3>4
  <2> QED BY <2>2, <2>3
<1>2. Recursive(D, V, n, m, leaf, v, nx, g)
  <2> HIDE DEF D, On, V, Leaf
  <2>1. m \in [D -> 0..n] /\ v \in [D -> V] /\ nx \in [D -> D]
    BY <1>1
  <2>2. g \in [D \X V -> V]
    OBVIOUS
  <2>3. \A w \in D : w \notin leaf => m[nx[w]] < m[w]
    <3> SUFFICES ASSUME NEW w \in D, w \notin leaf
                 PROVE  m[nx[w]] < m[w]
      OBVIOUS
    <3>1. nx[w] = On(w) /\ On(w) \in D /\ Width(On(w)) < Width(w)
      BY <1>1
    <3> HIDE DEF leaf, nx
    <3>2. m[On(w)] = Width(On(w)) /\ m[w] = Width(w)
      BY <3>1
    <3> QED BY <3>1, <3>2
  <2> HIDE DEF m, v, nx, g, leaf
  <2> QED BY <2>1, <2>2, <2>3 DEF Recursive
<1>3. PICK f : Solves(f, D, V, leaf, v, nx, g)
  <2> HIDE DEF D, V, leaf, m, v, nx, g
  <2> QED BY <1>2, Recursion
<1>4. /\ f \in [D -> V]
      /\ \A w \in D : f[w] = IF w \in leaf THEN v[w] ELSE g[<<w, f[nx[w]]>>]
  BY <1>3 DEF Solves
<1>5. ASSUME NEW w \in D
      PROVE  f[w] = IF w.lo >= w.hi THEN 0
                    ELSE IF Mid(w) + 1 \in E THEN nid[Mid(w) + 1]
                    ELSE IF Mid(w) + 1 \in A THEN f[RightIn(w)] ELSE f[LeftOf(w)]
  <2>1. CASE Leaf(w)
    <3>1. w \in leaf /\ v[w] = IF w.lo >= w.hi THEN 0 ELSE nid[Mid(w) + 1]
      <4> HIDE DEF Leaf
      <4> QED BY <2>1
    <3> HIDE DEF leaf, v, g, nx, D
    <3>2. f[w] = IF w.lo >= w.hi THEN 0 ELSE nid[Mid(w) + 1]
      BY <1>4, <3>1
    <3> QED BY <2>1, <3>2
  <2>2. CASE ~Leaf(w)
    <3>1. w \notin leaf /\ nx[w] = On(w) /\ On(w) \in D
      <4> HIDE DEF D, On, Leaf
      <4> QED BY <1>1, <2>2
    <3>2. f[On(w)] \in V
      <4> HIDE DEF D, V, On
      <4> QED BY <1>4, <3>1
    <3>3. g[<<w, f[On(w)]>>] = f[On(w)]
      <4> HIDE DEF D, V, On
      <4> QED BY <3>2
    <3>4. f[w] = f[On(w)]
      <4> HIDE DEF D, V, On, g, nx, leaf, v
      <4> QED BY <1>4, <3>1, <3>3
    <3> QED BY <2>2, <3>4
  <2> QED BY <2>1, <2>2
<1>6. f = [w \in Window(n) |-> f[w]]
  BY <1>4
<1> QED BY <1>5, <1>6 DEF Halves

(* What is there is found, and only that.                                  *)
LEMMA HalvingFinds ==
    ASSUME NEW n \in Nat, NEW E, NEW A, NEW nid, NEW s, Halves(s, n, E, A, nid)
    PROVE  /\ (\A j \in 1..n : j \notin E) => s[Whole(n)] = 0
           /\ \A p \in 1..n :
                (\A j \in 1..n : (j \in E <=> j = p) /\ (j \in A <=> j < p)) => s[Whole(n)] = nid[p]
<1> DEFINE None == \A j \in 1..n : j \notin E
           One(p) == \A j \in 1..n : (j \in E <=> j = p) /\ (j \in A <=> j < p)
           Right(w) == /\ None => s[w] = 0
                       /\ \A p \in 1..n : One(p) /\ w.lo < p /\ p <= w.hi => s[w] = nid[p]
           T == {d \in 0..n : \A w \in Window(n) : w.hi - w.lo <= d => Right(w)}
<1>1. \A w \in Window(n) :
        s[w] = IF w.lo >= w.hi THEN 0
               ELSE IF Mid(w) + 1 \in E THEN nid[Mid(w) + 1]
               ELSE IF Mid(w) + 1 \in A THEN s[RightIn(w)] ELSE s[LeftOf(w)]
  BY DEF Halves
<1>2. ASSUME NEW w \in Window(n), w.lo >= w.hi
      PROVE  Right(w)
  <2>1. w.lo \in 0..n /\ w.hi \in 0..n
    BY MidFacts
  <2>2. s[w] = 0
    BY <1>1, <1>2
  <2>3. \A p \in 1..n : ~(w.lo < p /\ p <= w.hi)
    BY <1>2, <2>1
  <2> QED BY <2>2, <2>3
<1>3. 0 \in T
  <2>1. ASSUME NEW w \in Window(n), w.hi - w.lo <= 0
        PROVE  Right(w)
    <3>1. w.lo \in 0..n /\ w.hi \in 0..n
      BY MidFacts
    <3>2. w.lo >= w.hi
      BY <2>1, <3>1
    <3> QED BY <1>2, <3>2
  <2> HIDE DEF Right
  <2> QED BY <2>1
<1>4. ASSUME NEW d \in 0..n, d \in T, d < n
      PROVE  d + 1 \in T
  <2>1. ASSUME NEW w \in Window(n), w.hi - w.lo <= d + 1
        PROVE  Right(w)
    <3>1. CASE w.lo >= w.hi
      BY <1>2, <3>1
    <3>2. CASE ~(w.lo >= w.hi)
      <4>a. w.lo \in 0..n /\ w.hi \in 0..n
        BY MidFacts
      <4>0. w.lo \in 0..n /\ w.hi \in 0..n /\ w.lo < w.hi
        BY <3>2, <4>a
      <4>1. /\ Mid(w) \in w.lo..(w.hi - 1) /\ Mid(w) + 1 \in 1..n
            /\ RightIn(w) \in Window(n) /\ LeftOf(w) \in Window(n)
        BY <4>0, MidFacts
      <4>2. /\ RightIn(w).lo = Mid(w) + 1 /\ RightIn(w).hi = w.hi
            /\ LeftOf(w).lo = w.lo /\ LeftOf(w).hi = Mid(w)
        BY DEF RightIn, LeftOf
      <4>3. RightIn(w).hi - RightIn(w).lo <= d /\ LeftOf(w).hi - LeftOf(w).lo <= d
        BY <1>4, <2>1, <4>0, <4>1, <4>2
      <4>4. Right(RightIn(w)) /\ Right(LeftOf(w))
        <5> HIDE DEF Right
        <5> QED BY <1>4, <4>1, <4>3
      <4>5. ASSUME None
            PROVE  s[w] = 0
        <5>1. Mid(w) + 1 \notin E
          BY <4>1, <4>5
        <5>2. s[w] = s[RightIn(w)] \/ s[w] = s[LeftOf(w)]
          BY <1>1, <3>2, <5>1
        <5>3. s[RightIn(w)] = 0 /\ s[LeftOf(w)] = 0
          <6> HIDE DEF None
          <6> QED BY <4>4, <4>5
        <5> QED BY <5>2, <5>3
      <4>6. ASSUME NEW p \in 1..n, One(p), w.lo < p, p <= w.hi
            PROVE  s[w] = nid[p]
        <5> DEFINE x == Mid(w) + 1
        <5>0. x \in 1..n /\ x = Mid(w) + 1
          BY <4>1
        <5>1. (x \in E <=> x = p) /\ (x \in A <=> x < p)
          BY <4>6, <5>0
        <5>2. CASE x = p
          <6>1. x \in E
            BY <5>1, <5>2
          <6> QED BY <1>1, <3>2, <5>2, <6>1
        <5>3. CASE x < p
          <6>1. x \notin E /\ x \in A
            BY <5>0, <5>1, <5>3
          <6>2. s[w] = s[RightIn(w)]
            BY <1>1, <3>2, <6>1
          <6>3. RightIn(w).lo < p /\ p <= RightIn(w).hi
            BY <4>2, <4>6, <5>3
          <6> HIDE DEF One
          <6>4. s[RightIn(w)] = nid[p]
            BY <4>4, <4>6, <6>3
          <6> QED BY <6>2, <6>4
        <5>4. CASE x > p
          <6>1. x \notin E /\ x \notin A
            BY <5>0, <5>1, <5>4
          <6>2. s[w] = s[LeftOf(w)]
            BY <1>1, <3>2, <6>1
          <6>3. LeftOf(w).lo < p /\ p <= LeftOf(w).hi
            BY <4>0, <4>1, <4>2, <4>6, <5>4
          <6> HIDE DEF One
          <6>4. s[LeftOf(w)] = nid[p]
            BY <4>4, <4>6, <6>3
          <6> QED BY <6>2, <6>4
        <5> HIDE DEF x
        <5> QED BY <5>0, <5>2, <5>3, <5>4
      <4> HIDE DEF None, One
      <4> QED BY <4>5, <4>6
    <3> QED BY <3>1, <3>2
  <2>2. d + 1 \in 0..n
    BY <1>4
  <2> HIDE DEF Right
  <2> QED BY <2>1, <2>2
<1>5. n \in T
  <2> HIDE DEF T
  <2>1. 0..n \subseteq T
    BY <1>3, <1>4, BoundedInduction
  <2> QED BY <2>1
<1>6. Whole(n) \in Window(n) /\ Whole(n).lo = 0 /\ Whole(n).hi = n
  BY WholeIs
<1>7. Right(Whole(n))
  <2> HIDE DEF Right
  <2> QED BY <1>5, <1>6
<1>8. \A p \in 1..n : Whole(n).lo < p /\ p <= Whole(n).hi
  BY <1>6
<1> HIDE DEF None, One
<1>9. (None => s[Whole(n)] = 0) /\ \A p \in 1..n : One(p) => s[Whole(n)] = nid[p]
  BY <1>7, <1>8
<1> QED BY <1>9 DEF None, One

LEMMA BlockForIs ==
    ASSUME Names, Len(blocks) \in Nat, NEW first, Laid(first, Len(blocks), next), NEW target \in Nat
    PROVE  /\ BlockFor(target) \in 0..Len(blocks)
           /\ \A b \in 1..Len(blocks) : 2 * first[b] <= target <=> b <= BlockFor(target)
<1> DEFINE n == Len(blocks)
           A == {j \in 1..n : 2 * RankOf(NameAt(blocks[j], 1)) <= target}
           Now(h, w) == IF w.lo >= w.hi THEN w.last
                        ELSE IF 2 * RankOf(NameAt(blocks[Mid(w) + 1], 1)) <= target
                             THEN h[[w EXCEPT !.lo = Mid(w) + 1, !.last = Mid(w) + 1]]
                             ELSE h[[w EXCEPT !.hi = Mid(w)]]
           Then(h, w) == IF w.lo >= w.hi THEN w.last
                         ELSE IF Mid(w) + 1 \in A THEN h[RightOf(w)] ELSE h[LeftOf(w)]
           Turn(h) == [w \in Window(Len(blocks)) |-> Now(h, w)]
           search == CHOOSE h : h = Turn(h)
<1>1. ASSUME NEW h, NEW w \in Window(n)
      PROVE  Now(h, w) = Then(h, w)
  <2>a. w.lo \in 0..n /\ w.hi \in 0..n
    BY MidFacts
  <2>1. CASE w.lo >= w.hi
    BY <2>1
  <2>2. CASE ~(w.lo >= w.hi)
    <3>1. w.lo < w.hi
      BY <2>2, <2>a
    <3>2. Mid(w) + 1 \in 1..n
          /\ RightOf(w) = [w EXCEPT !.lo = Mid(w) + 1, !.last = Mid(w) + 1]
          /\ LeftOf(w) = [w EXCEPT !.hi = Mid(w)]
      BY <3>1, MidFacts
    <3>3. Mid(w) + 1 \in A <=> 2 * RankOf(NameAt(blocks[Mid(w) + 1], 1)) <= target
      BY <3>2
    <3> HIDE DEF A
    <3> QED BY <2>2, <3>2, <3>3, Zenon
  <2> QED BY <2>1, <2>2
<1>2. PICK f : Bisects(f, n, A) /\ f = [w \in Window(n) |-> f[w]]
  <2> HIDE DEF A
  <2> QED BY BisectExists
<1>3. f = Turn(f)
  <2>1. \A w \in Window(n) : f[w] = Then(f, w)
    <3> HIDE DEF A
    <3> QED BY <1>2 DEF Bisects
  <2> HIDE DEF Now, Then
  <2>2. \A w \in Window(n) : f[w] = Now(f, w)
    BY <1>1, <2>1
  <2> QED BY <1>2, <2>2, Zenon
<1>4. search = Turn(search)
  <2> HIDE DEF Turn
  <2> QED BY <1>3
<1>5. BlockFor(target) = search[Whole(n)]
  BY DEF BlockFor, Whole
<1> HIDE DEF search
<1>6. Bisects(search, n, A)
  <2>1. \A w \in Window(n) : search[w] = Now(search, w)
    <3> HIDE DEF Now
    <3> QED BY <1>4, Zenon
  <2>2. \A w \in Window(n) : search[w] = Then(search, w)
    <3> HIDE DEF Now, Then
    <3> QED BY <1>1, <2>1
  <2> HIDE DEF A
  <2> QED BY <2>2 DEF Bisects
<1>7. ASSUME NEW b \in 1..n
      PROVE  RankOf(NameAt(blocks[b], 1)) = first[b] /\ first[b] \in 1..N
  <2> DEFINE q == first[b] - 1
             c == first[b + 1] - first[b]
  <2>1. /\ first[b] \in 1..N /\ first[b + 1] \in (first[b] + 1)..(N + 1)
        /\ \A k \in 1..c : RankOf(NameAt(blocks[b], k)) = q + k
    BY BlockView
  <2>2. N \in Nat
    BY NamesFacts
  <2>3. 1 \in 1..c /\ q + 1 = first[b]
    BY <2>1, <2>2
  <2> QED BY <2>1, <2>3
<1>8. \A b \in 1..n : b \in A <=> 2 * first[b] <= target
  BY <1>7
<1>9. \A i, j \in 1..n : i <= j /\ j \in A => i \in A
  <2> SUFFICES ASSUME NEW i \in 1..n, NEW j \in 1..n, i <= j, 2 * first[j] <= target
               PROVE  2 * first[i] <= target
    BY <1>8
  <2>1. i \in 1..(n + 1) /\ j \in 1..(n + 1)
    OBVIOUS
  <2>2. first[i] <= first[j] /\ first[i] \in 1..(N + 1) /\ first[j] \in 1..(N + 1)
    BY <2>1, FirstGrows
  <2>3. N \in Nat
    BY NamesFacts
  <2> QED BY <2>2, <2>3
<1> HIDE DEF A
<1>10. /\ search[Whole(n)] \in 0..n
       /\ \A j \in 1..n : j \in A <=> j <= search[Whole(n)]
  BY <1>6, <1>9, BisectFinds
<1> QED BY <1>5, <1>8, <1>10

LEMMA NidInIs ==
    ASSUME Names, NEW first, Laid(first, Len(blocks), next), NEW b \in 1..Len(blocks), NEW target \in Nat
    PROVE  LET q == first[b] - 1
               c == first[b + 1] - first[b]
           IN  /\ (\A k \in 1..c : 2 * (q + k) # target) => NidIn(blocks[b], target) = 0
               /\ \A p \in 1..c : 2 * (q + p) = target => NidIn(blocks[b], target) = q + p
<1> DEFINE x == blocks[b]
           q == first[b] - 1
           c == first[b + 1] - first[b]
           Rank(k) == 2 * RankOf(NameAt(blocks[b], k))
           E == {k \in 1..c : Rank(k) = target}
           A == {k \in 1..c : Rank(k) < target}
           nid == [k \in 1..c |-> blocks[b].head[k].nid]
           Now(h, w) == IF w.lo >= w.hi THEN 0
                        ELSE IF Rank(Mid(w) + 1) = target THEN blocks[b].head[Mid(w) + 1].nid
                        ELSE IF Rank(Mid(w) + 1) < target THEN h[[w EXCEPT !.lo = Mid(w) + 1]]
                        ELSE h[[w EXCEPT !.hi = Mid(w)]]
           Then(h, w) == IF w.lo >= w.hi THEN 0
                         ELSE IF Mid(w) + 1 \in E THEN nid[Mid(w) + 1]
                         ELSE IF Mid(w) + 1 \in A THEN h[RightIn(w)] ELSE h[LeftOf(w)]
           Turn(h) == [w \in Window(EntryN(blocks[b])) |-> Now(h, w)]
           search == CHOOSE h : h = Turn(h)
<1>0. /\ first[b] \in 1..N /\ first[b + 1] \in (first[b] + 1)..(N + 1)
      /\ EntryN(blocks[b]) = c
      /\ \A k \in 1..c : /\ blocks[b].head[k].nid = q + k
                         /\ RankOf(NameAt(blocks[b], k)) = q + k
  BY BlockView
<1>a. N \in Nat
  BY NamesFacts
<1>b. c \in Nat /\ q \in Nat
  BY <1>0, <1>a
<1>c. \A k \in 1..c : Rank(k) = 2 * (q + k) /\ blocks[b].head[k].nid = q + k
  BY <1>0
<1> HIDE DEF c, q, Rank
<1>1. ASSUME NEW h, NEW w \in Window(c)
      PROVE  Now(h, w) = Then(h, w)
  <2>a. w.lo \in 0..c /\ w.hi \in 0..c
    BY <1>b, MidFacts
  <2>1. CASE w.lo >= w.hi
    BY <2>1
  <2>2. CASE ~(w.lo >= w.hi)
    <3>1. w.lo < w.hi
      BY <2>2, <2>a
    <3>2. Mid(w) + 1 \in 1..c
          /\ RightIn(w) = [w EXCEPT !.lo = Mid(w) + 1]
          /\ LeftOf(w) = [w EXCEPT !.hi = Mid(w)]
      BY <1>b, <3>1, MidFacts
    <3>3. /\ Mid(w) + 1 \in E <=> Rank(Mid(w) + 1) = target
          /\ Mid(w) + 1 \in A <=> Rank(Mid(w) + 1) < target
          /\ nid[Mid(w) + 1] = blocks[b].head[Mid(w) + 1].nid
      BY <3>2
    <3> HIDE DEF A, E, nid
    <3> QED BY <2>2, <3>2, <3>3, Zenon
  <2> QED BY <2>1, <2>2
<1>2. PICK f : Halves(f, c, E, A, nid) /\ f = [w \in Window(c) |-> f[w]]
  <2> HIDE DEF A, E, nid
  <2> QED BY <1>b, HalvingExists
<1>3. f = Turn(f)
  <2>1. \A w \in Window(c) : f[w] = Then(f, w)
    <3> HIDE DEF A, E, nid
    <3> QED BY <1>2 DEF Halves
  <2> HIDE DEF Now, Then
  <2>2. \A w \in Window(c) : f[w] = Now(f, w)
    BY <1>1, <2>1
  <2>3. f = [w \in Window(c) |-> Now(f, w)]
    BY <1>2, <2>2, Zenon
  <2> QED BY <1>0, <2>3, Zenon DEF c, q
<1>4. search = Turn(search)
  <2> HIDE DEF Turn
  <2> QED BY <1>3
<1>5. NidIn(blocks[b], target) = search[Whole(c)]
  <2>1. NidIn(blocks[b], target) = search[[lo |-> 0, hi |-> EntryN(blocks[b]), last |-> 0]]
    BY DEF NidIn, Rank
  <2> HIDE DEF search
  <2>2. EntryN(blocks[b]) = c
    BY <1>0 DEF c, q
  <2> QED BY <2>1, <2>2 DEF Whole
<1> HIDE DEF search
<1>6. Halves(search, c, E, A, nid)
  <2>0. EntryN(blocks[b]) = c
    BY <1>0 DEF c, q
  <2>1. \A w \in Window(c) : search[w] = Now(search, w)
    <3> HIDE DEF Now
    <3>1. search = [w \in Window(c) |-> Now(search, w)]
      BY <1>4, <2>0, Zenon
    <3> QED BY <3>1, Zenon
  <2>2. \A w \in Window(c) : search[w] = Then(search, w)
    <3> HIDE DEF Now, Then
    <3> QED BY <1>1, <2>1
  <2> HIDE DEF A, E, nid
  <2> QED BY <2>2 DEF Halves
<1>7. /\ (\A j \in 1..c : j \notin E) => search[Whole(c)] = 0
      /\ \A p \in 1..c :
           (\A j \in 1..c : (j \in E <=> j = p) /\ (j \in A <=> j < p)) => search[Whole(c)] = nid[p]
  <2> HIDE DEF A, E, nid
  <2> QED BY <1>b, <1>6, HalvingFinds
<1>8. ASSUME \A k \in 1..c : 2 * (q + k) # target
      PROVE  NidIn(blocks[b], target) = 0
  <2>1. \A j \in 1..c : j \notin E
    BY <1>c, <1>8
  <2> QED BY <1>5, <1>7, <2>1
<1>9. ASSUME NEW p \in 1..c, 2 * (q + p) = target
      PROVE  NidIn(blocks[b], target) = q + p
  <2>1. ASSUME NEW j \in 1..c
        PROVE  (j \in E <=> j = p) /\ (j \in A <=> j < p)
    <3>1. Rank(j) = 2 * (q + j)
      BY <1>c
    <3>2. (j \in E <=> Rank(j) = target) /\ (j \in A <=> Rank(j) < target)
      OBVIOUS
    <3>3. (2 * (q + j) = target <=> j = p) /\ (2 * (q + j) < target <=> j < p)
      BY <1>b, <1>9
    <3> HIDE DEF A, E
    <3> QED BY <3>1, <3>2, <3>3
  <2>2. nid[p] = q + p
    BY <1>c
  <2> HIDE DEF A, E, nid
  <2>3. search[Whole(c)] = nid[p]
    BY <1>7, <2>1
  <2> QED BY <1>5, <2>2, <2>3
<1> QED BY <1>8, <1>9 DEF q, c

(* A target, doubled or not, and what the lookup must say of it.           *)
LEMMA InvFound == IInv => FoundIffThere
<1> SUFFICES ASSUME IInv, Packed, NEW t \in Targets
             PROVE  Lookup(t) = IF t % 2 = 0 THEN t \div 2 ELSE 0
  BY DEF FoundIffThere, JustPacked
<1> DEFINE n == Len(blocks)
           L == BlockFor(t)
           m == t \div 2
           r == t % 2
<1>0. Names /\ N \in Nat /\ n \in Nat /\ next = N + 1
  BY InvNames, NamesFacts DEF IInv, Packed
<1>1. PICK first : Laid(first, n, next)
  BY DEF IInv
<1>2. first[1] = 1 /\ first[n + 1] = N + 1
  BY <1>0, <1>1 DEF Laid
<1>3. t \in Nat /\ t >= 1 /\ t <= 2 * N + 1
  BY <1>0 DEF Targets
<1>4. m \in Nat /\ r \in 0..1 /\ t = 2 * m + r
  <2>1. m \in Nat /\ r \in 0..(2 - 1) /\ t = m * 2 + r
    BY <1>3, Division
  <2> HIDE DEF m, r
  <2> QED BY <2>1
<1>5. L \in 0..n /\ \A b \in 1..n : 2 * first[b] <= t <=> b <= L
  BY <1>0, <1>1, <1>3, BlockForIs
<1>6. Lookup(t) = IF L = 0 THEN 0 ELSE NidIn(blocks[L], t)
  BY DEF Lookup
<1>7. n # 0
  <2>1. N # 0
    <3>1. DOMAIN names = 1..N
      BY <1>0, NamesFacts
    <3> QED BY <1>0, <3>1 DEF Names
  <2> QED BY <1>0, <1>2, <2>1
<1> HIDE DEF m, r, L
<1>8. Lookup(t) = IF r = 0 THEN m ELSE 0
  <2>1. CASE L = 0
    <3>1. ~(2 * first[1] <= t)
      BY <1>0, <1>5, <1>7, <2>1
    <3>2. r = 1
      BY <1>2, <1>3, <1>4, <3>1
    <3> QED BY <1>6, <2>1, <3>2
  <2>2. CASE L # 0
    <3> DEFINE q == first[L] - 1
               c == first[L + 1] - first[L]
    <3>0. L \in 1..n
      BY <1>0, <1>5, <2>2
    <3>1. /\ (\A k \in 1..c : 2 * (q + k) # t) => NidIn(blocks[L], t) = 0
          /\ \A p \in 1..c : 2 * (q + p) = t => NidIn(blocks[L], t) = q + p
      BY <1>0, <1>1, <1>3, <3>0, NidInIs
    <3>2. first[L] \in 1..N /\ first[L + 1] \in (first[L] + 1)..(N + 1)
      BY <1>0, <1>1, <3>0, BlockView
    <3>3. 2 * first[L] <= t /\ t < 2 * first[L + 1]
      <4>1. 2 * first[L] <= t
        BY <1>5, <3>0
      <4>2. CASE L = n
        <5>1. first[L + 1] = N + 1
          BY <1>2, <4>2
        <5>2. t < 2 * (N + 1)
          BY <1>0, <1>3
        <5> QED BY <4>1, <5>1, <5>2
      <4>3. CASE L # n
        <5>1. L + 1 \in 1..n /\ ~(L + 1 <= L)
          BY <1>0, <3>0, <4>3
        <5>2. ~(2 * first[L + 1] <= t)
          BY <1>5, <5>1
        <5> QED BY <1>0, <1>3, <3>2, <4>1, <5>2
      <4> QED BY <4>1, <4>2, <4>3
    <3>4. q \in Nat /\ c \in Nat
      BY <1>0, <3>2
    <3>5. CASE r = 1
      <4>1. \A k \in 1..c : 2 * (q + k) # t
        <5> HIDE DEF q, c
        <5> QED BY <1>4, <3>4, <3>5
      <4> HIDE DEF q, c
      <4> QED BY <1>6, <2>2, <3>1, <3>5, <4>1
    <3>6. CASE r = 0
      <4> DEFINE p == m - q
      <4>1. p \in 1..c /\ q + p = m /\ 2 * (q + p) = t
        <5> DEFINE x == first[L]
                   y == first[L + 1]
        <5>1. x \in Nat /\ y \in Nat /\ 2 * x <= t /\ t < 2 * y /\ q = x - 1 /\ c = y - x
          BY <1>0, <3>2, <3>3
        <5> HIDE DEF x, y, q, c
        <5> QED BY <1>4, <3>6, <5>1
      <4> HIDE DEF q, c, p
      <4>2. NidIn(blocks[L], t) = m
        BY <3>1, <4>1
      <4> QED BY <1>6, <2>2, <3>6, <4>2
    <3> QED BY <1>4, <3>5, <3>6
  <2> QED BY <2>1, <2>2
<1> QED BY <1>8 DEF m, r

-----------------------------------------------------------------------------
(* Every entry is in some block.                                           *)
LEMMA InSomeBlock ==
    ASSUME Names, Len(blocks) \in Nat, NEW first, Laid(first, Len(blocks), next), next = N + 1,
           NEW e \in 1..N
    PROVE  \E b \in 1..Len(blocks) : first[b] <= e /\ e < first[b + 1]
<1> DEFINE n == Len(blocks)
           S == {b \in 1..n : first[b] <= e}
<1>0. N \in Nat /\ n \in Nat /\ first[1] = 1 /\ first[n + 1] = N + 1
  BY NamesFacts DEF Laid
<1>1. n # 0
  BY <1>0
<1>2. 1 \in S /\ S \subseteq 0..n
  BY <1>0, <1>1
<1>3. Max(S) \in S /\ \A x \in S : x <= Max(S)
  <2> HIDE DEF S
  <2> QED BY <1>0, <1>2, GreatestElement
<1> DEFINE b == Max(S)
<1>4. b \in 1..n /\ first[b] <= e
  BY <1>3
<1>5. e < first[b + 1]
  <2>1. CASE b = n
    <3>1. first[b + 1] = N + 1
      BY <1>0, <2>1
    <3> QED BY <1>0, <3>1
  <2>2. CASE b # n
    <3> HIDE DEF b
    <3>1. b + 1 \in 1..n /\ b + 1 \in 1..(n + 1)
      BY <1>0, <1>4, <2>2
    <3>2. b + 1 \notin S
      <4> HIDE DEF S
      <4> QED BY <1>0, <1>3, <1>4 DEF b
    <3>3. ~(first[b + 1] <= e)
      BY <3>1, <3>2
    <3>4. first[b + 1] \in 1..(N + 1)
      BY <3>1 DEF Laid
    <3> QED BY <1>0, <3>3, <3>4
  <2> QED BY <2>1, <2>2
<1> QED BY <1>4, <1>5

Entry(k) == [nid |-> k, name |-> k]

(* What parseDirBlock's loop sees: every entry, with its nid and name.     *)
LEMMA AllEntries ==
    ASSUME Names, Len(blocks) \in Nat, NEW first, Laid(first, Len(blocks), next), next = N + 1
    PROVE  LET all == FlattenSeq([j \in 1..Len(blocks) |->
                        [k \in 1..EntryN(blocks[j]) |->
                           [nid |-> blocks[j].head[k].nid, name |-> RankOf(NameAt(blocks[j], k))]]])
           IN  DOMAIN all = 1..N /\ Len(all) = N /\ \A e \in 1..N : all[e] = Entry(e)
<1> DEFINE n == Len(blocks)
           S == {Entry(e) : e \in 1..N}
           Given(j) == [k \in 1..EntryN(blocks[j]) |->
                          [nid |-> blocks[j].head[k].nid, name |-> RankOf(NameAt(blocks[j], k))]]
           seqs == [j \in 1..n |-> Given(j)]
           p == [j \in 0..n |-> first[j + 1] - 1]
           C(j) == first[j + 1] - first[j]
<1>0. N \in Nat /\ n \in Nat /\ first[1] = 1 /\ first[n + 1] = N + 1
  BY NamesFacts DEF Laid
<1>1. ASSUME NEW j \in 1..n
      PROVE  /\ first[j] \in 1..N /\ first[j + 1] \in (first[j] + 1)..(N + 1)
             /\ Len(Given(j)) = C(j) /\ C(j) \in Nat /\ Given(j) \in Seq(S)
             /\ \A k \in 1..C(j) : Given(j)[k] = Entry(first[j] - 1 + k)
  <2>1. /\ first[j] \in 1..N /\ first[j + 1] \in (first[j] + 1)..(N + 1)
        /\ EntryN(blocks[j]) = C(j)
        /\ \A k \in 1..C(j) : /\ blocks[j].head[k].nid = (first[j] - 1) + k
                              /\ RankOf(NameAt(blocks[j], k)) = (first[j] - 1) + k
    BY BlockView
  <2>2. C(j) \in Nat
    BY <1>0, <2>1
  <2>3. \A k \in 1..C(j) : (first[j] - 1) + k \in 1..N /\ first[j] - 1 + k = (first[j] - 1) + k
    <3> DEFINE x == first[j]
               y == first[j + 1]
    <3>1. x \in 1..N /\ y \in (x + 1)..(N + 1) /\ C(j) = y - x
      BY <2>1
    <3> HIDE DEF x, y, C
    <3>2. \A k \in 1..C(j) : (x - 1) + k \in 1..N /\ x - 1 + k = (x - 1) + k
      BY <1>0, <3>1
    <3> QED BY <3>2 DEF x
  <2> DEFINE c == C(j)
             At(k) == (first[j] - 1) + k
  <2>4. Given(j) = [k \in 1..c |-> Entry(At(k))]
    BY <2>1 DEF Entry
  <2>5. c \in Nat /\ \A k \in 1..c : At(k) \in 1..N
    BY <2>2, <2>3
  <2> HIDE DEF c, At, Given
  <2>6. \A k \in 1..c : Entry(At(k)) \in S
    BY <2>5
  <2> HIDE DEF S
  <2>7. Len(Given(j)) = c /\ Given(j) \in Seq(S) /\ \A k \in 1..c : Given(j)[k] = Entry(At(k))
    BY <2>4, <2>5, <2>6
  <2>8. \A k \in 1..C(j) : Given(j)[k] = Entry(first[j] - 1 + k)
    <3>1. \A k \in 1..C(j) : At(k) = first[j] - 1 + k
      BY <2>3 DEF At
    <3> QED BY <2>7, <3>1 DEF c
  <2>9. Len(Given(j)) = C(j) /\ C(j) \in Nat
    BY <2>5, <2>7 DEF c
  <2> QED BY <2>1, <2>7, <2>8, <2>9
<1>2. \A j \in 1..n : j - 1 \in 0..n /\ p[j - 1] = first[j] - 1 /\ p[j] = first[j + 1] - 1
                      /\ p[j] \in Nat /\ p[j] = p[j - 1] + C(j)
  <2> SUFFICES ASSUME NEW j \in 1..n
               PROVE  j - 1 \in 0..n /\ p[j - 1] = first[j] - 1 /\ p[j] = first[j + 1] - 1
                      /\ p[j] \in Nat /\ p[j] = p[j - 1] + C(j)
    OBVIOUS
  <2>1. j - 1 \in 0..n /\ j \in 0..n /\ (j - 1) + 1 = j
    BY <1>0
  <2>2. p[j - 1] = first[(j - 1) + 1] - 1 /\ p[j] = first[j + 1] - 1
    BY <2>1
  <2> DEFINE x == first[j]
             y == first[j + 1]
  <2>3. p[j - 1] = x - 1 /\ p[j] = y - 1
    BY <2>1, <2>2
  <2>4. x \in 1..N /\ y \in (x + 1)..(N + 1) /\ C(j) = y - x
    BY <1>1
  <2> HIDE DEF p, x, y, C
  <2>5. y - 1 \in Nat /\ y - 1 = (x - 1) + (y - x)
    BY <1>0, <2>4
  <2>6. p[j] \in Nat /\ p[j] = p[j - 1] + C(j)
    BY <2>3, <2>4, <2>5
  <2> QED BY <2>1, <2>3, <2>6 DEF x, y
<1>3. EndsAt(p, n, S, seqs)
  <2>1. n # 0
    <3>1. N # 0
      <4>1. DOMAIN names = 1..N
        BY NamesFacts
      <4> QED BY <1>0, <4>1 DEF Names
    <3> QED BY <1>0, <3>1
  <2>2. p[0] = 0
    BY <1>0
  <2>3. \A i \in 0..n : p[i] \in Nat
    <3>1. \A i \in 0..n : i = 0 \/ i \in 1..n
      BY <1>0
    <3> HIDE DEF p
    <3> QED BY <1>2, <2>2, <3>1
  <2> HIDE DEF p, S, Given
  <2>4. seqs \in Seq(Seq(S)) /\ Len(seqs) = n /\ \A i \in 1..n : seqs[i] = Given(i)
    BY <1>0, <1>1
  <2> HIDE DEF seqs, C
  <2>5. \A i \in 1..n : p[i] = p[i - 1] + Len(seqs[i])
    BY <1>1, <1>2, <2>4
  <2> QED BY <1>0, <2>1, <2>2, <2>3, <2>4, <2>5 DEF EndsAt
<1> DEFINE all == FlattenSeq(seqs)
<1>4. Joins(all, p, n, S, seqs)
  <2> HIDE DEF p, S, seqs
  <2> QED BY <1>3, FlattenCells
<1> HIDE DEF all
<1>5. all \in Seq(S) /\ Len(all) = p[n]
      /\ \A i \in 1..n : \A j \in 1..Len(seqs[i]) : all[p[i - 1] + j] = seqs[i][j]
  BY <1>4 DEF Joins
<1>6. p[n] = N
  BY <1>0
<1>7. Len(all) = N /\ DOMAIN all = 1..N
  <2> HIDE DEF p, S, seqs
  <2> QED BY <1>5, <1>6
<1>8. ASSUME NEW e \in 1..N
      PROVE  all[e] = Entry(e)
  <2>1. PICK b \in 1..n : first[b] <= e /\ e < first[b + 1]
    BY <1>0, InSomeBlock
  <2> DEFINE q == first[b] - 1
             j == e - q
             c == C(b)
  <2>2. j \in 1..c /\ q + j = e
    <3>1. first[b] \in 1..N /\ first[b + 1] \in (first[b] + 1)..(N + 1)
      BY <1>1
    <3> QED BY <1>0, <2>1, <3>1
  <2>3. p[b - 1] = q /\ seqs[b] = Given(b) /\ Len(Given(b)) = c
    BY <1>1, <1>2
  <2>4. Given(b)[j] = Entry(first[b] - 1 + j)
    <3> HIDE DEF j, Given
    <3> QED BY <1>1, <2>2
  <2>5. first[b] - 1 + j = e
    <3>1. first[b] \in 1..N
      BY <1>1
    <3> HIDE DEF j
    <3> QED BY <1>0, <2>2, <3>1
  <2> HIDE DEF p, seqs, Given, q, j, c
  <2>6. all[p[b - 1] + j] = seqs[b][j]
    BY <1>5, <2>2, <2>3
  <2> QED BY <2>2, <2>3, <2>4, <2>5, <2>6
<1> QED BY <1>7, <1>8 DEF all

LEMMA InvParsed == IInv => ParsedRight
<1> SUFFICES ASSUME IInv, Packed
             PROVE  Parsed = [k \in DOMAIN Children |->
                               [nid |-> Children[k], name |-> Children[k]]]
  BY DEF ParsedRight, JustPacked
<1> DEFINE n == Len(blocks)
           all == FlattenSeq([j \in 1..Len(blocks) |->
                    [k \in 1..EntryN(blocks[j]) |->
                       [nid |-> blocks[j].head[k].nid, name |-> RankOf(NameAt(blocks[j], k))]]])
           sought == {k \in DOMAIN all : IsChild(all[k].name)}
           kept == Ascending(sought, Len(all))
<1>0. Names /\ N \in Nat /\ n \in Nat /\ next = N + 1
  BY InvNames, NamesFacts DEF IInv, Packed
<1>1. PICK first : Laid(first, n, next)
  BY DEF IInv
<1>2. DOMAIN all = 1..N /\ Len(all) = N /\ \A e \in 1..N : all[e] = Entry(e)
  BY <1>0, <1>1, AllEntries
<1>3. Parsed = [k \in DOMAIN kept |-> all[kept[k]]]
  BY DEF Parsed
<1> HIDE DEF all
<1>4. sought = ChildSet
  <2>1. ASSUME NEW k \in 1..N
        PROVE  IsChild(all[k].name) <=> ~names[k].dot
    <3>1. all[k].name = k /\ k # 0
      BY <1>2 DEF Entry
    <3> QED BY <3>1 DEF IsChild
  <2> QED BY <1>2, <2>1 DEF ChildSet
<1>5. kept = Children
  <2> HIDE DEF sought
  <2> QED BY <1>2, <1>4 DEF Children, ChildSet
<1> HIDE DEF kept
<1>6. \A k \in DOMAIN Children : Children[k] \in 1..N
  <2>1. /\ Children \in Seq(Nat)
        /\ \A i \in 1..Len(Children) : Children[i] \in 1..N
    BY <1>0, AscendingLists DEF Children, ChildSet
  <2> QED BY <2>1
<1>7. \A k \in DOMAIN Children : all[Children[k]] = [nid |-> Children[k], name |-> Children[k]]
  BY <1>2, <1>6 DEF Entry
<1> QED BY <1>3, <1>5, <1>7

-----------------------------------------------------------------------------
(* The handle's place, the pages and what was listed keep their types.     *)
THEOREM DirectoryTyped == Spec => []TypeOK
<1> QED BY Invariant, InvType, PTL

(* dir.ReadDir, for any sequence of page sizes and failing blocks: no name *)
(* is given twice or out of order, and without failures none is left out.  *)
THEOREM ListedInOrder == Spec => []ListedOnce
<1> QED BY Invariant, InvListed, PTL

(* direntDataSize against writeDirents, for any directory: what planLayout *)
(* reserved is what is written, in whole blocks but for the last.          *)
THEOREM PlannedAsPacked == Spec => []PackedAsPlanned
<1> QED BY Invariant, InvPacked, PTL

(* dir.lookup: the search over the blocks and the one inside a block find  *)
(* the names that are there, with their nids, and nothing else.            *)
THEOREM LookupFinds == Spec => []FoundIffThere
<1> QED BY Invariant, InvFound, PTL

(* parseDirBlock: every child once, in order, with its nid.                *)
THEOREM AllParsed == Spec => []ParsedRight
<1> QED BY Invariant, InvParsed, PTL

-----------------------------------------------------------------------------
(***************************************************************************)
(* Path resolution (Resolve), for any images, names and limit of links.    *)
(* The invariant carries the nodes along curPath (Along), since what       *)
(* CurPathTracks computes has no steps of its own.                         *)
(***************************************************************************)

(* The nodes that plain lookups along curPath pass.                        *)
Along(f) ==
    /\ f \in [0..Len(curPath) -> DOMAIN tree.kind]
    /\ f[0] = tree.root /\ f[Len(curPath)] = at
    /\ \A k \in 1..Len(curPath) :
         IsDir(f[k - 1]) /\ f[k] = tree.entry[f[k - 1]][curPath[k]]

EntryNames == UNION {DOMAIN tree.entry[d] : d \in DOMAIN tree.entry}
PathInv == ResolveTypeOK /\ curPath \in Seq(EntryNames) /\ \E f : Along(f)

LEMMA AtRoot ==
    ASSUME curPath = <<>>, at = tree.root, at \in DOMAIN tree.kind
    PROVE  \E f : Along(f)
<1> DEFINE f == [k \in 0..0 |-> at]
<1>1. f \in [0..Len(curPath) -> DOMAIN tree.kind] /\ f[0] = at /\ Len(curPath) = 0
  OBVIOUS
<1> HIDE DEF f
<1> QED BY <1>1 DEF Along

LEMMA PathInit == ASSUME ResolveInit PROVE PathInv
<1>0. /\ tree \in Trees /\ op \in Ops /\ asked \in Paths /\ at = tree.root
      /\ curPath = <<>> /\ links = 0 /\ out = "walking"
  BY DEF ResolveInit
<1>1. WellFormed(tree) /\ MaxLinks \in Nat
  BY <1>0, ResolveAssumption
<1>2. at \in DOMAIN tree.kind
  BY <1>0, <1>1 DEF WellFormed
<1>3. ResolveTypeOK
  BY <1>0, <1>1, <1>2 DEF ResolveTypeOK
<1> QED BY <1>0, <1>2, <1>3, AtRoot DEF PathInv

LEMMA SamePath ==
    ASSUME PathInv, UNCHANGED <<tree, at, curPath>>, ResolveTypeOK'
    PROVE  PathInv'
<1>1. PICK f : Along(f)
  BY DEF PathInv
<1>2. Along(f)'
  BY <1>1 DEF Along, IsDir
<1>3. (\E h : Along(h))'
  BY <1>2
<1>4. EntryNames' = EntryNames
  BY DEF EntryNames
<1> QED BY <1>3, <1>4 DEF PathInv

LEMMA FailKeepsPath ==
    ASSUME PathInv, NEW e \in {"ErrNotDirectory", "ErrNotExist", "ErrLoop"}, Fail(e)
    PROVE  PathInv'
<1>1. ResolveTypeOK'
  BY DEF PathInv, Fail, ResolveTypeOK
<1> QED BY <1>1, SamePath DEF Fail

LEMMA FollowKeepsPath ==
    ASSUME PathInv, NEW d, FollowLink(d)
    PROVE  PathInv'
<1>1. /\ tree' = tree /\ op' = op /\ asked' = asked /\ out' = out
      /\ at' = tree.root /\ curPath' = <<>> /\ links' = links + 1 /\ links < MaxLinks
  BY DEF FollowLink
<1>2. WellFormed(tree) /\ MaxLinks \in Nat
  BY ResolveAssumption DEF PathInv, ResolveTypeOK
<1>3. at' \in DOMAIN tree'.kind
  BY <1>1, <1>2 DEF WellFormed
<1>4. ResolveTypeOK'
  BY <1>1, <1>2, <1>3 DEF ResolveTypeOK, PathInv
<1>5. PICK f : f \in [0..Len(curPath') -> DOMAIN tree'.kind] /\ f[0] = at' /\ Len(curPath') = 0
  <2> DEFINE g == [k \in 0..0 |-> at']
  <2>1. g \in [0..Len(curPath') -> DOMAIN tree'.kind] /\ g[0] = at' /\ Len(curPath') = 0
    BY <1>1, <1>3
  <2> QED BY <2>1
<1>6. Along(f)'
  BY <1>1, <1>5 DEF Along
<1>7. (\E g : Along(g))'
  BY <1>6
<1> QED BY <1>1, <1>4, <1>7 DEF PathInv

LEMMA StepKeepsPath ==
    ASSUME PathInv, NEW d \in Found, Step(d)
    PROVE  PathInv'
<1> DEFINE c == Head(todo)
           len == Len(curPath)
<1>1. /\ tree' = tree /\ op' = op /\ asked' = asked /\ out' = out /\ links' = links
      /\ at' = d /\ curPath' = Append(curPath, c)
  BY DEF Step
<1>2. WellFormed(tree)
  BY ResolveAssumption DEF PathInv, ResolveTypeOK
<1>3. IsDir(at) /\ c \in DOMAIN tree.entry[at] /\ d = tree.entry[at][c]
  BY DEF Found
<1>4. at \in DOMAIN tree.entry
  BY <1>2, <1>3 DEF WellFormed, IsDir, PathInv, ResolveTypeOK
<1>5. c \in EntryNames /\ d \in DOMAIN tree.kind
  BY <1>2, <1>3, <1>4 DEF WellFormed, EntryNames
<1>6. PICK f : Along(f)
  BY DEF PathInv
<1> HIDE DEF c
<1>7. /\ curPath \in Seq(EntryNames) /\ curPath' \in Seq(EntryNames) /\ len \in Nat /\ Len(curPath') = len + 1
      /\ curPath'[len + 1] = c /\ \A k \in 1..len : curPath'[k] = curPath[k]
  BY <1>1, <1>5 DEF PathInv
<1>8. PICK g : /\ g \in [0..(len + 1) -> DOMAIN tree.kind] /\ g[len + 1] = d
               /\ \A k \in 0..len : g[k] = f[k]
  <2> DEFINE h == [k \in 0..(len + 1) |-> IF k = len + 1 THEN d ELSE f[k]]
  <2>1. /\ h \in [0..(len + 1) -> DOMAIN tree.kind] /\ h[len + 1] = d
        /\ \A k \in 0..len : h[k] = f[k]
    BY <1>5, <1>6, <1>7 DEF Along
  <2> QED BY <2>1
<1> HIDE DEF len
<1>9. f[0] = tree.root /\ f[len] = at
  BY <1>6 DEF Along, len
<1>10. ASSUME NEW k \in 1..(len + 1)
       PROVE  IsDir(g[k - 1]) /\ g[k] = tree.entry[g[k - 1]][curPath'[k]]
  <2>1. CASE k = len + 1
    BY <1>3, <1>7, <1>8, <1>9, <2>1
  <2>2. CASE k \in 1..len
    <3>1. k - 1 \in 0..len /\ k \in 0..len
      BY <1>7, <2>2
    <3>2. IsDir(f[k - 1]) /\ f[k] = tree.entry[f[k - 1]][curPath[k]]
      BY <1>6, <2>2 DEF Along, len
    <3> QED BY <1>7, <1>8, <2>2, <3>1, <3>2
  <2> QED BY <1>7, <2>1, <2>2
<1>11. Along(g)'
  BY <1>1, <1>7, <1>8, <1>9, <1>10 DEF Along, IsDir
<1>12. (\E h : Along(h))'
  BY <1>11
<1>13. ResolveTypeOK'
  BY <1>1, <1>5 DEF ResolveTypeOK, PathInv
<1>14. EntryNames' = EntryNames
  BY <1>1 DEF EntryNames
<1> QED BY <1>7, <1>12, <1>13, <1>14 DEF PathInv

LEMMA PathStep == ASSUME PathInv, [ResolveNext]_resolveVars PROVE PathInv'
<1>1. CASE UNCHANGED resolveVars
  BY <1>1, SamePath DEF PathInv, resolveVars, ResolveTypeOK
<1>2. CASE NotADir \/ Missing
  BY <1>2, FailKeepsPath DEF NotADir, Missing
<1>3. CASE Finish
  <2>1. Answer \in {"found", "ErrNotDirectory", "ErrIsDirectory", "ErrInvalid"}
    BY DEF Answer
  <2>2. ResolveTypeOK'
    BY <1>3, <2>1 DEF PathInv, Finish, ResolveTypeOK
  <2> QED BY <1>3, <2>2, SamePath DEF Finish
<1>4. ASSUME NEW d \in Found, Step(d) \/ FollowLink(d) \/ TooMany(d)
      PROVE  PathInv'
  BY <1>4, StepKeepsPath, FollowKeepsPath, FailKeepsPath DEF TooMany
<1> QED BY <1>1, <1>2, <1>3, <1>4 DEF ResolveNext

(* CurPathTracks computes the nodes along the path; they are those of f.   *)
LEMMA AlongIsComputed == PathInv => CurPathTracks
<1> SUFFICES ASSUME PathInv
             PROVE  CurPathTracks
  OBVIOUS
<1> DEFINE len == Len(curPath)
           Turn(h) == [k \in 0..len |->
                         IF k = 0 THEN tree.root ELSE tree.entry[h[k - 1]][curPath[k]]]
           along == CHOOSE h : h = Turn(h)
<1>1. PICK f : Along(f)
  BY DEF PathInv
<1>2. /\ len \in Nat /\ f \in [0..len -> DOMAIN tree.kind] /\ f[0] = tree.root /\ f[len] = at
      /\ \A k \in 1..len : IsDir(f[k - 1]) /\ f[k] = tree.entry[f[k - 1]][curPath[k]]
  BY <1>1 DEF Along, PathInv
<1>3. f = Turn(f)
  BY <1>2
<1>4. along = Turn(along)
  BY <1>3
<1> HIDE DEF along
<1>5. along = [k \in 0..len |-> IF k = 0 THEN tree.root ELSE tree.entry[along[k - 1]][curPath[k]]]
  BY <1>4
<1> HIDE DEF len
<1>6. along[0] = tree.root /\ \A k \in 1..len : along[k] = tree.entry[along[k - 1]][curPath[k]]
  <2>1. \A k \in 0..len : along[k] = IF k = 0 THEN tree.root ELSE tree.entry[along[k - 1]][curPath[k]]
    BY <1>5, Zenon
  <2>2. 0 \in 0..len /\ \A k \in 1..len : k \in 0..len /\ k # 0
    BY <1>2
  <2> QED BY <2>1, <2>2, Zenon
<1> DEFINE T == {k \in 0..len : along[k] = f[k]}
<1>7. 0 \in T
  BY <1>2, <1>6
<1>8. ASSUME NEW k \in 0..len
      PROVE  k \in T /\ k < len => k + 1 \in T
  BY <1>2, <1>6
<1> HIDE DEF T
<1>9. 0..len \subseteq T
  BY <1>2, <1>7, <1>8, BoundedInduction
<1>10. \A k \in 0..len : along[k] = f[k]
  BY <1>9 DEF T
<1>11. along[len] = at /\ \A k \in 0..(len - 1) : IsDir(along[k])
  <2>1. along[len] = at
    BY <1>2, <1>10
  <2>2. ASSUME NEW k \in 0..(len - 1)
        PROVE  IsDir(along[k])
    <3>1. k \in 0..len /\ k + 1 \in 1..len /\ (k + 1) - 1 = k
      BY <1>2
    <3>2. IsDir(f[(k + 1) - 1])
      BY <1>2, <3>1, Zenon
    <3>3. along[k] = f[(k + 1) - 1]
      BY <1>10, <3>1
    <3> QED BY <3>2, <3>3
  <2> QED BY <2>1, <2>2
<1> QED BY <1>11 DEF CurPathTracks, along, len

(* erofs.go:734, for any image, name and limit of links: plain lookups     *)
(* along curPath lead from the root to the inode resolve is at, over       *)
(* directories alone.                                                      *)
THEOREM PathTracked == ResolveSpec => []CurPathTracks
<1>1. ResolveInit => PathInv
  BY PathInit
<1>2. PathInv /\ [ResolveNext]_resolveVars => PathInv'
  BY PathStep
<1> QED BY <1>1, <1>2, AlongIsComputed, PTL DEF ResolveSpec
=============================================================================
