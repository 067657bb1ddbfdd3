----------------------------- MODULE ReaderProofs -----------------------------
(***************************************************************************)
(* Proofs about the reader.  Reading a file (FileRead), for any block      *)
(* size, file, buffers and io.ReaderAt: until the reading is over, what    *)
(* was given is the beginning of the file up to the offset, because        *)
(* loadBlock's range holds the bytes from the offset on (BlockHolds); the  *)
(* ends then follow from how far the offset can have come.  The block      *)
(* buffers all readers share (BlockPool) come after it.                    *)
(***************************************************************************)
EXTENDS FileRead, BlockPool, NaturalLemmas

B == BlockSize

(* An inode the layout makes, with its file's blocks on either side.       *)
Geometry ==
    /\ size \in Nat /\ layout \in {"plain", "inline"} /\ core \in Nat /\ core <= Extended
    /\ place \in 0..(B - 1) /\ metaFirst \in BOOLEAN /\ Fitting

Progress ==
    /\ op \in {"none", "read", "readfile"} /\ state \in {"idle", "info", "copy", "ended", "failed"}
    /\ room \in Nat /\ n \in Nat /\ known \in BOOLEAN
    /\ state # "ended" => offset \in 0..size /\ given = Content(offset)
    /\ op = "none" => state = "idle" /\ offset = 0
    /\ op = "readfile" => state # "idle" /\ (state \in {"info", "copy"} => offset + room = size)

IInv == Geometry /\ Progress /\ given \in Seq(Nat) /\ Len(given) <= size /\ InOrder /\ AllRead

-----------------------------------------------------------------------------
LEMMA MinOfTwo ==
    ASSUME NEW a \in Int, NEW b \in Int
    PROVE  Min({a, b}) = IF a <= b THEN a ELSE b
<1> DEFINE m == IF a <= b THEN a ELSE b
<1>1. m \in {a, b} /\ \A y \in {a, b} : m <= y
  OBVIOUS
<1>2. \A x \in {a, b} : (\A y \in {a, b} : x <= y) => x = m
  OBVIOUS
<1> QED BY <1>1, <1>2 DEF Min

(* The blocks of a file that has any: the last begins in front of its end. *)
LEMMA FileBlocks ==
    ASSUME NEW s \in Nat
    PROVE  /\ BlocksOf(s) \in Nat /\ BlocksOf(s) * B \in Nat
           /\ s <= BlocksOf(s) * B /\ BlocksOf(s) * B < s + B
           /\ s > 0 => /\ BlocksOf(s) - 1 \in Nat
                       /\ (BlocksOf(s) - 1) * B = BlocksOf(s) * B - B
                       /\ (BlocksOf(s) - 1) * B \in Nat
<1>0. B \in Nat \ {0}
  BY ReadAssumption DEF B
<1>1. BlocksOf(s) = Units(s, B)
  BY DEF BlocksOf, Units, B
<1>2. /\ Units(s, B) \in Nat /\ s <= Units(s, B) * B /\ Units(s, B) * B < s + B
      /\ s = 0 <=> Units(s, B) = 0
  BY <1>0, RoundedUp
<1> DEFINE c == Units(s, B)
<1> HIDE DEF c
<1>3. c \in Nat /\ (s > 0 => c # 0)
  BY <1>2 DEF c
<1>4. c * B \in Nat /\ (c # 0 => c - 1 \in Nat /\ (c - 1) * B = c * B - B /\ (c - 1) * B \in Nat)
  BY <1>0, <1>3
<1> QED BY <1>1, <1>2, <1>3, <1>4 DEF c

(* A position of the file: its block is the last or ends in front of the   *)
(* last.                                                                   *)
LEMMA Position ==
    ASSUME NEW s \in Nat, NEW pos \in 0..(s - 1)
    PROVE  /\ pos \div B \in Nat /\ pos % B \in 0..(B - 1) /\ pos = (pos \div B) * B + (pos % B)
           /\ (pos \div B) * B \in Nat
           /\ pos \div B = BlocksOf(s) - 1 \/ (pos \div B) * B + B <= (BlocksOf(s) - 1) * B
<1> DEFINE bn == pos \div B
           c == BlocksOf(s)
<1>0. B \in Nat \ {0} /\ pos \in Nat /\ s > 0 /\ pos < s
  BY ReadAssumption DEF B
<1>1. bn \in Nat /\ pos % B \in 0..(B - 1) /\ pos = bn * B + (pos % B)
  BY <1>0, Division
<1>2. /\ c \in Nat /\ s <= c * B /\ c - 1 \in Nat
  BY <1>0, FileBlocks
<1> HIDE DEF bn, c
<1>3. bn * B \in Nat /\ bn * B <= pos /\ c * B \in Nat
  BY <1>0, <1>1, <1>2
<1>4. bn * B < c * B
  BY <1>0, <1>2, <1>3
<1>5. bn < c
  BY <1>0, <1>1, <1>2, <1>4, ProductOrder
<1>6. bn = c - 1 \/ bn + 1 <= c - 1
  BY <1>1, <1>2, <1>5
<1>7. bn + 1 <= c - 1 => (bn + 1) * B <= (c - 1) * B
  BY <1>0, <1>1, <1>2, ProductMonotone
<1>8. (bn + 1) * B = bn * B + B
  BY <1>0, <1>1
<1> QED BY <1>1, <1>3, <1>6, <1>7, <1>8 DEF bn, c

(* Where things are: the file's blocks first or the block of its inode.    *)
LEMMA Places0 ==
    ASSUME Geometry
    PROVE  /\ MetaAddr \in Nat /\ DataAddr \in Nat /\ InlineFrom \in Nat /\ InlineFrom <= size
           /\ DataBlocks(size, layout) \in Nat
           /\ (DataBlocks(size, layout) + 1) * B = DataBlocks(size, layout) * B + B
           /\ DataBlocks(size, layout) * B \in Nat
           /\ metaFirst => MetaAddr = 0 /\ DataAddr = B
           /\ ~metaFirst => MetaAddr = DataBlocks(size, layout) * B /\ DataAddr = 0
           /\ layout = "inline" => /\ size > 0 /\ place + core + size - InlineFrom <= B
                                   /\ InlineFrom = DataBlocks(size, layout) * B
                                   /\ InlineFrom = (BlocksOf(size) - 1) * B
                                   /\ size <= InlineFrom + B /\ InlineFrom < size
           /\ layout # "inline" => /\ InlineFrom = size /\ size <= DataBlocks(size, layout) * B
                                   /\ DataBlocks(size, layout) * B = BlocksOf(size) * B
<1>0. B \in Nat \ {0} /\ size \in Nat /\ metaFirst \in BOOLEAN /\ core \in Nat /\ place \in Nat
  BY ReadAssumption DEF Geometry, B
<1>1. /\ BlocksOf(size) \in Nat /\ size <= BlocksOf(size) * B /\ BlocksOf(size) * B < size + B
      /\ BlocksOf(size) * B \in Nat
      /\ size > 0 => /\ BlocksOf(size) - 1 \in Nat
                     /\ (BlocksOf(size) - 1) * B = BlocksOf(size) * B - B
                     /\ (BlocksOf(size) - 1) * B \in Nat
  BY <1>0, FileBlocks
<1> DEFINE c == BlocksOf(size)
           d == DataBlocks(size, layout)
<1>2. layout = "inline" => size > 0 /\ place + core + size - InlineFrom <= B
  BY DEF Geometry, Fitting, B
<1>3. d = IF layout = "inline" THEN c - 1 ELSE c
  BY DEF DataBlocks
<1>4. InlineFrom = IF layout = "inline" THEN (c - 1) * B ELSE size
  BY DEF InlineFrom, B
<1>5. MetaAddr = (IF metaFirst THEN 0 ELSE d * B) /\ DataAddr = IF metaFirst THEN B ELSE 0
  BY DEF MetaAddr, DataAddr, B
<1> HIDE DEF c, d
<1>6. d \in Nat /\ d * B \in Nat
  BY <1>1, <1>2, <1>3 DEF c
<1>7. (d + 1) * B = d * B + B
  BY <1>0, <1>6
<1>8. layout = "inline" => /\ InlineFrom = d * B /\ InlineFrom = (c - 1) * B
                           /\ size <= InlineFrom + B /\ InlineFrom < size /\ InlineFrom \in Nat
  BY <1>0, <1>1, <1>2, <1>3, <1>4 DEF c
<1>9. layout # "inline" => InlineFrom = size /\ size <= d * B /\ d * B = c * B
  BY <1>1, <1>3, <1>4 DEF c
<1>10. InlineFrom \in Nat /\ InlineFrom <= size
  BY <1>0, <1>8, <1>9
<1>11. MetaAddr \in Nat /\ DataAddr \in Nat
  BY <1>0, <1>5, <1>6
<1> QED BY <1>0, <1>2, <1>5, <1>6, <1>7, <1>8, <1>9, <1>10, <1>11 DEF c, d

LEMMA WholeHeld ==
    ASSUME Geometry, Whole
    PROVE  available \in Nat /\ available = (DataBlocks(size, layout) + 1) * B /\ ~eager
<1>1. available = (DataBlocks(size, layout) + 1) * B /\ ~eager
  BY DEF Whole, B
<1>2. (DataBlocks(size, layout) + 1) * B = DataBlocks(size, layout) * B + B
      /\ DataBlocks(size, layout) * B \in Nat /\ B \in Nat
  BY Places0, ReadAssumption DEF B
<1> DEFINE p == DataBlocks(size, layout) * B
<1> HIDE DEF p
<1>3. available = p + B /\ p \in Nat /\ B \in Nat
  BY <1>1, <1>2 DEF p
<1>4. available \in Nat
  BY <1>3
<1> QED BY <1>1, <1>4

(* What the image holds at the file's addresses.                           *)
LEMMA ImageHolds ==
    ASSUME Geometry
    PROVE  /\ \A k \in 0..(InlineFrom - 1) : Image(DataAddr + k) = k + 1
           /\ \A k \in InlineFrom..(size - 1) : Image(InodeAddr + core + (k - InlineFrom)) = k + 1
<1>0. /\ B \in Nat \ {0} /\ size \in Nat /\ metaFirst \in BOOLEAN /\ core \in Nat /\ place \in Nat
      /\ layout \in {"plain", "inline"}
  BY ReadAssumption DEF Geometry, B
<1>1. Min({InlineFrom, size}) = InlineFrom
  BY <1>0, Places0, MinOfTwo
<1>2. InodeAddr = MetaAddr + place
  BY DEF InodeAddr
<1>3. \A a : Image(a) = IF a \in DataAddr..(DataAddr + InlineFrom - 1) THEN a - DataAddr + 1
                        ELSE IF a \in (InodeAddr + core)..(InodeAddr + core + size - InlineFrom - 1)
                             THEN a - (InodeAddr + core) + InlineFrom + 1
                        ELSE 0
  BY <1>1 DEF Image
<1>4. ASSUME NEW k \in 0..(InlineFrom - 1)
      PROVE  Image(DataAddr + k) = k + 1
  <2>1. DataAddr \in Nat /\ InlineFrom \in Nat
    BY Places0
  <2>2. DataAddr + k \in DataAddr..(DataAddr + InlineFrom - 1) /\ (DataAddr + k) - DataAddr + 1 = k + 1
    BY <2>1
  <2> QED BY <1>3, <2>2
<1>5. ASSUME NEW k \in InlineFrom..(size - 1)
      PROVE  Image(InodeAddr + core + (k - InlineFrom)) = k + 1
  <2> DEFINE a == InodeAddr + core + (k - InlineFrom)
  <2>1. /\ DataAddr \in Nat /\ InlineFrom \in Nat /\ MetaAddr \in Nat /\ layout = "inline"
        /\ place + core + size - InlineFrom <= B
        /\ metaFirst => MetaAddr = 0 /\ DataAddr = B
        /\ ~metaFirst => MetaAddr = InlineFrom /\ DataAddr = 0
    BY <1>0, Places0
  <2>2. a = MetaAddr + place + core + (k - InlineFrom) /\ a \in Nat
    BY <1>0, <1>2, <2>1
  <2>3. ~(a \in DataAddr..(DataAddr + InlineFrom - 1))
    BY <1>0, <2>1, <2>2
  <2>4. a \in (InodeAddr + core)..(InodeAddr + core + size - InlineFrom - 1)
        /\ a - (InodeAddr + core) + InlineFrom + 1 = k + 1
    BY <1>0, <1>2, <2>1
  <2> HIDE DEF a
  <2>5. Image(a) = k + 1
    BY <1>3, <2>3, <2>4
  <2> QED BY <2>5 DEF a
<1> QED BY <1>4, <1>5

(* loadBlock's range holds the bytes of the file from the position on, at  *)
(* least one, and lies in the image.                                       *)
LEMMA BlockHolds ==
    ASSUME Geometry, NEW pos \in 0..(size - 1), NEW b, b = LoadBlock(pos)
    PROVE  /\ b.addr \in Nat /\ b.from \in Nat /\ b.upto - b.from \in Nat \ {0}
           /\ pos + (b.upto - b.from) <= size
           /\ \A j \in 1..(b.upto - b.from) : Image(b.addr + b.from + j - 1) = pos + j
           /\ b.addr + b.from + (b.upto - b.from) <= (DataBlocks(size, layout) + 1) * B
<1> DEFINE bn == pos \div B
           r == pos % B
           c == BlocksOf(size)
           d == DataBlocks(size, layout)
           tail == bn = c - 1 /\ layout = "inline"
           m == bn * B
<1>0. /\ B \in Nat \ {0} /\ size \in Nat /\ metaFirst \in BOOLEAN /\ core \in Nat /\ place \in Nat
      /\ layout \in {"plain", "inline"} /\ pos \in Nat /\ pos < size
  BY ReadAssumption DEF Geometry, B
<1>1. bn \in Nat /\ r \in 0..(B - 1) /\ pos = m + r /\ m \in Nat
      /\ (bn = c - 1 \/ m + B <= (c - 1) * B)
  BY <1>0, Position
<1>2. /\ c \in Nat /\ size <= c * B /\ c - 1 \in Nat /\ (c - 1) * B = c * B - B /\ (c - 1) * B \in Nat
      /\ c * B < size + B
  <2>1. size \in Nat /\ size > 0
    BY <1>0
  <2> QED BY <2>1, FileBlocks
<1>3. /\ b.addr = IF tail THEN MetaAddr ELSE DataAddr + m
      /\ b.from = IF tail THEN (place + core) + pos - m ELSE r
      /\ b.upto = IF tail THEN size - m + place + core
                  ELSE IF bn = c - 1 THEN size - m ELSE B
  BY DEF LoadBlock, B
<1>4. tail => m = InlineFrom
  BY Places0
<1>5. /\ MetaAddr \in Nat /\ DataAddr \in Nat /\ InlineFrom \in Nat /\ InlineFrom <= size
      /\ (d + 1) * B = d * B + B /\ d * B \in Nat
      /\ metaFirst => MetaAddr = 0 /\ DataAddr = B
      /\ ~metaFirst => MetaAddr = d * B /\ DataAddr = 0
      /\ layout = "inline" => /\ place + core + size - InlineFrom <= B
                              /\ InlineFrom = d * B /\ InlineFrom = (c - 1) * B
      /\ layout # "inline" => InlineFrom = size /\ d * B = c * B
  BY Places0
<1> HIDE DEF bn, r, c, d, m
<1>6. CASE tail
  <2>1. b.addr = MetaAddr /\ b.from = place + core + (pos - m) /\ b.upto = size - m + place + core
    BY <1>0, <1>1, <1>3, <1>6
  <2>2. m = InlineFrom /\ layout = "inline" /\ m <= pos
    BY <1>1, <1>4, <1>6
  <2>3. b.upto - b.from = size - pos
    BY <1>0, <1>1, <2>1
  <2>4. b.addr + b.from + (size - pos) <= d * B + B
    BY <1>0, <1>1, <1>5, <2>1, <2>2
  <2>5. ASSUME NEW j \in 1..(size - pos)
        PROVE  Image(b.addr + b.from + j - 1) = pos + j
    <3> DEFINE k == pos + j - 1
    <3>1. k \in InlineFrom..(size - 1) /\ k + 1 = pos + j
      BY <1>0, <1>1, <2>2
    <3>2. b.addr + b.from + j - 1 = InodeAddr + core + (k - InlineFrom)
      BY <1>0, <1>1, <1>5, <2>1, <2>2 DEF InodeAddr
    <3> HIDE DEF k
    <3> QED BY <3>1, <3>2, ImageHolds
  <2> DEFINE len == b.upto - b.from
  <2>6. len = size - pos
    BY <2>3
  <2> HIDE DEF len
  <2>7. /\ len \in Nat \ {0} /\ pos + len <= size /\ b.addr + b.from + len <= d * B + B
        /\ \A j \in 1..len : Image(b.addr + b.from + j - 1) = pos + j
    BY <1>0, <2>4, <2>5, <2>6
  <2>8. b.addr \in Nat /\ b.from \in Nat
    BY <1>0, <1>1, <1>5, <2>1, <2>2
  <2> QED BY <1>5, <2>7, <2>8 DEF len, d
<1>7. CASE ~tail
  <2>1. b.addr = DataAddr + m /\ b.from = r
    BY <1>3, <1>7
  <2> DEFINE len == b.upto - b.from
  <2>2. len \in Nat \ {0} /\ pos + len <= InlineFrom /\ pos + len <= m + B
    <3>1. CASE bn = c - 1
      <4>1. layout # "inline" /\ b.upto = size - m /\ m = (c - 1) * B
        BY <1>3, <1>7, <3>1 DEF m
      <4> QED BY <1>0, <1>1, <1>2, <1>5, <2>1, <4>1
    <3>2. CASE bn # c - 1
      <4>1. b.upto = B /\ m + B <= (c - 1) * B
        BY <1>1, <1>3, <3>2
      <4>2. (c - 1) * B <= InlineFrom
        BY <1>0, <1>2, <1>5
      <4> QED BY <1>0, <1>1, <1>2, <1>5, <2>1, <4>1, <4>2
    <3> QED BY <3>1, <3>2
  <2>3. b.addr + b.from = DataAddr + pos
    BY <1>0, <1>1, <1>5, <2>1
  <2> HIDE DEF len
  <2>4. b.addr + b.from + len <= d * B + B
    <3>1. InlineFrom <= d * B
      BY <1>0, <1>2, <1>5
    <3> QED BY <1>0, <1>5, <2>2, <2>3, <3>1
  <2>5. ASSUME NEW j \in 1..len
        PROVE  Image(b.addr + b.from + j - 1) = pos + j
    <3> DEFINE k == pos + j - 1
    <3>1. k \in 0..(InlineFrom - 1) /\ k + 1 = pos + j
      BY <1>0, <1>5, <2>2
    <3>2. b.addr + b.from + j - 1 = DataAddr + k
      BY <1>0, <1>5, <2>3
    <3> HIDE DEF k
    <3> QED BY <3>1, <3>2, ImageHolds
  <2>6. b.addr \in Nat /\ b.from \in Nat
    BY <1>1, <1>5, <2>1
  <2>7. pos + len <= size
    BY <1>0, <1>5, <2>2
  <2> QED BY <1>5, <2>2, <2>4, <2>5, <2>6, <2>7 DEF len, d
<1> QED BY <1>6, <1>7

-----------------------------------------------------------------------------
LEMMA ContentSeq ==
    ASSUME NEW m \in Nat
    PROVE  /\ Content(m) \in Seq(Nat) /\ Len(Content(m)) = m
           /\ \A k \in 1..m : Content(m)[k] = k
  BY DEF Content

(* The bytes behind the beginning of a file, put behind it.                *)
LEMMA ContentJoins ==
    ASSUME NEW m \in Nat, NEW k \in Nat, NEW t, t = [j \in 1..k |-> m + j]
    PROVE  Content(m) \o t = Content(m + k)
<1>1. t \in Seq(Nat) /\ Len(t) = k
  OBVIOUS
<1>2. Content(m) \in Seq(Nat) /\ Len(Content(m)) = m
  BY ContentSeq
<1> DEFINE x == Content(m) \o t
<1>6. x \in Seq(Nat) /\ Len(x) = Len(Content(m)) + Len(t)
      /\ \A i \in 1..(Len(Content(m)) + Len(t)) :
           x[i] = IF i <= Len(Content(m)) THEN Content(m)[i] ELSE t[i - Len(Content(m))]
  BY <1>1, <1>2, Joined
<1>7. \A j \in 1..k : t[j] = m + j
  OBVIOUS
<1> HIDE DEF x
<1>3. x \in Seq(Nat) /\ Len(x) = m + k
  BY <1>1, <1>2, <1>6
<1>4. ASSUME NEW i \in 1..(m + k)
      PROVE  x[i] = i
  <2>1. x[i] = IF i <= m THEN Content(m)[i] ELSE t[i - m]
    BY <1>1, <1>2, <1>6
  <2>2. CASE i <= m
    BY <2>1, <2>2, ContentSeq
  <2>3. CASE i > m
    <3>1. i - m \in 1..k /\ ~(i <= m) /\ m + (i - m) = i
      BY <2>3
    <3> QED BY <1>7, <2>1, <3>1
  <2>4. i <= m \/ i > m
    OBVIOUS
  <2> QED BY <2>2, <2>3, <2>4
<1>5. x = [i \in 1..(m + k) |-> x[i]]
  BY <1>3
<1> QED BY <1>4, <1>5 DEF x, Content

LEMMA ZerosBehind ==
    ASSUME NEW m \in Nat, NEW k \in Nat
    PROVE  /\ Content(m) \o Zeros(k) \in Seq(Nat) /\ Len(Content(m) \o Zeros(k)) = m + k
           /\ \A i \in 1..(m + k) : (Content(m) \o Zeros(k))[i] = IF i <= m THEN i ELSE 0
           /\ k = 0 => Content(m) \o Zeros(k) = Content(m)
<1>1. Zeros(k) \in Seq(Nat) /\ Len(Zeros(k)) = k /\ \A i \in 1..k : Zeros(k)[i] = 0
  BY DEF Zeros
<1>2. Content(m) \in Seq(Nat) /\ Len(Content(m)) = m /\ \A i \in 1..m : Content(m)[i] = i
  BY ContentSeq
<1>3. \A i \in 1..(m + k) :
        (Content(m) \o Zeros(k))[i] = IF i <= m THEN Content(m)[i] ELSE Zeros(k)[i - m]
  BY <1>1, <1>2
<1>4. ASSUME NEW i \in 1..(m + k)
      PROVE  (Content(m) \o Zeros(k))[i] = IF i <= m THEN i ELSE 0
  BY <1>1, <1>2, <1>3
<1>5. ASSUME k = 0
      PROVE  Content(m) \o Zeros(k) = Content(m)
  <2>1. Zeros(k) = <<>>
    BY <1>1, <1>5
  <2> QED BY <1>2, <2>1
<1>6. Content(m) \o Zeros(k) \in Seq(Nat) /\ Len(Content(m) \o Zeros(k)) = m + k
  BY <1>1, <1>2
<1> QED BY <1>4, <1>5, <1>6

LEMMA SameInode ==
    ASSUME Geometry, UNCHANGED inode
    PROVE  /\ Geometry' /\ (Whole' <=> Whole) /\ size' = size /\ available' = available /\ eager' = eager
           /\ InodeAddr' = InodeAddr /\ InfoLength' = InfoLength
<1>1. /\ size' = size /\ layout' = layout /\ core' = core /\ place' = place
      /\ metaFirst' = metaFirst /\ available' = available /\ eager' = eager
  BY DEF inode
<1>2. InlineFrom' = InlineFrom
  BY <1>1 DEF InlineFrom, BlocksOf
<1>3. Fitting' <=> Fitting
  BY <1>1, <1>2 DEF Fitting
<1>4. InodeAddr' = InodeAddr /\ InfoLength' = InfoLength
  BY <1>1 DEF InodeAddr, MetaAddr, DataBlocks, BlocksOf, InfoLength
<1>5. Whole' <=> Whole
  BY <1>1 DEF Whole, DataBlocks, BlocksOf
<1> QED BY <1>1, <1>3, <1>4, <1>5 DEF Geometry

(* Until the reading is over, what was given is the file up to the offset. *)
LEMMA StillReading ==
    ASSUME IInv, UNCHANGED inode, Progress', state' # "ended"
    PROVE  IInv'
<1>1. Geometry' /\ size' = size /\ size \in Nat
  BY SameInode DEF IInv, Geometry
<1>2. offset' \in 0..size /\ given' = Content(offset')
  <2>1. given' = Content(offset)'
    BY DEF Progress
  <2> QED BY <1>1, <2>1 DEF Progress, Content
<1>3. offset' \in Nat /\ offset' <= size
  BY <1>1, <1>2
<1> DEFINE m == offset'
<1> HIDE DEF m
<1>4. m \in Nat /\ m <= size /\ given' = Content(m)
  BY <1>2, <1>3 DEF m
<1>5. given' \in Seq(Nat) /\ Len(given') = m /\ \A k \in 1..m : given'[k] = k
  BY <1>4, ContentSeq
<1>6. DOMAIN given' = 1..m
  BY <1>5
<1> QED BY <1>1, <1>4, <1>5, <1>6 DEF IInv, InOrder, AllRead

(* The end: all but ReadFile leave what was given, ReadFile fills up.      *)
LEMMA TheEnd ==
    ASSUME IInv, UNCHANGED inode, Progress', state' = "ended", NEW m \in 0..size,
           given' = IF op' = "readfile" THEN Content(m) \o Zeros(size - m) ELSE Content(m),
           Whole /\ InodeAddr + InfoLength <= available => m = size,
           op' = "readfile" /\ m # size => ~Whole
    PROVE  IInv'
<1>1. /\ Geometry' /\ size' = size /\ size \in Nat /\ (Whole' <=> Whole) /\ available' = available
      /\ InodeAddr' = InodeAddr /\ InfoLength' = InfoLength
  BY SameInode DEF IInv, Geometry
<1>2. m \in Nat /\ size - m \in Nat /\ m <= size /\ m + (size - m) = size
  BY <1>1
<1>3. m = size => given' = Content(size)
  <2> SUFFICES ASSUME m = size
               PROVE  given' = Content(size)
    OBVIOUS
  <2>1. size - m = 0 /\ 0 \in Nat
    BY <1>1
  <2>2. Content(m) \o Zeros(0) = Content(m)
    BY <1>2, <2>1, ZerosBehind
  <2> QED BY <2>1, <2>2
<1>4. CASE op' # "readfile"
  <2>1. given' = Content(m)
    BY <1>4
  <2>2. given' \in Seq(Nat) /\ Len(given') = m /\ \A k \in 1..m : given'[k] = k
    BY <1>2, <2>1, ContentSeq
  <2>3. DOMAIN given' = 1..m
    BY <2>2
  <2>4. InOrder' /\ given' \in Seq(Nat) /\ Len(given') <= size'
    BY <1>1, <1>2, <2>2, <2>3 DEF InOrder
  <2>5. AllRead'
    BY <1>1, <1>3 DEF AllRead, Content
  <2> QED BY <1>1, <2>4, <2>5 DEF IInv
<1>5. CASE op' = "readfile"
  <2> DEFINE x == Content(m) \o Zeros(size - m)
  <2>1. given' = x
    BY <1>5
  <2>2. x \in Seq(Nat) /\ Len(x) = size /\ \A k \in 1..size : x[k] = IF k <= m THEN k ELSE 0
    <3> DEFINE z == size - m
    <3>1. z \in Nat /\ m + z = size
      BY <1>2
    <3> HIDE DEF z
    <3>2. /\ Content(m) \o Zeros(z) \in Seq(Nat) /\ Len(Content(m) \o Zeros(z)) = m + z
          /\ \A i \in 1..(m + z) : (Content(m) \o Zeros(z))[i] = IF i <= m THEN i ELSE 0
      BY <1>2, <3>1, ZerosBehind
    <3> QED BY <3>1, <3>2 DEF z
  <2> HIDE DEF x
  <2>3. DOMAIN given' = 1..size
    BY <2>1, <2>2
  <2>4. ASSUME NEW k \in 1..size
        PROVE  given'[k] = k \/ (given'[k] = 0 /\ ~Whole)
    <3>1. CASE m = size
      <4>1. given'[k] = k
        BY <1>1, <2>1, <2>2, <3>1
      <4> QED BY <4>1
    <3>2. CASE m # size
      BY <1>5, <2>1, <2>2, <3>2
    <3> QED BY <3>1, <3>2
  <2>7. InOrder'
    BY <1>1, <1>5, <2>3, <2>4 DEF InOrder
  <2>8. given' \in Seq(Nat) /\ Len(given') = size
    BY <2>1, <2>2
  <2>5. given' \in Seq(Nat) /\ Len(given') <= size'
    BY <1>1, <2>8
  <2>6. AllRead'
    BY <1>1, <1>3 DEF AllRead, Content
  <2> QED BY <1>1, <2>5, <2>6, <2>7 DEF IInv
<1> QED BY <1>4, <1>5

LEMMA IInvInit == Init => IInv
<1> SUFFICES ASSUME Init
             PROVE  IInv
  OBVIOUS
<1>1. Geometry
  <2>1. size \in Nat /\ place \in 0..(B - 1)
    BY ReadAssumption DEF Init, B
  <2>2. core \in Nat /\ core <= Extended
    BY ReadAssumption DEF Init
  <2> QED BY <2>1, <2>2 DEF Init, Geometry
<1>2. given = <<>> /\ Content(0) = <<>> /\ size \in Nat
  BY <1>1 DEF Init, Content, Geometry
<1>5. /\ op = "none" /\ state = "idle" /\ known = FALSE /\ offset = 0 /\ room = 0 /\ n = 0
      /\ given = Content(0) /\ offset \in 0..size
  BY <1>2 DEF Init
<1>3. Progress
  BY <1>5 DEF Progress
<1>4. InOrder /\ AllRead /\ given \in Seq(Nat) /\ Len(given) <= size
  BY <1>2 DEF Init, InOrder, AllRead
<1> QED BY <1>1, <1>3, <1>4 DEF IInv

LEMMA CallKeeps ==
    ASSUME IInv, Call
    PROVE  IInv'
<1>1. /\ state = "idle" /\ op # "readfile" /\ UNCHANGED inode /\ offset' = offset /\ given' = given
      /\ known' = known /\ n' = 0 /\ state' \in {"copy", "info"}
      /\ \/ op' = "read" /\ room' \in Nat
         \/ op = "none" /\ op' = "readfile" /\ room' = size
  BY ReadAssumption DEF Call
<1>2. size' = size /\ size \in Nat
  BY <1>1, SameInode DEF IInv, Geometry
<1>3. Content(offset)' = Content(offset)
  BY <1>1 DEF Content
<1>4. Progress'
  BY <1>1, <1>2, <1>3 DEF IInv, Progress
<1> QED BY <1>1, <1>4, StillReading

LEMMA ReadInfoKeeps ==
    ASSUME IInv, ReadInfo
    PROVE  IInv'
<1>1. /\ state = "info" /\ UNCHANGED inode /\ op' = op /\ offset' = offset /\ room' = room /\ n' = n
      /\ op \in {"read", "readfile"} /\ size \in Nat
  BY DEF ReadInfo, IInv, Progress, Geometry
<1>2. size' = size /\ Content(offset)' = Content(offset)
  BY <1>1, SameInode DEF IInv, Content
<1>3. CASE ~Fails(InodeAddr, InfoLength)
  <2>1. known' = TRUE /\ state' = "copy" /\ given' = given
    BY <1>3 DEF ReadInfo
  <2>2. Progress'
    BY <1>1, <1>2, <2>1 DEF IInv, Progress
  <2> QED BY <1>1, <2>1, <2>2, StillReading
<1>4. CASE Fails(InodeAddr, InfoLength) /\ op = "readfile"
  <2>1. known' = known /\ state' = "failed" /\ given' = given
    BY <1>4 DEF ReadInfo, Returns
  <2>2. Progress'
    BY <1>1, <1>2, <2>1 DEF IInv, Progress
  <2> QED BY <1>1, <2>1, <2>2, StillReading
<1>5. CASE Fails(InodeAddr, InfoLength) /\ op = "read"
  <2>1. known' = known /\ state' = "ended" /\ given' = given
    BY <1>5 DEF ReadInfo, Returns
  <2>2. Progress'
    BY <1>1, <1>2, <1>5, <2>1 DEF IInv, Progress
  <2>3. ~(Whole /\ InodeAddr + InfoLength <= available)
    <3> SUFFICES ASSUME Whole, InodeAddr + InfoLength <= available
                 PROVE  FALSE
      OBVIOUS
    <3>1. InodeAddr + InfoLength > available
      BY <1>5 DEF Whole, Fails
    <3>2. InodeAddr + InfoLength \in Int /\ available \in Int
      <4>3. available \in Nat
        BY WholeHeld DEF IInv
      <4>4. MetaAddr \in Nat /\ place \in Int
        BY Places0, ReadAssumption DEF IInv, Geometry, B
      <4>1. InodeAddr \in Int /\ available \in Int
        BY <4>3, <4>4 DEF InodeAddr
      <4>2. InfoLength \in Int
        BY ReadAssumption DEF InfoLength, IInv, Geometry, B
      <4> QED BY <4>1, <4>2
    <3> QED BY <3>1, <3>2
  <2>4. offset \in 0..size /\ given = Content(offset)
    BY <1>1 DEF IInv, Progress
  <2> QED BY <1>1, <1>5, <2>1, <2>2, <2>3, <2>4, TheEnd
<1> QED BY <1>1, <1>3, <1>4, <1>5

LEMMA CopyBlockKeeps ==
    ASSUME IInv, CopyBlock
    PROVE  IInv'
<1> DEFINE b == LoadBlock(offset)
           len == b.upto - b.from
           k == Min({room, len})
           t == [j \in 1..k |-> Image(b.addr + b.from + j - 1)]
<1>1. /\ state = "copy" /\ room > 0 /\ offset < size /\ UNCHANGED inode /\ op' = op
      /\ state' = state /\ known' = known
      /\ given' = given \o t /\ n' = n + k /\ room' = room - k /\ offset' = offset + k
  BY DEF CopyBlock
<1>2. /\ offset \in 0..(size - 1) /\ given = Content(offset) /\ room \in Nat /\ n \in Nat /\ size \in Nat
      /\ offset \in Nat
      /\ (op = "readfile" => offset + room = size) /\ op \in {"read", "readfile"} /\ known \in BOOLEAN
  BY <1>1 DEF IInv, Progress, Geometry
<1>3. /\ len \in Nat \ {0} /\ offset + len <= size
      /\ \A j \in 1..len : Image(b.addr + b.from + j - 1) = offset + j
  BY <1>2, BlockHolds DEF IInv
<1> HIDE DEF b, len
<1>4. k = IF room <= len THEN room ELSE len
  BY <1>2, <1>3, MinOfTwo
<1> HIDE DEF k
<1>5. k \in Nat /\ k <= room /\ k <= len
  BY <1>2, <1>3, <1>4
<1>6. t = [j \in 1..k |-> offset + j]
  BY <1>2, <1>3, <1>5
<1> HIDE DEF t
<1>7. given' = Content(offset + k)
  BY <1>1, <1>2, <1>5, <1>6, ContentJoins
<1>8. size' = size /\ Content(offset)' = Content(offset + k)
  BY <1>1, SameInode DEF IInv, Content
<1>9. offset' \in 0..size' /\ room' \in Nat /\ n' \in Nat /\ (op = "readfile" => offset' + room' = size')
  BY <1>1, <1>2, <1>3, <1>5, <1>8
<1>10. Progress'
  BY <1>1, <1>2, <1>7, <1>8, <1>9 DEF Progress
<1> QED BY <1>1, <1>10, StillReading

LEMMA BlockMissingKeeps ==
    ASSUME IInv, BlockMissing
    PROVE  IInv'
<1> DEFINE b == LoadBlock(offset)
           len == b.upto - b.from
<1>1. /\ state = "copy" /\ offset < size /\ UNCHANGED inode /\ op' = op
      /\ known' = known /\ room' = room /\ n' = n /\ Fails(b.addr + b.from, len)
  BY DEF BlockMissing
<1>2. /\ offset \in 0..(size - 1) /\ given = Content(offset) /\ room \in Nat /\ n \in Nat /\ size \in Nat
      /\ offset \in Nat
      /\ op \in {"read", "readfile"} /\ known \in BOOLEAN
  BY <1>1 DEF IInv, Progress, Geometry
<1>3. /\ b.addr \in Nat /\ b.from \in Nat /\ len \in Nat \ {0}
      /\ b.addr + b.from + len <= (DataBlocks(size, layout) + 1) * B
  BY <1>2, BlockHolds DEF IInv
<1> HIDE DEF b, len
<1>4. ~Whole
  <2> SUFFICES ASSUME Whole
               PROVE  FALSE
    OBVIOUS
  <2>1. available \in Nat /\ available = (DataBlocks(size, layout) + 1) * B /\ ~eager
    BY WholeHeld DEF IInv
  <2>3. b.addr + b.from + len > available
    BY <1>1, <2>1 DEF Fails
  <2> QED BY <1>3, <2>1, <2>3
<1>5. state' = "ended" /\ given' = IF op = "readfile" THEN given \o Zeros(size - Len(given)) ELSE given
  BY <1>2 DEF BlockMissing, Returns
<1>6. Len(given) = offset
  BY <1>2, ContentSeq
<1>7. offset \in 0..size
  BY <1>2
<1>8. Progress'
  BY <1>1, <1>2, <1>5 DEF Progress
<1>9. given' = IF op' = "readfile" THEN Content(offset) \o Zeros(size - offset) ELSE Content(offset)
  BY <1>1, <1>2, <1>5, <1>6
<1> QED BY <1>1, <1>4, <1>5, <1>7, <1>8, <1>9, TheEnd

LEMMA ReadDoneKeeps ==
    ASSUME IInv, ReadDone
    PROVE  IInv'
<1>1. /\ state = "copy" /\ UNCHANGED inode /\ op' = op /\ known' = known /\ offset' = offset
      /\ room' = room /\ n' = n
  BY DEF ReadDone
<1>2. /\ offset \in 0..size /\ given = Content(offset) /\ room \in Nat /\ n \in Nat /\ size \in Nat
      /\ offset \in Nat
      /\ (op = "readfile" => offset + room = size) /\ op \in {"read", "readfile"} /\ known \in BOOLEAN
  BY <1>1 DEF IInv, Progress, Geometry
<1>3. size' = size /\ Content(offset)' = Content(offset)
  BY <1>1, SameInode DEF IInv, Content
<1>4. CASE room = 0 /\ op = "read"
  <2>1. state' = "idle" /\ given' = given
    BY <1>4 DEF ReadDone, Returns
  <2>2. Progress'
    BY <1>1, <1>2, <1>3, <1>4, <2>1 DEF Progress
  <2> QED BY <1>1, <2>1, <2>2, StillReading
<1>5. CASE ~(room = 0 /\ op = "read")
  <2>1. /\ state' = "ended" /\ offset = size
        /\ given' = IF op = "readfile" THEN given \o Zeros(size - Len(given)) ELSE given
    <3>1. CASE room = 0
      BY <1>2, <1>5, <3>1 DEF ReadDone, Returns
    <3>2. CASE room # 0
      BY <1>2, <3>2 DEF ReadDone, Returns
    <3> QED BY <3>1, <3>2
  <2>2. Len(given) = offset
    BY <1>2, ContentSeq
  <2>3. Progress'
    BY <1>1, <1>2, <2>1 DEF Progress
  <2>4. given' = IF op' = "readfile" THEN Content(offset) \o Zeros(size - offset) ELSE Content(offset)
    BY <1>1, <1>2, <2>1, <2>2
  <2> QED BY <1>1, <1>2, <2>1, <2>3, <2>4, TheEnd
<1> QED BY <1>4, <1>5

LEMMA IInvStep == IInv /\ [Next]_vars => IInv'
<1> SUFFICES ASSUME IInv, [Next]_vars
             PROVE  IInv'
  OBVIOUS
<1>1. CASE UNCHANGED vars
  <2>1. /\ UNCHANGED inode /\ op' = op /\ state' = state /\ known' = known /\ offset' = offset
        /\ room' = room /\ n' = n /\ given' = given
    BY <1>1 DEF vars
  <2>2. Content(offset)' = Content(offset) /\ size' = size
    BY <2>1, SameInode DEF Content, IInv
  <2>3. Geometry' /\ (Whole' <=> Whole) /\ InodeAddr' = InodeAddr /\ InfoLength' = InfoLength /\ available' = available
    BY <2>1, SameInode DEF IInv
  <2>4. Progress'
    BY <2>1, <2>2 DEF IInv, Progress
  <2>5. InOrder' /\ AllRead'
    BY <2>1, <2>2, <2>3 DEF IInv, InOrder, AllRead, Content
  <2> QED BY <2>1, <2>2, <2>3, <2>4, <2>5 DEF IInv
<1> QED BY <1>1, CallKeeps, ReadInfoKeeps, CopyBlockKeeps, BlockMissingKeeps, ReadDoneKeeps DEF Next

-----------------------------------------------------------------------------
(* The offset stays in the file until the end, and no more is given than   *)
(* the file has.                                                           *)
THEOREM Typed == Spec => []TypeOK
<1>1. IInv => TypeOK
  BY DEF IInv, Progress, TypeOK
<1> QED BY <1>1, IInvInit, IInvStep, PTL DEF Spec

(* Read and loadBlock: for every block size, place of the inode and cut of *)
(* the buffers, the bytes come in order and from nowhere else.             *)
THEOREM BytesInOrder == Spec => []InOrder
<1>1. IInv => InOrder
  BY DEF IInv
<1> QED BY <1>1, IInvInit, IInvStep, PTL DEF Spec

(* A reader that has the whole image, and the bytes readInfo reads: no end *)
(* is reported before all of the file was given.                           *)
THEOREM WholeFileRead == Spec => []AllRead
<1>1. IInv => AllRead
  BY DEF IInv
<1> QED BY <1>1, IInvInit, IInvStep, PTL DEF Spec
-----------------------------------------------------------------------------
(***************************************************************************)
(* The shared block buffers (BlockPool), for any number of readers,        *)
(* buffers, loads and calls.  The invariants follow from what a reader     *)
(* holds at each point of a call: slots that may be full (MayHold), slots  *)
(* that must be (MustHold), and the bytes of whatever it holds.            *)
(***************************************************************************)
Points == {"idle", "info", "inode", "body", "load", "use", "search", "xattrs",
           "window", "shared", "prefix", "prefixes", "named", "release", "close"}

(* The block a reader has at a point of a call, with the inode's own.      *)
MayHold(l) ==
    CASE l = "inode" -> {"blk"}
      [] l \in {"load", "search"} -> {"cached", "lastBlk"}
      [] l = "use" -> {"cached", "lastBlk", "blk"}
      [] l \in {"window", "named"} -> {"cached", "blk"}
      [] l \in {"shared", "prefix"} -> {"cached", "blk", "sblk"}
      [] l = "prefixes" -> {"cached", "blk", "sblk", "prefix"}
      [] l = "info" -> {}
      [] OTHER -> {"cached"}

MustHold(l) ==
    CASE l \in {"inode", "use", "window", "named", "prefix", "prefixes"} -> {"blk"}
      [] l = "shared" -> {"blk", "sblk"}
      [] l = "search" -> {"lastBlk"}
      [] OTHER -> {}

(* At each point just these slots are full, and nothing of a closed file.  *)
DisciplineOf(r) ==
    /\ \A s \in Slots : Holds(r, s) => s \in MayHold(pc[r])
    /\ \A s \in MustHold(pc[r]) : Holds(r, s)
    /\ pc[r] \notin {"idle", "close"} => call[r] # "close"
    /\ pc[r] = "idle" /\ call[r] = "close" => ~Holds(r, "cached")
    /\ ~info[r] => ~Holds(r, "cached")
    /\ Holds(r, "lastBlk") => call[r] = "lookup"
Discipline == \A r \in Readers : DisciplineOf(r)

(* A block in somebody's hands has the bytes its holder read.              *)
OwnBytes ==
    \A r \in Readers, s \in Slots : Holds(r, s) => data[held[r][s]] = r

BlocksOK ==
    /\ pool \in [Blocks -> Nat]
    /\ held \in [Readers -> [Slots -> Blocks \cup {NoBlock}]]
    /\ data \in [Blocks -> Readers \cup {NoBlock}]
    /\ NoSharing /\ OwnBytes

PointsOK ==
    /\ pc \in [Readers -> Points]
    /\ call \in [Readers -> Calls] /\ info \in [Readers -> BOOLEAN]
    /\ left \in [Readers -> 0..MaxLoads] /\ calls \in [Readers -> 0..MaxCalls]
    /\ once \in {"new", "done"} \cup Readers

PoolInv == BlocksOK /\ PointsOK /\ Discipline

-----------------------------------------------------------------------------
(* getBlock and the read into it fill one slot, with a block nobody had    *)
(* and the reader's own bytes, and leave every other slot alone.           *)
LEMMA LoadFills ==
    ASSUME BlocksOK, NEW r \in Readers, NEW s \in Slots, Load(r, s)
    PROVE  /\ BlocksOK'
           /\ held'[r][s] # NoBlock
           /\ \A q \in Readers, t \in Slots :
                q # r \/ t # s => held'[q][t] = held[q][t]
<1>1. PICK b \in Blocks :
        /\ pool[b] > 0 \/ Unused(b)
        /\ pool' = [pool EXCEPT ![b] = IF @ > 0 THEN @ - 1 ELSE 0]
        /\ held' = [held EXCEPT ![r][s] = b]
        /\ data' = [data EXCEPT ![b] = r]
  <2>1. (\E x \in Blocks : Unused(x)) => Make \in Blocks /\ Unused(Make)
    BY DEF Make
  <2> QED BY <2>1 DEF Load
<1>2. b # NoBlock
  BY PoolAssumption
<1>3. /\ pool' \in [Blocks -> Nat]
      /\ held' \in [Readers -> [Slots -> Blocks \cup {NoBlock}]]
      /\ data' \in [Blocks -> Readers \cup {NoBlock}]
  BY <1>1 DEF BlocksOK
<1>4. /\ held'[r][s] = b
      /\ \A q \in Readers, t \in Slots :
           q # r \/ t # s => held'[q][t] = held[q][t]
  BY <1>1 DEF BlocksOK
<1>5. \A q \in Readers, t \in Slots : held[q][t] # b
  BY <1>1, <1>2 DEF BlocksOK, NoSharing, Holds, Unused
<1>6. pool'[b] = 0 /\ \A x \in Blocks : x # b => pool'[x] = pool[x]
  BY <1>1 DEF BlocksOK, NoSharing, Unused
<1>7. NoSharing'
  BY <1>2, <1>3, <1>4, <1>5, <1>6 DEF BlocksOK, NoSharing, Holds
<1>8. OwnBytes'
  BY <1>1, <1>3, <1>4, <1>5 DEF BlocksOK, OwnBytes, Holds
<1> QED BY <1>2, <1>3, <1>4, <1>7, <1>8 DEF BlocksOK

(* putBlock empties its slots: what was there is once in the pool.         *)
LEMMA PutEmpties ==
    ASSUME BlocksOK, NEW r \in Readers, NEW ss \in SUBSET Slots, Put(r, ss)
    PROVE  /\ BlocksOK'
           /\ \A s \in ss : held'[r][s] = NoBlock
           /\ \A q \in Readers, t \in Slots :
                q # r \/ t \notin ss => held'[q][t] = held[q][t]
<1>1. /\ held' \in [Readers -> [Slots -> Blocks \cup {NoBlock}]]
      /\ \A s \in ss : held'[r][s] = NoBlock
      /\ \A q \in Readers, t \in Slots :
           q # r \/ t \notin ss => held'[q][t] = held[q][t]
  BY DEF Put, BlocksOK
<1>2. pool' = [b \in Blocks |-> Returned(r, ss, b)] /\ data' = data
  BY DEF Put
<1>3. pool' \in [Blocks -> Nat]
  BY <1>2 DEF Returned, BlocksOK
<1>4. NoSharing'
  <2>1. \A b \in Blocks : pool'[b] <= 1
    <3> SUFFICES ASSUME NEW b \in Blocks
                 PROVE  Returned(r, ss, b) <= 1
      BY <1>2
    <3>1. CASE \E s \in ss : held[r][s] = b
      <4>1. PICK s \in ss : held[r][s] = b
        BY <3>1
      <4>2. Holds(r, s)
        BY <4>1, PoolAssumption DEF Holds
      <4>3. pool[b] = 0
        BY <4>1, <4>2 DEF BlocksOK, NoSharing
      <4> QED BY <4>3 DEF Returned
    <3>2. CASE ~ \E s \in ss : held[r][s] = b
      BY <3>2 DEF Returned, BlocksOK, NoSharing
    <3> QED BY <3>1, <3>2
  <2>2. ASSUME NEW q \in Readers, NEW t \in Slots, Holds(q, t)'
        PROVE  /\ pool'[held'[q][t]] = 0
               /\ \A u \in Readers, v \in Slots : held'[u][v] = held'[q][t] => u = q /\ v = t
    <3>1. held'[q][t] = held[q][t] /\ Holds(q, t) /\ held[q][t] \in Blocks
      BY <1>1, <2>2 DEF BlocksOK, Holds
    <3>2. q # r \/ t \notin ss
      BY <1>1, <2>2 DEF Holds
    <3>3. ~ \E s \in ss : held[r][s] = held[q][t]
      BY <3>1, <3>2 DEF BlocksOK, NoSharing
    <3>4. pool'[held'[q][t]] = 0
      BY <1>2, <3>1, <3>3 DEF Returned, BlocksOK, NoSharing
    <3>5. ASSUME NEW u \in Readers, NEW v \in Slots, held'[u][v] = held'[q][t]
          PROVE  u = q /\ v = t
      <4>1. held[u][v] = held[q][t]
        BY <1>1, <3>1, <3>5 DEF Holds
      <4> QED BY <3>1, <4>1 DEF BlocksOK, NoSharing
    <3> QED BY <3>4, <3>5
  <2> QED BY <2>1, <2>2 DEF NoSharing
<1>5. OwnBytes'
  BY <1>1, <1>2 DEF BlocksOK, OwnBytes, Holds
<1> QED BY <1>1, <1>2, <1>3, <1>4, <1>5 DEF BlocksOK

(* A full blk becomes the inode's block, or lookup's last one, whose own   *)
(* block goes back first.                                                  *)
LEMMA MoveKeeps ==
    ASSUME BlocksOK, NEW r \in Readers, NEW s \in {"cached", "lastBlk"}, Holds(r, "blk"),
           \/ pool' = [b \in Blocks |-> Returned(r, {s}, b)]
           \/ pool' = pool /\ ~Holds(r, s),
           held' = [held EXCEPT ![r][s] = held[r]["blk"], ![r]["blk"] = NoBlock],
           data' = data
    PROVE  /\ BlocksOK'
           /\ held'[r]["blk"] = NoBlock /\ held'[r][s] # NoBlock
           /\ \A q \in Readers, t \in Slots :
                q # r \/ t \notin {s, "blk"} => held'[q][t] = held[q][t]
<1>1. /\ held' \in [Readers -> [Slots -> Blocks \cup {NoBlock}]]
      /\ held'[r]["blk"] = NoBlock /\ held'[r][s] = held[r]["blk"]
      /\ \A q \in Readers, t \in Slots :
           q # r \/ t \notin {s, "blk"} => held'[q][t] = held[q][t]
  BY DEF BlocksOK, Slots
<1>2. \A b \in Blocks : pool'[b] = Returned(r, {s}, b)
  BY PoolAssumption DEF Returned, Holds, BlocksOK
<1>3. pool' \in [Blocks -> Nat]
  BY DEF Returned, BlocksOK
<1>4. NoSharing'
  <2>1. \A b \in Blocks : pool'[b] <= 1
    <3> SUFFICES ASSUME NEW b \in Blocks
                 PROVE  Returned(r, {s}, b) <= 1
      BY <1>2
    <3>1. CASE held[r][s] = b
      <4>1. Holds(r, s) /\ s \in Slots
        BY <3>1, PoolAssumption DEF Holds, Slots
      <4>2. pool[b] = 0
        BY <3>1, <4>1 DEF BlocksOK, NoSharing
      <4> QED BY <4>2 DEF Returned
    <3>2. CASE held[r][s] # b
      BY <3>2 DEF Returned, BlocksOK, NoSharing
    <3> QED BY <3>1, <3>2
  <2> DEFINE Was(q, t) == IF q = r /\ t = s THEN "blk" ELSE t
  <2>2. ASSUME NEW q \in Readers, NEW t \in Slots, held'[q][t] # NoBlock
        PROVE  /\ Was(q, t) \in Slots /\ held[q][Was(q, t)] = held'[q][t]
               /\ Holds(q, Was(q, t))
               /\ t # "blk" \/ q # r
    BY <1>1, <2>2 DEF Slots, Holds
  <2>3. ASSUME NEW q \in Readers, NEW t \in Slots, Holds(q, t)'
        PROVE  /\ pool'[held'[q][t]] = 0
               /\ \A u \in Readers, v \in Slots : held'[u][v] = held'[q][t] => u = q /\ v = t
    <3>1. held'[q][t] # NoBlock
      BY <2>3 DEF Holds
    <3>2. /\ held[q][Was(q, t)] = held'[q][t] /\ Was(q, t) \in Slots
          /\ Holds(q, Was(q, t)) /\ (t # "blk" \/ q # r)
      BY <2>2, <3>1
    <3>3. held'[q][t] \in Blocks
      BY <1>1, <3>1
    <3>4. held[r][s] # held'[q][t]
      <4>1. PICK w \in Slots : held[q][w] = held'[q][t] /\ Holds(q, w) /\ ~(q = r /\ w = s)
        <5>1. CASE q = r /\ t = s
          BY <3>2, <5>1
        <5>2. CASE ~(q = r /\ t = s)
          BY <3>2, <5>2
        <5> QED BY <5>1, <5>2
      <4>2. s \in Slots
        BY DEF Slots
      <4> QED BY <4>1, <4>2 DEF BlocksOK, NoSharing
    <3>5. pool'[held'[q][t]] = 0
      <4> HIDE DEF Was
      <4> QED BY <1>2, <3>2, <3>3, <3>4 DEF Returned, BlocksOK, NoSharing
    <3>6. ASSUME NEW u \in Readers, NEW v \in Slots, held'[u][v] = held'[q][t]
          PROVE  u = q /\ v = t
      <4>1. /\ held[u][Was(u, v)] = held'[u][v] /\ Was(u, v) \in Slots
            /\ v # "blk" \/ u # r
        BY <2>2, <3>1, <3>6
      <4>2. u = q /\ Was(u, v) = Was(q, t)
        <5> HIDE DEF Was
        <5> QED BY <3>2, <3>6, <4>1 DEF BlocksOK, NoSharing
      <4> QED BY <3>2, <4>1, <4>2
    <3> QED BY <3>5, <3>6
  <2> QED BY <2>1, <2>3 DEF NoSharing
<1>5. OwnBytes'
  <2> SUFFICES ASSUME NEW q \in Readers, NEW t \in Slots, held'[q][t] # NoBlock
               PROVE  data[held'[q][t]] = q
    BY DEF OwnBytes, Holds
  <2>1. CASE q = r /\ t = s
    BY <1>1, <2>1 DEF BlocksOK, OwnBytes, Slots, Holds
  <2>2. CASE ~(q = r /\ t = s)
    <3>1. held'[q][t] = held[q][t]
      BY <1>1, <2>2
    <3> QED BY <3>1 DEF BlocksOK, OwnBytes, Holds
  <2> QED BY <2>1, <2>2
<1> QED BY <1>1, <1>3, <1>4, <1>5 DEF BlocksOK, Holds

-----------------------------------------------------------------------------
(* A step of one reader leaves the slots and the place of the others.      *)
OthersKept(r) ==
    \A q \in Readers \ {r} :
      /\ pc'[q] = pc[q] /\ call'[q] = call[q] /\ info'[q] = info[q]
      /\ \A t \in Slots : held'[q][t] = held[q][t]

LEMMA OthersKeepDiscipline ==
    ASSUME PoolInv, NEW r \in Readers, OthersKept(r), DisciplineOf(r)'
    PROVE  Discipline'
<1> SUFFICES ASSUME NEW q \in Readers \ {r}
             PROVE  DisciplineOf(q)'
  BY DEF Discipline
<1>1. MustHold(pc[q]) \subseteq Slots
  BY DEF MustHold, Slots
<1>2. DisciplineOf(q)
  BY DEF PoolInv, Discipline
<1> QED BY <1>1, <1>2 DEF OthersKept, DisciplineOf, Holds, Slots

(* readInfo, loadBlock and lookup.                                         *)
LEMMA ReadingKeeps ==
    ASSUME PoolInv, NEW r \in Readers, Reading(r)
    PROVE  PoolInv'
<1> USE DEF PoolInv
<1>0. DisciplineOf(r)
  BY DEF Discipline
<1>1. CASE InfoLoad(r)
  <2>1. BlocksOK' /\ held'[r]["blk"] # NoBlock
        /\ \A q \in Readers, t \in Slots : q # r \/ t # "blk" => held'[q][t] = held[q][t]
    BY <1>1, LoadFills DEF InfoLoad, Slots
  <2>2. PointsOK' /\ OthersKept(r)
    BY <1>1, <2>1, PoolAssumption DEF InfoLoad, Goto, PointsOK, progress, Points, OthersKept
  <2>3. DisciplineOf(r)'
    BY <1>0, <1>1, <2>1 DEF InfoLoad, Goto, PointsOK, progress, DisciplineOf, MayHold, MustHold, Holds, Slots
  <2> QED BY <2>1, <2>2, <2>3, OthersKeepDiscipline
<1>2. CASE InfoFails(r)
  <2>1. BlocksOK' /\ (\A t \in {"blk"} : held'[r][t] = NoBlock)
        /\ \A q \in Readers, t \in Slots : q # r \/ t \notin {"blk"} => held'[q][t] = held[q][t]
    BY <1>2, PutEmpties DEF InfoFails, Slots
  <2>2. PointsOK' /\ OthersKept(r)
    BY <1>2, <2>1, PoolAssumption DEF InfoFails, Goto, PointsOK, progress, Points, OthersKept
  <2>3. DisciplineOf(r)'
    BY <1>0, <1>2, <2>1 DEF InfoFails, Goto, PointsOK, progress, DisciplineOf, MayHold, MustHold, Holds, Slots
  <2> QED BY <2>1, <2>2, <2>3, OthersKeepDiscipline
<1>3. CASE InfoCached(r)
  <2>1. BlocksOK' /\ held'[r]["blk"] = NoBlock
        /\ \A q \in Readers, t \in Slots : q # r \/ t \notin {"cached", "blk"} => held'[q][t] = held[q][t]
    <3>1. Holds(r, "blk") /\ ~Holds(r, "cached")
      BY <1>0, <1>3 DEF InfoCached, DisciplineOf, MayHold, MustHold, Slots
    <3>2. held' = [held EXCEPT ![r]["cached"] = held[r]["blk"], ![r]["blk"] = NoBlock]
      BY <1>3 DEF InfoCached
    <3> QED BY <1>3, <3>1, <3>2, MoveKeeps DEF InfoCached
  <2>2. PointsOK' /\ OthersKept(r)
    BY <1>3, <2>1, PoolAssumption DEF InfoCached, Goto, PointsOK, progress, Points, OthersKept
  <2>3. DisciplineOf(r)'
    BY <1>0, <1>3, <2>1 DEF InfoCached, Goto, PointsOK, progress, DisciplineOf, MayHold, MustHold, Holds, Slots
  <2> QED BY <2>1, <2>2, <2>3, OthersKeepDiscipline
<1>4. CASE InfoDone(r)
  <2>1. BlocksOK' /\ (\A t \in {"blk"} : held'[r][t] = NoBlock)
        /\ \A q \in Readers, t \in Slots : q # r \/ t \notin {"blk"} => held'[q][t] = held[q][t]
    BY <1>4, PutEmpties DEF InfoDone, Slots
  <2>2. PointsOK' /\ OthersKept(r)
    BY <1>4, <2>1, PoolAssumption DEF InfoDone, Goto, PointsOK, progress, Points, OthersKept
  <2>3. DisciplineOf(r)'
    BY <1>0, <1>4, <2>1 DEF InfoDone, Goto, PointsOK, progress, DisciplineOf, MayHold, MustHold, Holds, Slots
  <2> QED BY <2>1, <2>2, <2>3, OthersKeepDiscipline
<1>5. CASE Body(r)
  <2>1. BlocksOK' /\ held' = held
    BY <1>5 DEF Body, BlocksOK, NoSharing, OwnBytes, Holds
  <2>2. PointsOK' /\ OthersKept(r)
    BY <1>5, <2>1, PoolAssumption DEF Body, Goto, PointsOK, progress, Points, OthersKept
  <2>3. DisciplineOf(r)'
    BY <1>0, <1>5, <2>1 DEF Body, Goto, PointsOK, progress, DisciplineOf, MayHold, MustHold, Holds, Slots
  <2> QED BY <2>1, <2>2, <2>3, OthersKeepDiscipline
<1>6. CASE BlockLoad(r)
  <2>1. BlocksOK' /\ held'[r]["blk"] # NoBlock
        /\ \A q \in Readers, t \in Slots : q # r \/ t # "blk" => held'[q][t] = held[q][t]
    BY <1>6, LoadFills DEF BlockLoad, Slots
  <2>2. PointsOK' /\ OthersKept(r)
    BY <1>6, <2>1, PoolAssumption DEF BlockLoad, Goto, PointsOK, progress, Points, OthersKept
  <2>3. DisciplineOf(r)'
    BY <1>0, <1>6, <2>1 DEF BlockLoad, Goto, PointsOK, progress, DisciplineOf, MayHold, MustHold, Holds, Slots
  <2> QED BY <2>1, <2>2, <2>3, OthersKeepDiscipline
<1>7. CASE BlockFails(r)
  <2>1. BlocksOK' /\ (\A t \in {"blk", "lastBlk"} : held'[r][t] = NoBlock)
        /\ \A q \in Readers, t \in Slots : q # r \/ t \notin {"blk", "lastBlk"} => held'[q][t] = held[q][t]
    BY <1>7, PutEmpties DEF BlockFails, Slots
  <2>2. PointsOK' /\ OthersKept(r)
    BY <1>7, <2>1, PoolAssumption DEF BlockFails, Goto, PointsOK, progress, Points, OthersKept
  <2>3. DisciplineOf(r)'
    BY <1>0, <1>7, <2>1 DEF BlockFails, Goto, PointsOK, progress, DisciplineOf, MayHold, MustHold, Holds, Slots
  <2> QED BY <2>1, <2>2, <2>3, OthersKeepDiscipline
<1>8. CASE Copied(r)
  <2>1. BlocksOK' /\ (\A t \in {"blk"} : held'[r][t] = NoBlock)
        /\ \A q \in Readers, t \in Slots : q # r \/ t \notin {"blk"} => held'[q][t] = held[q][t]
    BY <1>8, PutEmpties DEF Copied, Slots
  <2>2. PointsOK' /\ OthersKept(r)
    BY <1>8, <2>1, PoolAssumption DEF Copied, Goto, PointsOK, progress, Points, OthersKept
  <2>3. DisciplineOf(r)'
    BY <1>0, <1>8, <2>1 DEF Copied, Goto, PointsOK, progress, DisciplineOf, MayHold, MustHold, Holds, Slots
  <2> QED BY <2>1, <2>2, <2>3, OthersKeepDiscipline
<1>9. CASE Keep(r)
  <2>1. BlocksOK' /\ held'[r]["blk"] = NoBlock
        /\ \A q \in Readers, t \in Slots : q # r \/ t \notin {"lastBlk", "blk"} => held'[q][t] = held[q][t]
    <3>1. Holds(r, "blk")
      BY <1>0, <1>9 DEF Keep, DisciplineOf, MayHold, MustHold, Slots
    <3>2. held' = [held EXCEPT ![r]["lastBlk"] = held[r]["blk"], ![r]["blk"] = NoBlock]
      BY <1>9 DEF Keep
    <3> QED BY <1>9, <3>1, <3>2, MoveKeeps DEF Keep
  <2>2. PointsOK' /\ OthersKept(r)
    BY <1>9, <2>1, PoolAssumption DEF Keep, Goto, PointsOK, progress, Points, OthersKept
  <2>3. DisciplineOf(r)'
    BY <1>0, <1>9, <2>1 DEF Keep, Goto, PointsOK, progress, DisciplineOf, MayHold, MustHold, Holds, Slots
  <2> QED BY <2>1, <2>2, <2>3, OthersKeepDiscipline
<1>10. CASE EndOfBlocks(r)
  <2>1. BlocksOK' /\ held' = held
    BY <1>10 DEF EndOfBlocks, BlocksOK, NoSharing, OwnBytes, Holds
  <2>2. PointsOK' /\ OthersKept(r)
    BY <1>10, <2>1, PoolAssumption DEF EndOfBlocks, Goto, PointsOK, progress, Points, OthersKept
  <2>3. DisciplineOf(r)'
    BY <1>0, <1>10, <2>1 DEF EndOfBlocks, Goto, PointsOK, progress, DisciplineOf, MayHold, MustHold, Holds, Slots
  <2> QED BY <2>1, <2>2, <2>3, OthersKeepDiscipline
<1>11. CASE Search(r)
  <2>1. BlocksOK' /\ (\A t \in {"lastBlk"} : held'[r][t] = NoBlock)
        /\ \A q \in Readers, t \in Slots : q # r \/ t \notin {"lastBlk"} => held'[q][t] = held[q][t]
    BY <1>11, PutEmpties DEF Search, Slots
  <2>2. PointsOK' /\ OthersKept(r)
    BY <1>11, <2>1, PoolAssumption DEF Search, Goto, PointsOK, progress, Points, OthersKept
  <2>3. DisciplineOf(r)'
    BY <1>0, <1>11, <2>1 DEF Search, Goto, PointsOK, progress, DisciplineOf, MayHold, MustHold, Holds, Slots
  <2> QED BY <2>1, <2>2, <2>3, OthersKeepDiscipline
<1> QED BY <1>1, <1>2, <1>3, <1>4, <1>5, <1>6, <1>7, <1>8, <1>9, <1>10, <1>11 DEF Reading

(* loadXattrs and the long prefixes.                                       *)
LEMMA XattrsKeep ==
    ASSUME PoolInv, NEW r \in Readers, Xattrs(r)
    PROVE  PoolInv'
<1> USE DEF PoolInv
<1>0. DisciplineOf(r)
  BY DEF Discipline
<1>1. CASE WindowLoad(r)
  <2>1. BlocksOK' /\ held'[r]["blk"] # NoBlock
        /\ \A q \in Readers, t \in Slots : q # r \/ t # "blk" => held'[q][t] = held[q][t]
    BY <1>1, LoadFills DEF WindowLoad, Slots
  <2>2. PointsOK' /\ OthersKept(r)
    BY <1>1, <2>1, PoolAssumption DEF WindowLoad, Goto, PointsOK, progress, Points, OthersKept
  <2>3. DisciplineOf(r)'
    BY <1>0, <1>1, <2>1 DEF WindowLoad, Goto, PointsOK, progress, DisciplineOf, MayHold, MustHold, Holds, Slots
  <2> QED BY <2>1, <2>2, <2>3, OthersKeepDiscipline
<1>2. CASE XattrFails(r)
  <2>1. BlocksOK' /\ (\A t \in {"blk"} : held'[r][t] = NoBlock)
        /\ \A q \in Readers, t \in Slots : q # r \/ t \notin {"blk"} => held'[q][t] = held[q][t]
    BY <1>2, PutEmpties DEF XattrFails, Slots
  <2>2. PointsOK' /\ OthersKept(r)
    BY <1>2, <2>1, PoolAssumption DEF XattrFails, Goto, PointsOK, progress, Points, OthersKept
  <2>3. DisciplineOf(r)'
    BY <1>0, <1>2, <2>1 DEF XattrFails, Goto, PointsOK, progress, DisciplineOf, MayHold, MustHold, Holds, Slots
  <2> QED BY <2>1, <2>2, <2>3, OthersKeepDiscipline
<1>3. CASE Reload(r)
  <2>1. BlocksOK' /\ (\A t \in {"blk"} : held'[r][t] = NoBlock)
        /\ \A q \in Readers, t \in Slots : q # r \/ t \notin {"blk"} => held'[q][t] = held[q][t]
    BY <1>3, PutEmpties DEF Reload, Slots
  <2>2. PointsOK' /\ OthersKept(r)
    BY <1>3, <2>1, PoolAssumption DEF Reload, Goto, PointsOK, progress, Points, OthersKept
  <2>3. DisciplineOf(r)'
    BY <1>0, <1>3, <2>1 DEF Reload, Goto, PointsOK, progress, DisciplineOf, MayHold, MustHold, Holds, Slots
  <2> QED BY <2>1, <2>2, <2>3, OthersKeepDiscipline
<1>4. CASE SharedLoad(r)
  <2>1. BlocksOK' /\ held'[r]["sblk"] # NoBlock
        /\ \A q \in Readers, t \in Slots : q # r \/ t # "sblk" => held'[q][t] = held[q][t]
    BY <1>4, LoadFills DEF SharedLoad, Slots
  <2>2. PointsOK' /\ OthersKept(r)
    BY <1>4, <2>1, PoolAssumption DEF SharedLoad, Goto, PointsOK, progress, Points, OthersKept
  <2>3. DisciplineOf(r)'
    BY <1>0, <1>4, <2>1 DEF SharedLoad, Goto, PointsOK, progress, DisciplineOf, MayHold, MustHold, Holds, Slots
  <2> QED BY <2>1, <2>2, <2>3, OthersKeepDiscipline
<1>5. CASE SharedFails(r)
  <2>1. BlocksOK' /\ (\A t \in {"blk", "sblk"} : held'[r][t] = NoBlock)
        /\ \A q \in Readers, t \in Slots : q # r \/ t \notin {"blk", "sblk"} => held'[q][t] = held[q][t]
    BY <1>5, PutEmpties DEF SharedFails, Slots
  <2>2. PointsOK' /\ OthersKept(r)
    BY <1>5, <2>1, PoolAssumption DEF SharedFails, Goto, PointsOK, progress, Points, OthersKept
  <2>3. DisciplineOf(r)'
    BY <1>0, <1>5, <2>1 DEF SharedFails, Goto, PointsOK, progress, DisciplineOf, MayHold, MustHold, Holds, Slots
  <2> QED BY <2>1, <2>2, <2>3, OthersKeepDiscipline
<1>6. CASE SharedDone(r)
  <2>1. BlocksOK' /\ (\A t \in {"sblk"} : held'[r][t] = NoBlock)
        /\ \A q \in Readers, t \in Slots : q # r \/ t \notin {"sblk"} => held'[q][t] = held[q][t]
    BY <1>6, PutEmpties DEF SharedDone, Slots
  <2>2. PointsOK' /\ OthersKept(r)
    BY <1>6, <2>1, PoolAssumption DEF SharedDone, Goto, PointsOK, progress, Points, OthersKept
  <2>3. DisciplineOf(r)'
    BY <1>0, <1>6, <2>1 DEF SharedDone, Goto, PointsOK, progress, DisciplineOf, MayHold, MustHold, Holds, Slots
  <2> QED BY <2>1, <2>2, <2>3, OthersKeepDiscipline
<1>7. CASE XattrsDone(r)
  <2>1. BlocksOK' /\ (\A t \in {"blk"} : held'[r][t] = NoBlock)
        /\ \A q \in Readers, t \in Slots : q # r \/ t \notin {"blk"} => held'[q][t] = held[q][t]
    BY <1>7, PutEmpties DEF XattrsDone, Slots
  <2>2. PointsOK' /\ OthersKept(r)
    BY <1>7, <2>1, PoolAssumption DEF XattrsDone, Goto, PointsOK, progress, Points, OthersKept
  <2>3. DisciplineOf(r)'
    BY <1>0, <1>7, <2>1 DEF XattrsDone, Goto, PointsOK, progress, DisciplineOf, MayHold, MustHold, Holds, Slots
  <2> QED BY <2>1, <2>2, <2>3, OthersKeepDiscipline
<1>8. CASE PrefixNeeded(r)
  <2>1. BlocksOK' /\ held' = held
    BY <1>8 DEF PrefixNeeded, BlocksOK, NoSharing, OwnBytes, Holds
  <2>2. PointsOK' /\ OthersKept(r)
    BY <1>8, <2>1, PoolAssumption DEF PrefixNeeded, Goto, PointsOK, progress, Points, OthersKept
  <2>3. DisciplineOf(r)'
    BY <1>0, <1>8, <2>1 DEF PrefixNeeded, Goto, PointsOK, progress, DisciplineOf, MayHold, MustHold, Holds, Slots
  <2> QED BY <2>1, <2>2, <2>3, OthersKeepDiscipline
<1>9. CASE PrefixRuns(r)
  <2>1. BlocksOK' /\ held' = held
    BY <1>9 DEF PrefixRuns, BlocksOK, NoSharing, OwnBytes, Holds
  <2>2. PointsOK' /\ OthersKept(r)
    BY <1>9, <2>1, PoolAssumption DEF PrefixRuns, Goto, PointsOK, progress, Points, OthersKept
  <2>3. DisciplineOf(r)'
    BY <1>0, <1>9, <2>1 DEF PrefixRuns, Goto, PointsOK, progress, DisciplineOf, MayHold, MustHold, Holds, Slots
  <2> QED BY <2>1, <2>2, <2>3, OthersKeepDiscipline
<1>10. CASE PrefixLoad(r)
  <2>1. BlocksOK' /\ held'[r]["prefix"] # NoBlock
        /\ \A q \in Readers, t \in Slots : q # r \/ t # "prefix" => held'[q][t] = held[q][t]
    BY <1>10, LoadFills DEF PrefixLoad, Slots
  <2>2. PointsOK' /\ OthersKept(r)
    BY <1>10, <2>1, PoolAssumption DEF PrefixLoad, Goto, PointsOK, progress, Points, OthersKept
  <2>3. DisciplineOf(r)'
    BY <1>0, <1>10, <2>1 DEF PrefixLoad, Goto, PointsOK, progress, DisciplineOf, MayHold, MustHold, Holds, Slots
  <2> QED BY <2>1, <2>2, <2>3, OthersKeepDiscipline
<1>11. CASE PrefixRead(r)
  <2>1. BlocksOK' /\ (\A t \in {"prefix"} : held'[r][t] = NoBlock)
        /\ \A q \in Readers, t \in Slots : q # r \/ t \notin {"prefix"} => held'[q][t] = held[q][t]
    BY <1>11, PutEmpties DEF PrefixRead, Slots
  <2>2. PointsOK' /\ OthersKept(r)
    BY <1>11, <2>1, PoolAssumption DEF PrefixRead, Goto, PointsOK, progress, Points, OthersKept
  <2>3. DisciplineOf(r)'
    BY <1>0, <1>11, <2>1 DEF PrefixRead, Goto, PointsOK, progress, DisciplineOf, MayHold, MustHold, Holds, Slots
  <2> QED BY <2>1, <2>2, <2>3, OthersKeepDiscipline
<1>12. CASE PrefixKnown(r)
  <2>1. BlocksOK' /\ held'[r]["sblk"] = NoBlock
        /\ \A q \in Readers, t \in Slots : q # r \/ t # "sblk" => held'[q][t] = held[q][t]
    <3>1. CASE Put(r, {"sblk"})
      BY <3>1, PutEmpties DEF Slots
    <3>2. CASE ~Holds(r, "sblk") /\ UNCHANGED <<pool, held, data>>
      BY <3>2 DEF BlocksOK, NoSharing, OwnBytes, Holds
    <3> QED BY <1>12, <3>1, <3>2 DEF PrefixKnown
  <2>2. PointsOK' /\ OthersKept(r)
    BY <1>12, <2>1, PoolAssumption DEF PrefixKnown, Goto, PointsOK, progress, Points, OthersKept
  <2>3. DisciplineOf(r)'
    BY <1>0, <1>12, <2>1 DEF PrefixKnown, Goto, PointsOK, progress, DisciplineOf, MayHold, MustHold, Holds, Slots
  <2> QED BY <2>1, <2>2, <2>3, OthersKeepDiscipline
<1>13. CASE PrefixFails(r)
  <2>1. BlocksOK' /\ (\A t \in {"blk", "sblk"} : held'[r][t] = NoBlock)
        /\ \A q \in Readers, t \in Slots : q # r \/ t \notin {"blk", "sblk"} => held'[q][t] = held[q][t]
    BY <1>13, PutEmpties DEF PrefixFails, Slots
  <2>2. PointsOK' /\ OthersKept(r)
    BY <1>13, <2>1, PoolAssumption DEF PrefixFails, Goto, PointsOK, progress, Points, OthersKept
  <2>3. DisciplineOf(r)'
    BY <1>0, <1>13, <2>1 DEF PrefixFails, Goto, PointsOK, progress, DisciplineOf, MayHold, MustHold, Holds, Slots
  <2> QED BY <2>1, <2>2, <2>3, OthersKeepDiscipline
<1>14. CASE Named(r)
  <2>1. BlocksOK'
        /\ (held' = held \/ held'[r]["blk"] = NoBlock)
        /\ (pc'[r] = "window" => held' = held) /\ (pc'[r] # "window" => held'[r]["blk"] = NoBlock)
        /\ \A q \in Readers, t \in Slots : q # r \/ t # "blk" => held'[q][t] = held[q][t]
    <3>1. CASE Put(r, {"blk"}) /\ pc'[r] # "window"
      BY <3>1, PutEmpties DEF Slots
    <3>2. CASE UNCHANGED <<pool, held, data>> /\ pc'[r] = "window"
      BY <3>2 DEF BlocksOK, NoSharing, OwnBytes, Holds
    <3> QED BY <1>14, <3>1, <3>2 DEF Named, Goto, PointsOK
  <2>2. PointsOK' /\ OthersKept(r)
    BY <1>14, <2>1, PoolAssumption DEF Named, Goto, PointsOK, progress, Points, OthersKept
  <2>3. DisciplineOf(r)'
    BY <1>0, <1>14, <2>1 DEF Named, Goto, PointsOK, progress, DisciplineOf, MayHold, MustHold, Holds, Slots
  <2> QED BY <2>1, <2>2, <2>3, OthersKeepDiscipline
<1> QED BY <1>1, <1>2, <1>3, <1>4, <1>5, <1>6, <1>7, <1>8, <1>9, <1>10, <1>11, <1>12, <1>13, <1>14 DEF Xattrs

LEMMA PoolInvInit == PoolInit => PoolInv
BY PoolAssumption DEF PoolInit, PoolInv, BlocksOK, PointsOK, Points, Calls, NoSharing, OwnBytes,
    Discipline, DisciplineOf, MayHold, MustHold, Holds, Slots

LEMMA PoolInvStep == PoolInv /\ [PoolNext]_poolVars => PoolInv'
<1> SUFFICES ASSUME PoolInv, [PoolNext]_poolVars
             PROVE  PoolInv'
  OBVIOUS
<1> USE DEF PoolInv
<1>1. ASSUME NEW r \in Readers, NEW c \in Calls, Begin(r, c)
      PROVE  PoolInv'
  <2>0. DisciplineOf(r)
    BY DEF Discipline
  <2>1. BlocksOK' /\ held' = held
    BY <1>1 DEF Begin, BlocksOK, NoSharing, OwnBytes, Holds
  <2>2. PointsOK' /\ OthersKept(r)
    BY <1>1, <2>1, PoolAssumption DEF Begin, Goto, PointsOK, Points, OthersKept
  <2>3. DisciplineOf(r)'
    BY <1>1, <2>0, <2>1 DEF Begin, Goto, PointsOK, DisciplineOf, MayHold, MustHold, Holds, Slots
  <2> QED BY <2>1, <2>2, <2>3, OthersKeepDiscipline
<1>2. ASSUME NEW r \in Readers, Release(r)
      PROVE  PoolInv'
  <2>0. DisciplineOf(r)
    BY DEF Discipline
  <2>1. BlocksOK' /\ held'[r]["cached"] = NoBlock
        /\ \A q \in Readers, t \in Slots : q # r \/ t # "cached" => held'[q][t] = held[q][t]
    BY <1>2, PutEmpties DEF Release, Slots
  <2>2. PointsOK' /\ OthersKept(r)
    BY <1>2, <2>1 DEF Release, Goto, PointsOK, Points, progress, OthersKept
  <2>3. DisciplineOf(r)'
    BY <1>2, <2>0, <2>1 DEF Release, Goto, PointsOK, progress, DisciplineOf, MayHold, MustHold, Holds, Slots
  <2> QED BY <2>1, <2>2, <2>3, OthersKeepDiscipline
<1>3. CASE UNCHANGED poolVars
  BY <1>3 DEF poolVars, BlocksOK, PointsOK, NoSharing, OwnBytes, Discipline, DisciplineOf, Holds
<1> QED BY <1>1, <1>2, <1>3, ReadingKeeps, XattrsKeep DEF PoolNext, Run

-----------------------------------------------------------------------------
(* The type invariant, for any numbers of readers, buffers and calls.      *)
THEOREM PoolTyped == PoolSpec => []PoolTypeOK
<1>1. PoolInv => PoolTypeOK
  BY DEF PoolInv, BlocksOK, PointsOK, PoolTypeOK
<1> QED BY <1>1, PoolInvInit, PoolInvStep, PTL DEF PoolSpec

(* getBlock and putBlock: a buffer is never in two slots, nor in a slot    *)
(* and the pool, nor twice in the pool, whatever calls run side by side    *)
(* and however they fail.                                                  *)
THEOREM NeverShared == PoolSpec => []NoSharing
<1>1. PoolInv => NoSharing
  BY DEF PoolInv, BlocksOK
<1> QED BY <1>1, PoolInvInit, PoolInvStep, PTL DEF PoolSpec

(* What readInfo, Read, ReadDir, lookup and loadXattrs take from a block   *)
(* are the bytes their own goroutine has read into it.                     *)
THEOREM OwnBytesRead == PoolSpec => []ReadsOwn
<1>1. PoolInv => ReadsOwn
  <2> SUFFICES ASSUME PoolInv, NEW r \in Readers, NEW s \in Uses(r)
               PROVE  Holds(r, s) /\ data[held[r][s]] = r
    BY DEF ReadsOwn
  <2>1. s \in Slots /\ s \in MustHold(pc[r])
    BY DEF Uses, MustHold, Slots
  <2>2. Holds(r, s)
    BY <2>1 DEF PoolInv, Discipline, DisciplineOf
  <2> QED BY <2>1, <2>2 DEF PoolInv, BlocksOK, OwnBytes
<1> QED BY <1>1, PoolInvInit, PoolInvStep, PTL DEF PoolSpec

(* Whichever way a call returns, it has given back every block it took:    *)
(* only the trailing data of an inode stays with it, until Close.          *)
THEOREM EverythingReturned == PoolSpec => []AllReturned
<1>1. PoolInv => AllReturned
  BY DEF PoolInv, AllReturned, Discipline, DisciplineOf, MayHold, Slots
<1> QED BY <1>1, PoolInvInit, PoolInvStep, PTL DEF PoolSpec

-----------------------------------------------------------------------------
(* What leaves a slot is in the pool or in another slot of the reader.     *)
Kept ==
    \A r \in Readers, s \in Slots :
      Holds(r, s) /\ held'[r][s] # held[r][s] =>
        pool'[held[r][s]] = 1 \/ \E t \in Slots : held'[r][t] = held[r][s]

LEMMA LoadDropsNothing ==
    ASSUME BlocksOK, NEW r \in Readers, NEW s \in Slots, Load(r, s), ~Holds(r, s)
    PROVE  Kept
<1>1. \A q \in Readers, t \in Slots : q # r \/ t # s => held'[q][t] = held[q][t]
  BY LoadFills
<1> QED BY <1>1 DEF Kept

LEMMA PutDropsNothing ==
    ASSUME BlocksOK, NEW r \in Readers, NEW ss \in SUBSET Slots, Put(r, ss)
    PROVE  Kept
<1> SUFFICES ASSUME NEW q \in Readers, NEW s \in Slots, Holds(q, s), held'[q][s] # held[q][s]
             PROVE  pool'[held[q][s]] = 1
  BY DEF Kept
<1>1. q = r /\ s \in ss
  BY PutEmpties
<1>2. held[q][s] \in Blocks /\ pool[held[q][s]] = 0
  BY DEF BlocksOK, NoSharing, Holds
<1> QED BY <1>1, <1>2 DEF Put, Returned

LEMMA MoveDropsNothing ==
    ASSUME BlocksOK, NEW r \in Readers, (InfoCached(r) /\ ~Holds(r, "cached")) \/ Keep(r)
    PROVE  Kept
<1>1. CASE InfoCached(r) /\ ~Holds(r, "cached")
  <2>1. held' = [held EXCEPT ![r]["cached"] = held[r]["blk"], ![r]["blk"] = NoBlock]
    BY <1>1 DEF InfoCached
  <2> QED BY <1>1, <2>1 DEF Kept, BlocksOK, Slots
<1>2. CASE Keep(r)
  <2>1. /\ held' = [held EXCEPT ![r]["lastBlk"] = held[r]["blk"], ![r]["blk"] = NoBlock]
        /\ pool' = [b \in Blocks |-> Returned(r, {"lastBlk"}, b)]
    BY <1>2 DEF Keep
  <2>2. Holds(r, "lastBlk") => pool'[held[r]["lastBlk"]] = 1
    BY <2>1 DEF Returned, BlocksOK, NoSharing, Holds, Slots
  <2> QED BY <2>1, <2>2 DEF Kept, BlocksOK, Slots
<1> QED BY <1>1, <1>2

(* No block is lost on the way: the code never overwrites the variable of  *)
(* a block that it has not put back or handed on.                          *)
THEOREM NothingDropped == PoolSpec => [][Kept]_poolVars
<1>1. PoolInv /\ [PoolNext]_poolVars => [Kept]_poolVars
  <2> SUFFICES ASSUME PoolInv, PoolNext
               PROVE  Kept
    OBVIOUS
  <2>0. BlocksOK /\ \A r \in Readers : DisciplineOf(r)
    BY DEF PoolInv, Discipline
  <2>1. ASSUME NEW r \in Readers, Reading(r)
        PROVE  Kept
    <3>1. CASE InfoLoad(r) \/ BlockLoad(r)
      <4>1. Load(r, "blk") /\ ~Holds(r, "blk")
        BY <2>0, <3>1 DEF InfoLoad, BlockLoad, DisciplineOf, MayHold, Slots
      <4> QED BY <2>0, <4>1, LoadDropsNothing DEF Slots
    <3>2. CASE \E ss \in SUBSET Slots : Put(r, ss)
      BY <2>0, <3>2, PutDropsNothing
    <3>3. CASE InfoFails(r) \/ InfoDone(r) \/ Copied(r) \/ BlockFails(r) \/ Search(r)
      BY <3>2, <3>3 DEF InfoFails, InfoDone, Copied, BlockFails, Search, Slots
    <3>4. CASE InfoCached(r)
      <4>1. ~Holds(r, "cached")
        BY <2>0, <3>4 DEF InfoCached, DisciplineOf, MayHold, Slots
      <4> QED BY <2>0, <3>4, <4>1, MoveDropsNothing
    <3>5. CASE Keep(r)
      BY <2>0, <3>5, MoveDropsNothing
    <3>6. CASE Body(r) \/ EndOfBlocks(r)
      BY <3>6 DEF Body, EndOfBlocks, Kept
    <3> QED BY <2>1, <3>1, <3>3, <3>4, <3>5, <3>6 DEF Reading
  <2>2. ASSUME NEW r \in Readers, Xattrs(r)
        PROVE  Kept
    <3>1. CASE \E s \in Slots : Load(r, s) /\ ~Holds(r, s)
      BY <2>0, <3>1, LoadDropsNothing
    <3>2. CASE \E ss \in SUBSET Slots : Put(r, ss)
      BY <2>0, <3>2, PutDropsNothing
    <3>3. CASE held' = held
      BY <3>3 DEF Kept
    <3>4. CASE WindowLoad(r) \/ SharedLoad(r) \/ PrefixLoad(r)
      BY <2>0, <3>1, <3>4 DEF WindowLoad, SharedLoad, PrefixLoad, DisciplineOf, MayHold, Slots
    <3>5. CASE XattrFails(r) \/ Reload(r) \/ SharedFails(r) \/ SharedDone(r) \/ XattrsDone(r)
      BY <3>2, <3>5 DEF XattrFails, Reload, SharedFails, SharedDone, XattrsDone, Slots
    <3>6. CASE PrefixNeeded(r) \/ PrefixRuns(r)
      BY <3>3, <3>6 DEF PrefixNeeded, PrefixRuns
    <3>7. CASE PrefixRead(r) \/ PrefixFails(r) \/ PrefixKnown(r) \/ Named(r)
      BY <3>2, <3>3, <3>7 DEF PrefixRead, PrefixFails, PrefixKnown, Named, Slots
    <3> QED BY <2>2, <3>4, <3>5, <3>6, <3>7 DEF Xattrs
  <2>3. ASSUME NEW r \in Readers, Release(r)
        PROVE  Kept
    BY <2>0, <2>3, PutDropsNothing DEF Release, Slots
  <2>4. ASSUME NEW r \in Readers, NEW c \in Calls, Begin(r, c)
        PROVE  Kept
    BY <2>4 DEF Begin, Kept
  <2> QED BY <2>1, <2>2, <2>3, <2>4 DEF PoolNext, Run
<1> QED BY <1>1, PoolInvInit, PoolInvStep, PTL DEF PoolSpec
=============================================================================
