--------------------------- MODULE ImageWriterProofs ---------------------------
(***************************************************************************)
(* Proofs about the writing of an image, for any entry list, block size    *)
(* and number of devices.  The plan puts every inode behind the end of the *)
(* one before it and not behind the next block (PlannedOf); the blocks of  *)
(* the data are counted alike when they are assigned and when they are     *)
(* written (Before); and the metadata buffer, even after an inline file    *)
(* that came up short, ends in the block where the plan ends (WrittenTo).  *)
(***************************************************************************)
EXTENDS ImageWriter, NaturalLemmas

B == BlockSize

Planned == [at : Nat, layout : {"inline", "plain", "chunks"}, trailing : Nat]
Seqs ==
    /\ plan \in Seq(Planned)
    /\ block \in Seq(Nat) /\ dataAt \in Seq(Nat) /\ inodeAt \in Seq(Nat)

(* Where the plan ends behind entry k.                                     *)
End(k) == IF k = 0 THEN 0 ELSE plan[k].at + Size(k)

PlannedOf(k) ==
    /\ plan[k].at % Slot = 0
    /\ (plan[k].at % BlockSize) + entries[k].core <= BlockSize
    /\ plan[k].layout = "inline" =>
         /\ plan[k].trailing = entries[k].size /\ plan[k].trailing > 0
         /\ (plan[k].at % BlockSize) + Header(entries[k]) + plan[k].trailing <= BlockSize
    /\ End(k - 1) <= plan[k].at /\ plan[k].at <= Up(End(k - 1), BlockSize)

(* The data blocks of the first k entries.                                 *)
Before[k \in 0..N] == IF k = 0 THEN 0 ELSE Before[k - 1] + Blocks(DataSize(k))

(* The metadata buffer holds the first k entries: it ends where the plan   *)
(* does, or in front of that in the block of the last inode.               *)
WrittenTo(k) ==
    /\ off <= End(k)
    /\ k = 0 => off = 0
    /\ k > 0 =>
         /\ plan[k].at < off
         /\ off # End(k) => End(k) <= (plan[k].at \div BlockSize) * BlockSize + BlockSize

Reached ==
    /\ stage = "plan" => /\ Len(plan) = i /\ off = End(i)
                         /\ block = <<>> /\ dataAt = <<>> /\ inodeAt = <<>>
    /\ stage # "plan" => Len(plan) = N
    /\ stage = "assign" => /\ Len(block) = i /\ off = SbAreaBlocks + Before[i]
                           /\ dataAt = <<>> /\ inodeAt = <<>>
    /\ stage \notin {"plan", "assign"} => Len(block) = N /\ metaBlk = SbAreaBlocks + Before[N]
    /\ stage = "data" => /\ Len(dataAt) = i /\ out = (SbAreaBlocks + Before[i]) * BlockSize
                         /\ inodeAt = <<>>
    /\ stage = "meta" => /\ Len(dataAt) = N /\ Len(inodeAt) = i /\ out = metaBlk * BlockSize
                         /\ WrittenTo(i)
    /\ stage = "super" => out = (metaBlk + Blocks(End(N))) * BlockSize
    /\ Len(plan) <= N /\ Len(block) <= N /\ Len(dataAt) <= N /\ Len(inodeAt) <= N
    /\ super # 0 => stage \in {"done", "failed"} /\ super * BlockSize = out

AsPlanned ==
    /\ \A k \in 1..Len(plan) : PlannedOf(k)
    /\ \A k \in 1..Len(block) :
         block[k] = IF DataSize(k) > 0 THEN SbAreaBlocks + Before[k - 1] ELSE 0
    /\ \A k \in 1..Len(dataAt) : dataAt[k] = (SbAreaBlocks + Before[k - 1]) * BlockSize
    /\ \A k \in 1..Len(inodeAt) : inodeAt[k] = plan[k].at

Types ==
    /\ entries \in Inputs
    /\ stage \in {"plan", "assign", "data", "meta", "super", "done", "failed"}
    /\ i \in 0..N /\ off \in Nat /\ metaBlk \in Nat /\ out \in Nat /\ super \in Nat

IInv == Types /\ Seqs /\ Reached /\ AsPlanned

-----------------------------------------------------------------------------
LEMMA UpFacts ==
    ASSUME NEW n \in Nat, NEW u \in Nat \ {0}
    PROVE  /\ Up(n, u) = Units(n, u) * u /\ Up(n, u) \in Nat /\ n <= Up(n, u) /\ Up(n, u) < n + u
           /\ Units(n, u) \in Nat
           /\ \A q \in Nat : n <= q * u => Up(n, u) <= q * u
<1>1. Up(n, u) = Units(n, u) * u
  BY DEF Up, Units
<1>2. Units(n, u) \in Nat /\ n <= Units(n, u) * u /\ Units(n, u) * u < n + u
  BY RoundedUp
<1>3. ASSUME NEW q \in Nat, n <= q * u
      PROVE  Up(n, u) <= q * u
  <2>1. Units(n, u) <= q
    BY <1>3, RoundUpLeast
  <2> QED BY <1>1, <1>2, <2>1, ProductMonotone
<1> DEFINE c == Units(n, u)
<1> HIDE DEF c
<1>4. c * u \in Nat
  BY <1>2 DEF c
<1> QED BY <1>1, <1>2, <1>3, <1>4 DEF c

LEMMA SlotUp ==
    ASSUME NEW n \in Nat
    PROVE  Up(n, Slot) \in Nat /\ n <= Up(n, Slot) /\ Up(n, Slot) < n + Slot /\ Up(n, Slot) % Slot = 0
  BY DEF Up, Slot

LEMMA BlockFacts == B \in Nat \ {0} /\ B >= 64 /\ \A q \in Nat : q * B \in Nat /\ (q * B) % Slot = 0
<1>1. B \in Nat \ {0} /\ B % 64 = 0
  BY WriterAssumption DEF B, Extended
<1>2. PICK d \in Nat : B = 64 * d
  <2>1. B \div 64 \in Nat /\ B = 64 * (B \div 64)
    BY <1>1
  <2> QED BY <2>1
<1>3. ASSUME NEW q \in Nat
      PROVE  q * B \in Nat /\ (q * B) % Slot = 0
  <2>1. q * d \in Nat /\ q * B = 64 * (q * d)
    BY <1>2
  <2> DEFINE p == q * d
  <2> HIDE DEF p
  <2>2. p \in Nat /\ q * B = 64 * p
    BY <2>1 DEF p
  <2> QED BY <2>2 DEF Slot
<1> QED BY <1>1, <1>2, <1>3

LEMMA EntryFacts ==
    ASSUME NEW e \in EntryShape
    PROVE  /\ e.core \in {32, 64} /\ e.core \in Nat /\ e.core <= B /\ e.size \in Nat /\ e.chunks \in Nat
           /\ Header(e) \in Nat /\ e.core <= Header(e)
  BY BlockFacts DEF EntryShape, Header, Compact, Extended

(* An offset in its block.                                                 *)
LEMMA InBlock ==
    ASSUME NEW at \in Nat
    PROVE  /\ at \div B \in Nat /\ (at \div B) * B \in Nat /\ at % B \in 0..(B - 1)
           /\ at = (at \div B) * B + (at % B)
           /\ (at \div B) * B + B = (at \div B + 1) * B
           /\ ((at \div B) * B) % Slot = 0 /\ ((at \div B) * B + B) % Slot = 0
<1> DEFINE d == at \div B
<1>0. B \in Nat \ {0}
  BY BlockFacts
<1>1. d \in Nat /\ at % B \in 0..(B - 1) /\ at = d * B + (at % B)
  BY <1>0, Division
<1> HIDE DEF d
<1>2. d + 1 \in Nat /\ (d + 1) * B = d * B + B
  BY <1>0, <1>1
<1>3. d * B \in Nat /\ (d * B) % Slot = 0 /\ ((d + 1) * B) % Slot = 0
  BY <1>1, <1>2, BlockFacts
<1> QED BY <1>1, <1>2, <1>3 DEF d

(* An inode that would cross a block boundary is moved to it.              *)
LEMMA MovesToOK ==
    ASSUME NEW e \in EntryShape, NEW at \in Nat, at % Slot = 0
    PROVE  /\ MovesTo(e, at) \in Nat /\ at <= MovesTo(e, at) /\ MovesTo(e, at) % Slot = 0
           /\ (MovesTo(e, at) % B) + e.core <= B
           /\ MovesTo(e, at) <= Up(at, B)
<1>0. B \in Nat \ {0}
  BY BlockFacts
<1>1. /\ Up(at, B) = Units(at, B) * B /\ Up(at, B) \in Nat /\ at <= Up(at, B)
      /\ Units(at, B) \in Nat
  BY <1>0, UpFacts
<1>2. e.core \in Nat /\ e.core <= B
  BY EntryFacts
<1>3. CASE (at % B) + e.core > B
  <2>1. MovesTo(e, at) = Up(at, B)
    BY <1>3 DEF MovesTo, B
  <2>2. Up(at, B) % Slot = 0
    BY <1>1, BlockFacts
  <2>3. Up(at, B) % B = 0
    <3>1. 0 \in 0..(B - 1) /\ Up(at, B) = Units(at, B) * B + 0
      BY <1>0, <1>1
    <3> QED BY <1>0, <1>1, <3>1, DivisionUnique
  <2> QED BY <1>1, <1>2, <2>1, <2>2, <2>3
<1>4. CASE ~((at % B) + e.core > B)
  <2>1. MovesTo(e, at) = at
    BY <1>4 DEF MovesTo, B
  <2>2. at % B \in Nat
    BY InBlock
  <2>3. (at % B) + e.core <= B
    BY <1>0, <1>2, <1>4, <2>2
  <2> QED BY <1>1, <2>1, <2>3
<1> QED BY <1>3, <1>4

LEMMA ListFacts ==
    ASSUME Types
    PROVE  /\ entries \in Seq(EntryShape) /\ N \in Nat /\ i \in Nat /\ i <= N
           /\ \A k \in 1..N : entries[k] \in EntryShape
  BY WriterAssumption DEF Types, N

LEMMA DataSizes ==
    ASSUME Types, Seqs, NEW k \in 1..N
    PROVE  DataSize(k) \in Nat
  BY ListFacts, EntryFacts DEF DataSize, PlainSize

(* The blocks of the data in front of each entry.                          *)
LEMMA BeforeFacts ==
    ASSUME Types, Seqs
    PROVE  /\ Before \in [0..N -> Nat] /\ Before[0] = 0
           /\ \A k \in 1..N : /\ Before[k] = Before[k - 1] + Blocks(DataSize(k))
                              /\ Blocks(DataSize(k)) \in Nat /\ Before[k - 1] \in Nat
<1> DEFINE g == [k \in 1..N |-> Blocks(DataSize(k))]
           Step(h) == [k \in 0..N |-> IF k = 0 THEN 0 ELSE h[k - 1] + Blocks(DataSize(k))]
<1>0. N \in Nat
  BY ListFacts
<1>1. \A k \in 1..N : g[k] \in Nat /\ g[k] = Blocks(DataSize(k))
  <2> SUFFICES ASSUME NEW k \in 1..N
               PROVE  Blocks(DataSize(k)) \in Nat
    OBVIOUS
  <2>1. DataSize(k) \in Nat
    BY DataSizes
  <2>2. Units(DataSize(k), B) \in Nat
    BY <2>1, BlockFacts, RoundedUp
  <2> QED BY <2>2 DEF Blocks, Units, B
<1> HIDE DEF g
<1>2. PICK f \in [0..N -> Nat] : f[0] = 0 /\ \A k \in 1..N : f[k] = f[k - 1] + g[k]
  BY <1>0, <1>1, PartialSums
<1>3. f = Step(f)
  <2>1. f = [k \in 0..N |-> f[k]]
    BY <1>2
  <2>2. ASSUME NEW k \in 0..N
        PROVE  f[k] = IF k = 0 THEN 0 ELSE f[k - 1] + Blocks(DataSize(k))
    <3>1. CASE k = 0
      BY <1>2, <3>1
    <3>2. CASE k # 0
      <4>1. k \in 1..N
        BY <1>0, <3>2
      <4> QED BY <1>1, <1>2, <3>2, <4>1
    <3> QED BY <3>1, <3>2
  <2> QED BY <2>1, <2>2
<1> DEFINE x == CHOOSE h : h = Step(h)
<1>4. x = Step(x)
  <2> HIDE DEF Step
  <2> QED BY <1>3
<1>5. Before = x
  BY DEF Before
<1>6. Before = Step(Before)
  BY <1>4, <1>5
<1> DEFINE y == Before
<1> HIDE DEF x, y
<1>7. \A k \in 0..N : y[k] = IF k = 0 THEN 0 ELSE y[k - 1] + Blocks(DataSize(k))
  BY <1>6 DEF y
<1> DEFINE T == {k \in 0..N : y[k] = f[k]}
<1>8. 0..N \subseteq T
  <2>1. 0 \in T
    BY <1>0, <1>2, <1>7
  <2>2. ASSUME NEW k \in 0..N, k \in T, k < N
        PROVE  k + 1 \in T
    <3>1. k + 1 \in 1..N /\ k + 1 \in 0..N /\ k + 1 # 0 /\ (k + 1) - 1 = k
      BY <1>0, <2>2
    <3>2. y[k + 1] = y[k] + Blocks(DataSize(k + 1))
      BY <1>7, <3>1
    <3>3. f[k + 1] = f[k] + g[k + 1]
      BY <1>2, <3>1
    <3> QED BY <1>1, <2>2, <3>1, <3>2, <3>3
  <2> HIDE DEF T
  <2> QED BY <1>0, <2>1, <2>2, BoundedInduction
<1>9. \A k \in 0..N : y[k] = f[k]
  BY <1>8
<1>10. y = [k \in 0..N |-> y[k]]
  BY <1>6 DEF y
<1>11. y \in [0..N -> Nat]
  BY <1>2, <1>9, <1>10
<1>12. ASSUME NEW k \in 1..N
       PROVE  k \in 0..N /\ k - 1 \in 0..N /\ k # 0
  BY <1>0
<1>13. y[0] = 0
  BY <1>0, <1>7
<1>14. ASSUME NEW k \in 1..N
       PROVE  y[k] = y[k - 1] + Blocks(DataSize(k)) /\ Blocks(DataSize(k)) \in Nat /\ y[k - 1] \in Nat
  <2>1. y[k] = y[k - 1] + Blocks(DataSize(k))
    BY <1>7, <1>12
  <2>2. Blocks(DataSize(k)) \in Nat
    BY <1>1
  <2>3. y[k - 1] \in Nat
    BY <1>11, <1>12
  <2> QED BY <2>1, <2>2, <2>3
<1> QED BY <1>11, <1>13, <1>14 DEF y

(* The entry planned last, at the place its inode moves to.                *)
LEMMA PlannedNext ==
    ASSUME NEW e \in EntryShape, NEW at \in Nat, at % Slot = 0
    PROVE  /\ Trailing(e, Layout(e, at)) \in Nat /\ Layout(e, at) \in {"inline", "plain", "chunks"}
           /\ Layout(e, at) = "inline" =>
                /\ Trailing(e, Layout(e, at)) = e.size /\ e.size > 0
                /\ (MovesTo(e, at) % B) + Header(e) + e.size <= B
<1>1. e.size \in Nat /\ e.chunks * IndexSize \in Nat
  BY EntryFacts DEF IndexSize
<1>2. Trailing(e, Layout(e, at)) \in Nat
  BY <1>1 DEF Trailing
<1>3. ASSUME Layout(e, at) = "inline"
      PROVE  IsInline(e, at) /\ Trailing(e, Layout(e, at)) = e.size
  BY <1>3 DEF Layout, Trailing
<1> QED BY <1>2, <1>3 DEF Layout, IsInline, WantsInline, B

(* What a step that keeps an entry's plan, and the one before it, keeps.   *)
LEMMA SamePlan ==
    ASSUME entries' = entries, NEW k \in Nat \ {0}, plan'[k] = plan[k], k > 1 => plan'[k - 1] = plan[k - 1]
    PROVE  Size(k)' = Size(k) /\ End(k)' = End(k) /\ End(k - 1)' = End(k - 1) /\ (PlannedOf(k)' <=> PlannedOf(k))
<1>1. Size(k)' = Size(k)
  BY DEF Size
<1>2. k > 1 => Size(k - 1)' = Size(k - 1)
  BY DEF Size
<1>3. End(k)' = End(k)
  BY <1>1 DEF End
<1>4. k # 1 => k > 1
  OBVIOUS
<1>5. k = 1 => k - 1 = 0
  OBVIOUS
<1>6. End(k - 1)' = End(k - 1)
  BY <1>2, <1>4, <1>5 DEF End
<1> QED BY <1>1, <1>3, <1>6 DEF PlannedOf

LEMMA SamePlans ==
    ASSUME Types, UNCHANGED <<entries, plan>>
    PROVE  /\ N' = N /\ Before' = Before /\ \A k \in Nat : End(k)' = End(k) /\ DataSize(k)' = DataSize(k)
           /\ \A k \in Nat \ {0} : Size(k)' = Size(k) /\ (PlannedOf(k)' <=> PlannedOf(k))
<1>1. N' = N
  BY DEF N
<1>2. \A k : DataSize(k)' = DataSize(k) /\ Size(k)' = Size(k)
  BY DEF DataSize, Size
<1>3. \A k : End(k)' = End(k)
  BY <1>2 DEF End
<1>4. Before' = Before
  BY <1>1, <1>2 DEF Before, Blocks
<1>5. \A k \in Nat \ {0} : PlannedOf(k)' <=> PlannedOf(k)
  BY <1>3 DEF PlannedOf
<1> QED BY <1>1, <1>2, <1>3, <1>4, <1>5

LEMMA EndFacts ==
    ASSUME Types, Seqs, Len(plan) <= N, \A k \in 1..Len(plan) : PlannedOf(k), NEW k \in 0..Len(plan)
    PROVE  /\ End(k) \in Nat /\ End(k) % Slot = 0
           /\ k # 0 => /\ plan[k] \in Planned /\ entries[k] \in EntryShape
                       /\ Size(k) \in Nat /\ Header(entries[k]) + plan[k].trailing <= Size(k)
                       /\ Size(k) < Header(entries[k]) + plan[k].trailing + Slot
                       /\ End(k) = plan[k].at + Size(k)
<1>1. CASE k = 0
  BY <1>1 DEF End, Slot
<1>2. CASE k # 0
  <2>1. N \in Nat /\ Len(plan) \in Nat
    BY ListFacts DEF Seqs
  <2>2. k \in 1..N /\ k \in 1..Len(plan)
    BY <1>2, <2>1
  <2>3. plan[k] \in Planned /\ entries[k] \in EntryShape
    BY <2>2, ListFacts DEF Seqs
  <2>4. Header(entries[k]) \in Nat /\ plan[k].trailing \in Nat /\ plan[k].at \in Nat
    BY <2>3, EntryFacts DEF Planned
  <2> DEFINE n == Header(entries[k]) + plan[k].trailing
  <2>5. n \in Nat /\ Size(k) = Up(n, Slot)
    BY <2>4 DEF Size
  <2> HIDE DEF n
  <2>6. Size(k) \in Nat /\ n <= Size(k) /\ Size(k) < n + Slot /\ Size(k) % Slot = 0
    BY <2>5, SlotUp
  <2>7. End(k) = plan[k].at + Size(k) /\ plan[k].at % Slot = 0
    BY <1>2, <2>2 DEF End, PlannedOf
  <2>8. End(k) \in Nat /\ End(k) % Slot = 0
    <3> DEFINE a == plan[k].at
               z == Size(k)
    <3>1. a \in Nat /\ z \in Nat /\ a % Slot = 0 /\ z % Slot = 0 /\ End(k) = a + z
      BY <2>4, <2>6, <2>7
    <3> HIDE DEF a, z
    <3> QED BY <3>1 DEF Slot
  <2> QED BY <1>2, <2>3, <2>6, <2>7, <2>8 DEF n
<1> QED BY <1>1, <1>2

LEMMA PlanEntryKeeps ==
    ASSUME IInv, PlanEntry
    PROVE  IInv'
<1> DEFINE e == entries[i + 1]
           m == MovesTo(e, off)
           l == Layout(e, off)
           t == Trailing(e, l)
           r == [at |-> m, layout |-> l, trailing |-> t]
<1>0. Types /\ Seqs /\ Reached /\ AsPlanned
  BY DEF IInv
<1>1. /\ stage = "plan" /\ stage' = "plan" /\ i < N /\ i' = i + 1 /\ entries' = entries
      /\ plan' = Append(plan, r) /\ off' = m + Up(Header(e) + t, Slot)
      /\ block' = block /\ metaBlk' = metaBlk /\ out' = out /\ dataAt' = dataAt
      /\ inodeAt' = inodeAt /\ super' = super
  BY DEF PlanEntry, Takes
<1>2. /\ Len(plan) = i /\ off = End(i) /\ block = <<>> /\ dataAt = <<>> /\ inodeAt = <<>>
      /\ super = 0
  BY <1>0, <1>1 DEF Reached
<1>3. i \in Nat /\ N \in Nat /\ i + 1 \in 1..N /\ i + 1 \in 1..(i + 1) /\ N' = N
  <2>1. N' = N
    BY <1>1 DEF N
  <2> QED BY <1>0, <1>1, <2>1, ListFacts
<1>4. e \in EntryShape
  BY <1>0, <1>3, ListFacts
<1>5. off \in Nat /\ off % Slot = 0
  <2>1. i \in 0..Len(plan) /\ Len(plan) <= N
    BY <1>1, <1>2, <1>3
  <2>2. \A k \in 1..Len(plan) : PlannedOf(k)
    BY <1>0 DEF AsPlanned
  <2> QED BY <1>0, <1>2, <2>1, <2>2, EndFacts
<1> HIDE DEF e
<1>6. /\ m \in Nat /\ off <= m /\ m % Slot = 0 /\ (m % B) + e.core <= B /\ m <= Up(off, B)
  BY <1>4, <1>5, MovesToOK
<1>7. /\ t \in Nat /\ l \in {"inline", "plain", "chunks"}
      /\ l = "inline" => t = e.size /\ e.size > 0 /\ (m % B) + Header(e) + e.size <= B
  BY <1>4, <1>5, PlannedNext
<1> HIDE DEF m, l, t
<1>8. r \in Planned /\ r.at = m /\ r.layout = l /\ r.trailing = t
  BY <1>6, <1>7 DEF Planned
<1> HIDE DEF r
<1>9. /\ plan' \in Seq(Planned) /\ Len(plan') = i + 1 /\ plan'[i + 1] = r
      /\ \A k \in 1..i : plan'[k] = plan[k]
  BY <1>0, <1>1, <1>2, <1>3, <1>8 DEF Seqs
<1>10. Header(e) \in Nat
  BY <1>4, EntryFacts
<1>11. PICK c \in Nat : c = i
  BY <1>3
<1>12. PICK j \in Nat : j = i + 1
  BY <1>3
<1>13. j = c + 1 /\ j - 1 = c /\ j # 0 /\ plan'[j] = r /\ entries[j] = e /\ i' = j /\ j \in 1..N
  BY <1>1, <1>3, <1>9, <1>11, <1>12 DEF e
<1>14. Size(j)' = Up(Header(e) + t, Slot) /\ Size(j)' \in Nat
  <2>1. Header(e) + t \in Nat
    BY <1>7, <1>10
  <2>2. Up(Header(e) + t, Slot) \in Nat
    BY <2>1, SlotUp
  <2>3. Size(j)' = Up(Header(e) + t, Slot)
    BY <1>1, <1>8, <1>13 DEF Size
  <2> QED BY <2>2, <2>3
<1>15. End(j)' = off' /\ off' \in Nat
  BY <1>1, <1>6, <1>8, <1>13, <1>14 DEF End
<1>16. \A k \in 1..c : plan'[k] = plan[k] /\ (PlannedOf(k)' <=> PlannedOf(k)) /\ End(k)' = End(k)
  <2> SUFFICES ASSUME NEW k \in 1..c
               PROVE  plan'[k] = plan[k] /\ (PlannedOf(k)' <=> PlannedOf(k)) /\ End(k)' = End(k)
    OBVIOUS
  <2>1. k \in Nat \ {0} /\ plan'[k] = plan[k] /\ (k > 1 => plan'[k - 1] = plan[k - 1])
    BY <1>9, <1>11
  <2> QED BY <1>1, <2>1, SamePlan
<1>17. End(c)' = off
  <2>1. End(c) = off
    BY <1>2, <1>11
  <2>2. CASE c = 0
    BY <2>1, <2>2 DEF End
  <2>3. CASE c # 0
    BY <1>16, <2>1, <2>3
  <2> QED BY <2>2, <2>3
<1>18. End(j - 1)' = off
  <2>1. End(j - 1)' = End(c)'
    BY <1>13 DEF End, Size
  <2> QED BY <1>17, <2>1
<1>19. PlannedOf(j)'
  <2>1. plan'[j].at = m /\ plan'[j].layout = l /\ plan'[j].trailing = t /\ entries'[j] = e
    BY <1>1, <1>8, <1>13
  <2>2. e.core \in Nat
    BY <1>4, EntryFacts
  <2>3. m % Slot = 0 /\ (m % BlockSize) + e.core <= BlockSize
    BY <1>6 DEF B
  <2>4. l = "inline" => /\ t = e.size /\ t > 0
                        /\ (m % BlockSize) + Header(e) + t <= BlockSize
    BY <1>7 DEF B
  <2>5. End(j - 1)' <= m /\ m <= Up(End(j - 1)', BlockSize)
    BY <1>6, <1>18 DEF B
  <2> QED BY <2>1, <2>3, <2>4, <2>5 DEF PlannedOf
<1>20. Types'
  BY <1>0, <1>1, <1>3, <1>15 DEF Types
<1>21. Seqs'
  BY <1>0, <1>1, <1>9 DEF Seqs
<1>22. Len(plan') = j /\ off' = End(j)' /\ Len(plan') <= N' /\ j = i'
  BY <1>3, <1>9, <1>13, <1>12, <1>15
<1>23. Reached'
  <2>1. off' = End(i)'
    BY <1>22 DEF End, Size
  <2> QED BY <1>1, <1>2, <1>3, <1>22, <2>1 DEF Reached
<1>24. AsPlanned'
  <2>1. ASSUME NEW k \in 1..j
        PROVE  PlannedOf(k)'
    <3>1. CASE k = j
      BY <1>19, <3>1
    <3>2. CASE k # j
      <4>1. k \in 1..c /\ k \in 1..Len(plan)
        BY <1>2, <1>11, <1>13, <3>2
      <4> QED BY <1>0, <1>16, <4>1 DEF AsPlanned
    <3> QED BY <3>1, <3>2
  <2> QED BY <1>1, <1>2, <1>22, <2>1 DEF AsPlanned
<1> QED BY <1>20, <1>21, <1>23, <1>24 DEF IInv

LEMMA InitOK == Init => IInv
<1> SUFFICES ASSUME Init
             PROVE  IInv
  OBVIOUS
<1>1. /\ entries \in Inputs /\ stage = "plan" /\ i = 0 /\ off = 0 /\ plan = <<>> /\ block = <<>>
      /\ metaBlk = 0 /\ out = 0 /\ dataAt = <<>> /\ inodeAt = <<>> /\ super = 0
  BY DEF Init
<1>2. N \in Nat
  BY <1>1, WriterAssumption DEF N
<1>3. Types /\ Seqs
  BY <1>1, <1>2 DEF Types, Seqs
<1>4. Reached
  BY <1>1, <1>2 DEF Reached, End
<1>5. AsPlanned
  BY <1>1 DEF AsPlanned
<1> QED BY <1>3, <1>4, <1>5 DEF IInv

LEMMA AreaFacts ==
    /\ SbAreaBlocks \in Nat /\ SbAreaSize = SbAreaBlocks * B
    /\ SbAreaBlocks * BlockSize \in Nat
<1> DEFINE n == 1024 + 128 + Devices * 128
<1>1. n \in Nat /\ B \in Nat \ {0}
  BY WriterAssumption, BlockFacts
<1>2. SbAreaSize = Up(n, B)
  BY DEF SbAreaSize, B
<1> HIDE DEF n
<1>3. SbAreaSize = Units(n, B) * B /\ Units(n, B) \in Nat /\ SbAreaSize \in Nat
  BY <1>1, <1>2, UpFacts
<1>4. SbAreaSize \div B = Units(n, B)
  <2>1. 0 \in 0..(B - 1) /\ SbAreaSize = Units(n, B) * B + 0
    BY <1>1, <1>3
  <2> QED BY <1>1, <1>3, <2>1, DivisionUnique
<1>5. SbAreaBlocks = Units(n, B)
  BY <1>4 DEF SbAreaBlocks, B
<1> QED BY <1>3, <1>5 DEF B

(* Up and Blocks count the same.                                           *)
LEMMA UpIsBlocks ==
    ASSUME NEW n \in Nat
    PROVE  Up(n, BlockSize) = Blocks(n) * BlockSize /\ Blocks(n) \in Nat
<1>1. B \in Nat \ {0}
  BY BlockFacts
<1>2. Up(n, B) = Units(n, B) * B /\ Units(n, B) \in Nat
  BY <1>1, UpFacts
<1> QED BY <1>2 DEF Blocks, Units, B

(* A step of a loop, or between two, that keeps the list and the plan.     *)
LEMMA PlanStays ==
    ASSUME IInv, UNCHANGED <<entries, plan>>
    PROVE  /\ N' = N /\ N \in Nat /\ Before' = Before
           /\ \A k \in Nat : End(k)' = End(k) /\ DataSize(k)' = DataSize(k)
           /\ \A k \in 1..Len(plan') : PlannedOf(k)'
           /\ plan' \in Seq(Planned) /\ Before[0] = 0 /\ Before \in [0..N -> Nat]
<1>1. Types /\ Seqs /\ AsPlanned
  BY DEF IInv
<1>2. /\ N' = N /\ Before' = Before /\ \A k \in Nat : End(k)' = End(k) /\ DataSize(k)' = DataSize(k)
      /\ \A k \in Nat \ {0} : PlannedOf(k)' <=> PlannedOf(k)
  BY <1>1, SamePlans
<1>3. \A k \in 1..Len(plan') : PlannedOf(k)'
  <2>1. \A k \in 1..Len(plan) : k \in Nat \ {0} /\ PlannedOf(k)
    BY <1>1 DEF AsPlanned
  <2> QED BY <1>2, <2>1
<1> QED BY <1>1, <1>2, <1>3, ListFacts, BeforeFacts DEF Seqs

LEMMA PlanEndsKeeps ==
    ASSUME IInv, PlanEnds
    PROVE  IInv'
<1>0. Types /\ Seqs /\ Reached /\ AsPlanned
  BY DEF IInv
<1>1. /\ stage = "plan" /\ i = N /\ i' = 0 /\ stage' = "assign" /\ off' = SbAreaBlocks
      /\ UNCHANGED <<entries, plan, block, metaBlk, out, dataAt, inodeAt, super>>
  BY DEF PlanEnds, Ends
<1>2. /\ N' = N /\ N \in Nat /\ Before' = Before /\ Before[0] = 0
      /\ \A k \in 1..Len(plan') : PlannedOf(k)'
  BY <1>1, PlanStays
<1>3. Len(plan) = N /\ block = <<>> /\ dataAt = <<>> /\ inodeAt = <<>> /\ super = 0
  BY <1>0, <1>1 DEF Reached
<1>4. SbAreaBlocks \in Nat
  BY AreaFacts
<1>5. Types' /\ Seqs'
  BY <1>0, <1>1, <1>2, <1>4 DEF Types, Seqs
<1>6. off' = SbAreaBlocks + Before'[i']
  BY <1>1, <1>2, <1>4
<1>7. Reached'
  BY <1>1, <1>2, <1>3, <1>6 DEF Reached
<1>8. AsPlanned'
  BY <1>1, <1>2, <1>3 DEF AsPlanned
<1> QED BY <1>5, <1>7, <1>8 DEF IInv

LEMMA AssignEntryKeeps ==
    ASSUME IInv, AssignEntry
    PROVE  IInv'
<1>0. Types /\ Seqs /\ Reached /\ AsPlanned
  BY DEF IInv
<1>1. /\ stage = "assign" /\ stage' = "assign" /\ i < N /\ i' = i + 1
      /\ UNCHANGED <<entries, plan, metaBlk, out, dataAt, inodeAt, super>>
  BY DEF AssignEntry, Takes
<1>2. /\ N' = N /\ N \in Nat /\ Before' = Before /\ Before \in [0..N -> Nat]
      /\ \A k \in 1..Len(plan') : PlannedOf(k)'
      /\ \A k \in Nat : DataSize(k)' = DataSize(k)
  BY <1>1, PlanStays
<1>3. PICK c \in Nat : c = i
  BY <1>0, ListFacts
<1>4. PICK j \in Nat : j = i + 1
  BY <1>3
<1>5. j = c + 1 /\ j \in 1..N /\ c \in 0..N /\ j \in 0..N /\ j - 1 = c
  BY <1>1, <1>2, <1>3, <1>4
<1>6. /\ Len(block) = c /\ off = SbAreaBlocks + Before[c] /\ Len(plan) = N
      /\ dataAt = <<>> /\ inodeAt = <<>> /\ super = 0
  BY <1>0, <1>1, <1>3 DEF Reached
<1> DEFINE x == IF DataSize(j) > 0 THEN off ELSE 0
<1>7. block' = Append(block, x) /\ off' = off + Blocks(DataSize(j))
  BY <1>4 DEF AssignEntry
<1>8. Before[j] = Before[c] + Blocks(DataSize(j)) /\ Blocks(DataSize(j)) \in Nat /\ Before[c] \in Nat
  BY <1>0, <1>5, BeforeFacts
<1>9. SbAreaBlocks \in Nat
  BY AreaFacts
<1>10. x \in Nat /\ off' \in Nat /\ off' = SbAreaBlocks + Before[j]
  BY <1>6, <1>7, <1>8, <1>9
<1>11. x = IF DataSize(j) > 0 THEN SbAreaBlocks + Before[j - 1] ELSE 0
  BY <1>5, <1>6
<1> HIDE DEF x
<1>12. /\ block' \in Seq(Nat) /\ Len(block') = j /\ block'[j] = x
       /\ \A k \in 1..c : block'[k] = block[k]
  BY <1>0, <1>5, <1>6, <1>7, <1>10 DEF Seqs
<1>13. i' = j
  BY <1>1, <1>4
<1>14. Types'
  BY <1>0, <1>1, <1>2, <1>5, <1>10, <1>13 DEF Types
<1>15. Seqs'
  BY <1>0, <1>1, <1>12 DEF Seqs
<1>16. off' = SbAreaBlocks + Before'[i']
  BY <1>2, <1>10, <1>13
<1>17. Len(block') = i' /\ Len(block') <= N' /\ Len(plan') = N'
  BY <1>1, <1>2, <1>5, <1>6, <1>12, <1>13
<1>18. Reached'
  BY <1>1, <1>2, <1>6, <1>16, <1>17 DEF Reached
<1>19. \A k \in 1..Len(block') : block'[k] = IF DataSize(k)' > 0 THEN SbAreaBlocks + Before'[k - 1] ELSE 0
  <2> SUFFICES ASSUME NEW k \in 1..j
               PROVE  block'[k] = IF DataSize(k) > 0 THEN SbAreaBlocks + Before[k - 1] ELSE 0
    BY <1>2, <1>12
  <2>1. CASE k = j
    BY <1>11, <1>12, <2>1
  <2>2. CASE k # j
    <3>1. k \in 1..c /\ k \in 1..Len(block)
      BY <1>5, <1>6, <2>2
    <3> QED BY <1>0, <1>12, <3>1 DEF AsPlanned
  <2> QED BY <2>1, <2>2
<1>20. AsPlanned'
  BY <1>1, <1>2, <1>6, <1>19 DEF AsPlanned
<1> QED BY <1>14, <1>15, <1>18, <1>20 DEF IInv

LEMMA AssignEndsKeeps ==
    ASSUME IInv, AssignEnds
    PROVE  IInv'
<1>0. Types /\ Seqs /\ Reached /\ AsPlanned
  BY DEF IInv
<1>1. /\ stage = "assign" /\ i = N /\ i' = 0 /\ stage' = "data" /\ metaBlk' = off /\ out' = SbAreaSize
      /\ UNCHANGED <<entries, off, plan, block, dataAt, inodeAt, super>>
  BY DEF AssignEnds, Ends
<1>2. /\ N' = N /\ N \in Nat /\ Before' = Before /\ Before[0] = 0
      /\ \A k \in 1..Len(plan') : PlannedOf(k)'
      /\ \A k \in Nat : DataSize(k)' = DataSize(k)
  BY <1>1, PlanStays
<1>3. /\ Len(plan) = N /\ Len(block) = N /\ off = SbAreaBlocks + Before[N]
      /\ dataAt = <<>> /\ inodeAt = <<>> /\ super = 0
  BY <1>0, <1>1 DEF Reached
<1>4. SbAreaBlocks \in Nat /\ SbAreaSize = SbAreaBlocks * BlockSize /\ SbAreaSize \in Nat
  BY AreaFacts DEF B
<1>5. Types' /\ Seqs'
  BY <1>0, <1>1, <1>2, <1>4 DEF Types, Seqs
<1>6. out' = (SbAreaBlocks + Before'[i']) * BlockSize
  BY <1>1, <1>2, <1>4
<1>7. metaBlk' = SbAreaBlocks + Before'[N']
  BY <1>1, <1>2, <1>3
<1>8. Reached'
  BY <1>1, <1>2, <1>3, <1>6, <1>7 DEF Reached
<1>9. \A k \in 1..Len(block') : block'[k] = IF DataSize(k)' > 0 THEN SbAreaBlocks + Before'[k - 1] ELSE 0
  <2>1. \A k \in 1..Len(block) : block[k] = IF DataSize(k) > 0 THEN SbAreaBlocks + Before[k - 1] ELSE 0
    BY <1>0 DEF AsPlanned
  <2> QED BY <1>1, <1>2, <1>3, <2>1
<1>10. AsPlanned'
  BY <1>1, <1>2, <1>3, <1>9 DEF AsPlanned
<1> QED BY <1>5, <1>8, <1>10 DEF IInv

LEMMA DataEntryKeeps ==
    ASSUME IInv, DataEntry
    PROVE  IInv'
<1>0. Types /\ Seqs /\ Reached /\ AsPlanned
  BY DEF IInv
<1>1. /\ stage = "data" /\ stage' = "data" /\ i < N /\ i' = i + 1
      /\ UNCHANGED <<entries, off, plan, block, metaBlk, inodeAt, super>>
  BY DEF DataEntry, Takes
<1>2. /\ N' = N /\ N \in Nat /\ Before' = Before /\ Before \in [0..N -> Nat]
      /\ \A k \in 1..Len(plan') : PlannedOf(k)'
      /\ \A k \in Nat : DataSize(k)' = DataSize(k)
  BY <1>1, PlanStays
<1>3. PICK c \in Nat : c = i
  BY <1>0, ListFacts
<1>4. PICK j \in Nat : j = i + 1
  BY <1>3
<1>5. j = c + 1 /\ j \in 1..N /\ c \in 0..N /\ j \in 0..N /\ j - 1 = c
  BY <1>1, <1>2, <1>3, <1>4
<1>6. /\ Len(plan) = N /\ Len(block) = N /\ metaBlk = SbAreaBlocks + Before[N] /\ Len(dataAt) = c
      /\ out = (SbAreaBlocks + Before[c]) * BlockSize /\ inodeAt = <<>> /\ super = 0
  BY <1>0, <1>1, <1>3 DEF Reached
<1>7. dataAt' = Append(dataAt, out) /\ out' = out + Up(DataSize(j), BlockSize)
  BY <1>4 DEF DataEntry
<1>8. Before[j] = Before[c] + Blocks(DataSize(j)) /\ Blocks(DataSize(j)) \in Nat /\ Before[c] \in Nat
  BY <1>0, <1>5, BeforeFacts
<1>9. out \in Nat /\ DataSize(j) \in Nat
  BY <1>0, <1>5, DataSizes DEF Types
<1>10. out' = (SbAreaBlocks + Before[j]) * BlockSize /\ out' \in Nat
  <2> DEFINE p == SbAreaBlocks + Before[c]
             q == Blocks(DataSize(j))
  <2>1. p \in Nat /\ q \in Nat /\ B \in Nat /\ SbAreaBlocks + Before[j] = p + q
    BY <1>8, AreaFacts, BlockFacts
  <2>2. out' = p * BlockSize + q * BlockSize
    BY <1>6, <1>7, <1>9, UpIsBlocks
  <2> HIDE DEF p, q
  <2>3. p * BlockSize \in Nat /\ q * BlockSize \in Nat /\ (p + q) * BlockSize = p * BlockSize + q * BlockSize
    BY <2>1 DEF B
  <2> QED BY <2>1, <2>2, <2>3
<1>11. i' = j
  BY <1>1, <1>4
<1>12. /\ dataAt' \in Seq(Nat) /\ Len(dataAt') = j /\ dataAt'[j] = out
       /\ \A k \in 1..c : dataAt'[k] = dataAt[k]
  BY <1>0, <1>5, <1>6, <1>7, <1>9 DEF Seqs
<1>13. Types'
  BY <1>0, <1>1, <1>2, <1>5, <1>10, <1>11 DEF Types
<1>14. Seqs'
  BY <1>0, <1>1, <1>12 DEF Seqs
<1>15. out' = (SbAreaBlocks + Before'[i']) * BlockSize
  BY <1>2, <1>10, <1>11
<1>16. Len(dataAt') = i' /\ Len(dataAt') <= N' /\ Len(plan') = N' /\ Len(block') = N' /\ metaBlk' = SbAreaBlocks + Before'[N']
  BY <1>1, <1>2, <1>5, <1>6, <1>11, <1>12
<1>17. Reached'
  BY <1>1, <1>2, <1>6, <1>15, <1>16 DEF Reached
<1>18. \A k \in 1..Len(dataAt') : dataAt'[k] = (SbAreaBlocks + Before'[k - 1]) * BlockSize
  <2> SUFFICES ASSUME NEW k \in 1..j
               PROVE  dataAt'[k] = (SbAreaBlocks + Before[k - 1]) * BlockSize
    BY <1>2, <1>12
  <2>1. CASE k = j
    BY <1>5, <1>6, <1>12, <2>1
  <2>2. CASE k # j
    <3>1. k \in 1..c /\ k \in 1..Len(dataAt)
      BY <1>5, <1>6, <2>2
    <3> QED BY <1>0, <1>12, <3>1 DEF AsPlanned
  <2> QED BY <2>1, <2>2
<1>19. \A k \in 1..Len(block') : block'[k] = IF DataSize(k)' > 0 THEN SbAreaBlocks + Before'[k - 1] ELSE 0
  <2>1. \A k \in 1..Len(block) : block[k] = IF DataSize(k) > 0 THEN SbAreaBlocks + Before[k - 1] ELSE 0
    BY <1>0 DEF AsPlanned
  <2> QED BY <1>1, <1>2, <1>6, <2>1
<1>20. AsPlanned'
  BY <1>1, <1>2, <1>6, <1>18, <1>19 DEF AsPlanned
<1> QED BY <1>13, <1>14, <1>17, <1>20 DEF IInv

LEMMA DataEndsKeeps ==
    ASSUME IInv, DataEnds
    PROVE  IInv'
<1>0. Types /\ Seqs /\ Reached /\ AsPlanned
  BY DEF IInv
<1>1. /\ stage = "data" /\ i = N /\ i' = 0 /\ stage' = "meta" /\ off' = 0
      /\ UNCHANGED <<entries, plan, block, metaBlk, out, dataAt, inodeAt, super>>
  BY DEF DataEnds, Ends
<1>2. /\ N' = N /\ N \in Nat /\ Before' = Before
      /\ \A k \in 1..Len(plan') : PlannedOf(k)'
      /\ \A k \in Nat : DataSize(k)' = DataSize(k)
  BY <1>1, PlanStays
<1>3. /\ Len(plan) = N /\ Len(block) = N /\ metaBlk = SbAreaBlocks + Before[N] /\ Len(dataAt) = N
      /\ out = (SbAreaBlocks + Before[N]) * BlockSize /\ inodeAt = <<>> /\ super = 0
  BY <1>0, <1>1 DEF Reached
<1>4. Types' /\ Seqs'
  BY <1>0, <1>1, <1>2 DEF Types, Seqs
<1>5. WrittenTo(i)'
  BY <1>1 DEF WrittenTo, End
<1>6. metaBlk' = SbAreaBlocks + Before'[N'] /\ out' = metaBlk' * BlockSize
  BY <1>1, <1>2, <1>3
<1>7. Reached'
  BY <1>1, <1>2, <1>3, <1>5, <1>6 DEF Reached
<1>8. \A k \in 1..N : /\ block'[k] = IF DataSize(k)' > 0 THEN SbAreaBlocks + Before'[k - 1] ELSE 0
                      /\ dataAt'[k] = (SbAreaBlocks + Before'[k - 1]) * BlockSize
  <2>1. \A k \in 1..N : /\ block[k] = IF DataSize(k) > 0 THEN SbAreaBlocks + Before[k - 1] ELSE 0
                        /\ dataAt[k] = (SbAreaBlocks + Before[k - 1]) * BlockSize
    BY <1>0, <1>3 DEF AsPlanned
  <2> QED BY <1>1, <1>2, <2>1
<1>9. AsPlanned'
  BY <1>1, <1>2, <1>3, <1>8 DEF AsPlanned
<1> QED BY <1>4, <1>7, <1>9 DEF IInv

(* What an inode's record leaves of its planned length.                    *)
LEMMA InodeLength ==
    ASSUME IInv, NEW k \in 1..Len(plan), NEW got \in Copied(entries[k], plan[k])
    PROVE  /\ got \in Nat /\ got <= plan[k].trailing
           /\ got # plan[k].trailing => End(k) <= (plan[k].at \div BlockSize) * BlockSize + BlockSize
<1>0. Types /\ Seqs /\ Reached /\ AsPlanned
  BY DEF IInv
<1>1. PlannedOf(k) /\ k \in 0..Len(plan) /\ k # 0 /\ Len(plan) <= N
  BY <1>0 DEF AsPlanned, Reached, Seqs
<1>2. \A q \in 1..Len(plan) : PlannedOf(q)
  BY <1>0 DEF AsPlanned
<1> DEFINE a == plan[k].at
           t == plan[k].trailing
           h == Header(entries[k])
<1>3. /\ End(k) \in Nat /\ End(k) % Slot = 0 /\ plan[k] \in Planned /\ entries[k] \in EntryShape
      /\ Size(k) \in Nat /\ h + t <= Size(k) /\ Size(k) < h + t + Slot /\ End(k) = a + Size(k)
  BY <1>0, <1>1, <1>2, EndFacts
<1>4. a \in Nat /\ t \in Nat /\ h \in Nat
  BY <1>3, EntryFacts DEF Planned
<1>5. plan[k].layout # "inline" => got = t
  BY DEF Copied
<1>6. got \in {0, 1, t}
  BY DEF Copied
<1>7. plan[k].layout = "inline" => t > 0 /\ (a % B) + h + t <= B
  BY <1>1 DEF PlannedOf, B
<1>8. /\ a \div B \in Nat /\ (a \div B) * B \in Nat /\ a % B \in 0..(B - 1) /\ a = (a \div B) * B + (a % B)
      /\ ((a \div B) * B + B) % Slot = 0 /\ B \in Nat
  BY <1>4, InBlock, BlockFacts
<1> HIDE DEF a, t, h
<1>9. got \in Nat /\ got <= t
  <2>1. CASE plan[k].layout = "inline"
    BY <1>4, <1>6, <1>7, <2>1
  <2>2. CASE plan[k].layout # "inline"
    BY <1>4, <1>5, <2>2
  <2> QED BY <2>1, <2>2
<1>10. ASSUME got # t
       PROVE  End(k) <= (a \div B) * B + B
  <2> DEFINE x == (a \div B) * B
             r == a % B
  <2>0. plan[k].layout = "inline"
    BY <1>5, <1>10
  <2>1. r + h + t <= B
    BY <1>7, <2>0
  <2>a. x \in Nat /\ r \in Nat /\ a = x + r /\ (x + B) % Slot = 0
    BY <1>8
  <2> HIDE DEF x, r
  <2>2. End(k) < x + B + Slot
    BY <1>3, <1>4, <1>8, <2>1, <2>a DEF Slot
  <2> DEFINE y == x + B
             z == End(k)
  <2>3. y \in Nat /\ z \in Nat /\ y % Slot = 0 /\ z % Slot = 0 /\ z < y + Slot
    BY <1>3, <1>8, <2>a, <2>2
  <2> HIDE DEF y, z
  <2>4. z <= y
    BY <2>3 DEF Slot
  <2> QED BY <2>4 DEF x, y, z
<1> QED BY <1>9, <1>10 DEF a, t, B

LEMMA InodeEntryKeeps ==
    ASSUME IInv, InodeEntry
    PROVE  IInv' /\ off <= plan[i + 1].at
<1>0. Types /\ Seqs /\ Reached /\ AsPlanned
  BY DEF IInv
<1>1. /\ stage = "meta" /\ stage' = "meta" /\ i < N /\ i' = i + 1
      /\ UNCHANGED <<entries, plan, block, metaBlk, out, dataAt, super>>
  BY DEF InodeEntry, Takes
<1>2. /\ N' = N /\ N \in Nat /\ Before' = Before
      /\ \A k \in 1..Len(plan') : PlannedOf(k)'
      /\ \A k \in Nat : DataSize(k)' = DataSize(k) /\ End(k)' = End(k)
  BY <1>1, PlanStays
<1>3. PICK c \in Nat : c = i
  BY <1>0, ListFacts
<1>4. PICK j \in Nat : j = i + 1
  BY <1>3
<1>5. j = c + 1 /\ j \in 1..N /\ c \in 0..N /\ j \in 0..N /\ j - 1 = c /\ j # 0
  BY <1>1, <1>2, <1>3, <1>4
<1>6. /\ Len(plan) = N /\ Len(block) = N /\ metaBlk = SbAreaBlocks + Before[N] /\ Len(dataAt) = N
      /\ out = metaBlk * BlockSize /\ Len(inodeAt) = c /\ WrittenTo(c) /\ super = 0
  BY <1>0, <1>1, <1>3 DEF Reached
<1>7. j \in 1..Len(plan) /\ j \in 0..Len(plan) /\ c \in 0..Len(plan) /\ Len(plan) <= N
  BY <1>2, <1>5, <1>6
<1>8. \A k \in 1..Len(plan) : PlannedOf(k)
  BY <1>0 DEF AsPlanned
<1> DEFINE a == plan[j].at
           t == plan[j].trailing
           h == Header(entries[j])
<1>9. /\ End(j) \in Nat /\ plan[j] \in Planned /\ entries[j] \in EntryShape
      /\ Size(j) \in Nat /\ h + t <= Size(j) /\ End(j) = a + Size(j)
  BY <1>0, <1>5, <1>7, <1>8, EndFacts
<1>10. End(c) \in Nat /\ End(c) <= a
  <2>1. End(c) \in Nat
    BY <1>0, <1>7, <1>8, EndFacts
  <2>2. PlannedOf(j)
    BY <1>7, <1>8
  <2> QED BY <1>5, <2>1, <2>2 DEF PlannedOf
<1>11. off \in Nat /\ off <= a /\ a \in Nat /\ t \in Nat /\ h \in Nat /\ h > 0
  <2>1. off \in Nat /\ off <= End(c) /\ a \in Nat /\ t \in Nat
    BY <1>0, <1>6, <1>9 DEF Types, WrittenTo, Planned
  <2>2. h \in Nat /\ h > 0
    <3>1. entries[j].core \in {32, 64} /\ h \in Nat /\ entries[j].core <= h
      BY <1>9, EntryFacts
    <3> QED BY <3>1
  <2> QED BY <1>10, <2>1, <2>2
<1> DEFINE at == IF a > off THEN a ELSE off
<1>12. PICK got \in Copied(entries[j], plan[j]) :
         off' = at + h + got + Size(j) - (h + t)
  BY <1>4 DEF InodeEntry
<1>13. inodeAt' = Append(inodeAt, at)
  BY <1>4 DEF InodeEntry
<1>14. at = a
  BY <1>11
<1>15. got \in Nat /\ got <= t /\ (got # t => End(j) <= (a \div BlockSize) * BlockSize + BlockSize)
  BY <1>7, InodeLength
<1> HIDE DEF a, t, h, at
<1>16. off' \in Nat /\ off' <= End(j) /\ a < off' /\ (got = t => off' = End(j))
  BY <1>9, <1>11, <1>12, <1>14, <1>15
<1>17. i' = j
  BY <1>1, <1>4
<1>18. WrittenTo(j)'
  <2>1. End(j)' = End(j) /\ plan'[j].at = a
    BY <1>1, <1>2 DEF a
  <2> QED BY <1>5, <1>15, <1>16, <2>1 DEF WrittenTo
<1>19. WrittenTo(i)'
  <2>1. End(i)' = End(j)'
    BY <1>17 DEF End, Size
  <2> QED BY <1>17, <1>18, <2>1 DEF WrittenTo
<1>20. /\ inodeAt' \in Seq(Nat) /\ Len(inodeAt') = j /\ inodeAt'[j] = a
       /\ \A k \in 1..c : inodeAt'[k] = inodeAt[k]
  BY <1>0, <1>5, <1>6, <1>11, <1>13, <1>14 DEF Seqs
<1>21. Types'
  BY <1>0, <1>1, <1>2, <1>5, <1>16, <1>17 DEF Types
<1>22. Seqs'
  BY <1>0, <1>1, <1>20 DEF Seqs
<1>23. /\ Len(inodeAt') = i' /\ Len(inodeAt') <= N' /\ Len(plan') = N' /\ Len(block') = N'
       /\ Len(dataAt') = N' /\ metaBlk' = SbAreaBlocks + Before'[N'] /\ out' = metaBlk' * BlockSize
  BY <1>1, <1>2, <1>5, <1>6, <1>17, <1>20
<1>24. Reached'
  BY <1>1, <1>2, <1>6, <1>19, <1>23 DEF Reached
<1>25. \A k \in 1..N : /\ block'[k] = IF DataSize(k)' > 0 THEN SbAreaBlocks + Before'[k - 1] ELSE 0
                       /\ dataAt'[k] = (SbAreaBlocks + Before'[k - 1]) * BlockSize
  <2>1. \A k \in 1..N : /\ block[k] = IF DataSize(k) > 0 THEN SbAreaBlocks + Before[k - 1] ELSE 0
                        /\ dataAt[k] = (SbAreaBlocks + Before[k - 1]) * BlockSize
    BY <1>0, <1>6 DEF AsPlanned
  <2> QED BY <1>1, <1>2, <2>1
<1>26. \A k \in 1..Len(inodeAt') : inodeAt'[k] = plan'[k].at
  <2> SUFFICES ASSUME NEW k \in 1..j
               PROVE  inodeAt'[k] = plan[k].at
    BY <1>1, <1>20
  <2>1. CASE k = j
    BY <1>20, <2>1 DEF a
  <2>2. CASE k # j
    <3>1. k \in 1..c /\ k \in 1..Len(inodeAt)
      BY <1>5, <1>6, <2>2
    <3> QED BY <1>0, <1>20, <3>1 DEF AsPlanned
  <2> QED BY <2>1, <2>2
<1>27. AsPlanned'
  BY <1>1, <1>2, <1>6, <1>25, <1>26 DEF AsPlanned
<1>28. off <= plan[i + 1].at
  BY <1>4, <1>11 DEF a
<1> QED BY <1>21, <1>22, <1>24, <1>27, <1>28 DEF IInv

(* An offset in the last block of the plan fills as many blocks.           *)
LEMMA SameLastBlock ==
    ASSUME IInv, WrittenTo(N), Len(plan) = N
    PROVE  Up(off, BlockSize) = Blocks(End(N)) * BlockSize /\ Blocks(End(N)) \in Nat
<1>0. Types /\ Seqs /\ AsPlanned /\ N \in Nat /\ B \in Nat \ {0}
  BY ListFacts, BlockFacts DEF IInv
<1>1. off \in Nat /\ off <= End(N)
  BY <1>0 DEF Types, WrittenTo
<1>2. N \in 0..Len(plan) /\ \A k \in 1..Len(plan) : PlannedOf(k)
  BY <1>0 DEF AsPlanned
<1>3. End(N) \in Nat
  BY <1>0, <1>2, EndFacts
<1>4. CASE off = End(N)
  BY <1>1, <1>4, UpIsBlocks
<1>5. CASE off # End(N)
  <2>1. N # 0
    BY <1>5 DEF WrittenTo, End
  <2> DEFINE a == plan[N].at
             d == a \div B
             z == End(N)
             u == Units(off, B)
             v == Units(z, B)
  <2>2. N \in 1..Len(plan)
    BY <1>0, <2>1
  <2>3. a \in Nat
    <3>1. plan[N] \in Planned
      BY <1>0, <2>2 DEF Seqs
    <3> QED BY <3>1 DEF Planned
  <2>4. a < off /\ z <= d * B + B
    BY <1>0, <1>5, <2>1 DEF WrittenTo, B
  <2>5. d \in Nat /\ d * B \in Nat /\ d * B <= a /\ d * B + B = (d + 1) * B
    BY <1>0, <2>3, Division, InBlock
  <2> HIDE DEF a, d, z
  <2>6. u \in Nat /\ off <= u * B /\ v \in Nat /\ z <= v * B /\ z \in Nat
    BY <1>0, <1>1, <1>3, RoundedUp DEF z
  <2>7. v <= d + 1
    BY <1>0, <2>4, <2>5, <2>6, RoundUpLeast
  <2> HIDE DEF u, v
  <2>8. v * B \in Nat /\ u * B \in Nat
    BY <1>0, <2>6
  <2>9. off <= v * B
    BY <1>1, <2>6, <2>8 DEF z
  <2>10. u <= v
    BY <1>0, <1>1, <2>6, <2>9, RoundUpLeast DEF u
  <2>11. d * B < u * B
    BY <1>1, <2>3, <2>4, <2>5, <2>6, <2>8
  <2>12. d < u
    BY <1>0, <2>5, <2>6, <2>11, ProductOrder
  <2>13. u = v
    BY <2>5, <2>6, <2>7, <2>10, <2>12
  <2>14. Up(off, B) = u * B
    BY <1>0, <1>1, UpFacts DEF u
  <2>15. Blocks(z) = v
    BY DEF Blocks, v, Units, B
  <2> QED BY <2>6, <2>13, <2>14, <2>15 DEF z, B
<1> QED BY <1>4, <1>5

LEMMA MetaEndsKeeps ==
    ASSUME IInv, MetaEnds
    PROVE  IInv'
<1>0. Types /\ Seqs /\ Reached /\ AsPlanned
  BY DEF IInv
<1>1. /\ stage = "meta" /\ i = N /\ i' = 0 /\ stage' = "super"
      /\ out' = out + Up(off, BlockSize)
      /\ UNCHANGED <<entries, off, plan, block, metaBlk, dataAt, inodeAt, super>>
  BY DEF MetaEnds, Ends
<1>2. /\ N' = N /\ N \in Nat /\ Before' = Before
      /\ \A k \in 1..Len(plan') : PlannedOf(k)'
      /\ \A k \in Nat : DataSize(k)' = DataSize(k) /\ End(k)' = End(k)
  BY <1>1, PlanStays
<1>3. /\ Len(plan) = N /\ Len(block) = N /\ metaBlk = SbAreaBlocks + Before[N] /\ Len(dataAt) = N
      /\ out = metaBlk * BlockSize /\ Len(inodeAt) = N /\ super = 0
  BY <1>0, <1>1 DEF Reached
<1>4. WrittenTo(N)
  BY <1>0, <1>1 DEF Reached, WrittenTo, End, Size
<1>5. Up(off, BlockSize) = Blocks(End(N)) * BlockSize /\ Blocks(End(N)) \in Nat
  BY <1>3, <1>4, SameLastBlock
<1>6. out' = (metaBlk + Blocks(End(N))) * BlockSize /\ out' \in Nat
  <2> DEFINE q == Blocks(End(N))
  <2>1. q \in Nat /\ metaBlk \in Nat /\ BlockSize \in Nat /\ out' = metaBlk * BlockSize + q * BlockSize
    BY <1>0, <1>1, <1>3, <1>5, BlockFacts DEF Types, B
  <2> HIDE DEF q
  <2>2. /\ metaBlk * BlockSize \in Nat /\ q * BlockSize \in Nat
        /\ (metaBlk + q) * BlockSize = metaBlk * BlockSize + q * BlockSize
    BY <2>1
  <2>3. out' = (metaBlk + q) * BlockSize /\ out' \in Nat
    BY <2>1, <2>2
  <2> QED BY <2>3 DEF q
<1>7. Types' /\ Seqs'
  BY <1>0, <1>1, <1>2, <1>6 DEF Types, Seqs
<1>8. End(N)' = End(N)
  BY <1>1, <1>2 DEF End, Size
<1>9. out' = (metaBlk' + Blocks(End(N))') * BlockSize
  BY <1>1, <1>6, <1>8 DEF Blocks
<1>10. metaBlk' = SbAreaBlocks + Before'[N'] /\ Len(plan') = N' /\ Len(block') = N' /\ Len(dataAt') = N'
       /\ Len(inodeAt') = N'
  BY <1>1, <1>2, <1>3
<1>11. Reached'
  BY <1>1, <1>2, <1>3, <1>9, <1>10 DEF Reached
<1>12. \A k \in 1..N : /\ block'[k] = IF DataSize(k)' > 0 THEN SbAreaBlocks + Before'[k - 1] ELSE 0
                       /\ dataAt'[k] = (SbAreaBlocks + Before'[k - 1]) * BlockSize
                       /\ inodeAt'[k] = plan'[k].at
  <2>1. \A k \in 1..N : /\ block[k] = IF DataSize(k) > 0 THEN SbAreaBlocks + Before[k - 1] ELSE 0
                        /\ dataAt[k] = (SbAreaBlocks + Before[k - 1]) * BlockSize
                        /\ inodeAt[k] = plan[k].at
    BY <1>0, <1>3 DEF AsPlanned
  <2> QED BY <1>1, <1>2, <2>1
<1>13. AsPlanned'
  BY <1>1, <1>2, <1>10, <1>12 DEF AsPlanned
<1> QED BY <1>7, <1>11, <1>13 DEF IInv

(* What writeBlock0 counts again is what the plan and the data came to.    *)
LEMMA CountedAgain ==
    ASSUME IInv, Len(plan) = N
    PROVE  MetadataBytes = End(N) /\ DataBlocks = Before[N]
<1>0. Types /\ Seqs /\ AsPlanned /\ N \in Nat
  BY ListFacts DEF IInv
<1>1. \A k \in 1..N : PlannedOf(k)
  BY <1>0 DEF AsPlanned
<1>2. DataBlocks = Before[N]
  BY DEF DataBlocks, Before
<1> DEFINE Step(h) == [k \in 0..N |->
              IF k = 0 THEN 0
              ELSE (IF h[k - 1] < plan[k].at THEN plan[k].at ELSE h[k - 1]) + Size(k)]
           f == [k \in 0..N |-> End(k)]
           x == CHOOSE h : h = Step(h)
<1>3. \A k \in 0..N : End(k) \in Nat
  <2> SUFFICES ASSUME NEW k \in 0..N
               PROVE  End(k) \in Nat
    OBVIOUS
  <2>1. k \in 0..Len(plan) /\ Len(plan) <= N /\ \A q \in 1..Len(plan) : PlannedOf(q)
    BY <1>0, <1>1
  <2> QED BY <1>0, <2>1, EndFacts
<1>4. \A k \in 1..N :
        (IF End(k - 1) < plan[k].at THEN plan[k].at ELSE End(k - 1)) + Size(k) = End(k)
  <2> SUFFICES ASSUME NEW k \in 1..N
               PROVE  (IF End(k - 1) < plan[k].at THEN plan[k].at ELSE End(k - 1)) + Size(k) = End(k)
    OBVIOUS
  <2>1. End(k - 1) <= plan[k].at
    BY <1>1 DEF PlannedOf
  <2>2. plan[k].at \in Nat
    <3>1. plan[k] \in Planned
      BY <1>0 DEF Seqs
    <3> QED BY <3>1 DEF Planned
  <2>3. End(k - 1) \in Nat
    BY <1>0, <1>3
  <2>4. (IF End(k - 1) < plan[k].at THEN plan[k].at ELSE End(k - 1)) = plan[k].at
    BY <2>1, <2>2, <2>3
  <2>5. k # 0
    OBVIOUS
  <2>6. End(k) = plan[k].at + Size(k)
    BY <2>5 DEF End
  <2> QED BY <2>4, <2>6
<1>5. f = Step(f)
  <2>1. ASSUME NEW k \in 0..N
        PROVE  f[k] = Step(f)[k]
    <3>1. CASE k = 0
      BY <3>1 DEF End
    <3>2. CASE k # 0
      <4>1. k \in 1..N /\ k - 1 \in 0..N
        BY <1>0, <3>2
      <4>2. f[k] = End(k) /\ f[k - 1] = End(k - 1)
        BY <4>1
      <4>3. Step(f)[k] = (IF f[k - 1] < plan[k].at THEN plan[k].at ELSE f[k - 1]) + Size(k)
        <5> HIDE DEF f
        <5> QED BY <3>2
      <4> QED BY <1>4, <4>1, <4>2, <4>3
    <3> QED BY <3>1, <3>2
  <2>2. f = [k \in 0..N |-> f[k]] /\ Step(f) = [k \in 0..N |-> Step(f)[k]]
    OBVIOUS
  <2> HIDE DEF f, Step
  <2> QED BY <2>1, <2>2
<1>6. x = Step(x)
  <2> HIDE DEF f, Step
  <2> QED BY <1>5
<1>7. MetadataBytes = x[N]
  BY DEF MetadataBytes
<1> HIDE DEF x, f
<1>8. \A k \in 0..N : x[k] = IF k = 0 THEN 0
        ELSE (IF x[k - 1] < plan[k].at THEN plan[k].at ELSE x[k - 1]) + Size(k)
  BY <1>6
<1> HIDE DEF Step
<1> DEFINE T == {k \in 0..N : x[k] = End(k)}
<1>9. 0..N \subseteq T
  <2>1. 0 \in T
    <3>1. x[0] = 0 /\ 0 \in 0..N
      BY <1>0, <1>8
    <3> QED BY <3>1 DEF End
  <2>2. ASSUME NEW k \in 0..N, k \in T, k < N
        PROVE  k + 1 \in T
    <3>1. k + 1 \in 1..N /\ k + 1 \in 0..N /\ k + 1 # 0 /\ (k + 1) - 1 = k
      BY <1>0, <2>2
    <3>2. x[k + 1] = (IF x[k] < plan[k + 1].at THEN plan[k + 1].at ELSE x[k]) + Size(k + 1)
      BY <1>8, <3>1
    <3>3. (IF End(k) < plan[k + 1].at THEN plan[k + 1].at ELSE End(k)) + Size(k + 1) = End(k + 1)
      BY <1>4, <3>1
    <3> QED BY <2>2, <3>1, <3>2, <3>3
  <2> HIDE DEF T
  <2> QED BY <1>0, <2>1, <2>2, BoundedInduction
<1>10. x[N] = End(N)
  BY <1>0, <1>9
<1> QED BY <1>2, <1>7, <1>10

(* A step that writes nothing of the plan and ends the writing.            *)
LEMMA Stays ==
    ASSUME IInv, UNCHANGED <<entries, i, off, plan, block, metaBlk, out, dataAt, inodeAt>>,
           stage \in {"data", "meta", "super"}, stage' \in {"done", "failed"},
           super' \in Nat, super' # 0 => super' * BlockSize = out
    PROVE  IInv'
<1>0. Types /\ Seqs /\ Reached /\ AsPlanned
  BY DEF IInv
<1>2. /\ N' = N /\ N \in Nat /\ Before' = Before
      /\ \A k \in 1..Len(plan') : PlannedOf(k)'
      /\ \A k \in Nat : DataSize(k)' = DataSize(k)
  BY PlanStays
<1>3. /\ Len(plan) = N /\ Len(block) = N /\ metaBlk = SbAreaBlocks + Before[N]
      /\ Len(dataAt) <= N /\ Len(inodeAt) <= N
  BY <1>0 DEF Reached
<1>4. Types' /\ Seqs'
  BY <1>0, <1>2 DEF Types, Seqs
<1>5. Reached'
  BY <1>2, <1>3 DEF Reached
<1>6. \A k \in 1..N : block'[k] = IF DataSize(k)' > 0 THEN SbAreaBlocks + Before'[k - 1] ELSE 0
  <2>1. \A k \in 1..N : block[k] = IF DataSize(k) > 0 THEN SbAreaBlocks + Before[k - 1] ELSE 0
    BY <1>0, <1>3 DEF AsPlanned
  <2> QED BY <1>2, <2>1
<1>7. /\ \A k \in 1..Len(dataAt') : dataAt'[k] = (SbAreaBlocks + Before'[k - 1]) * BlockSize
      /\ \A k \in 1..Len(inodeAt') : inodeAt'[k] = plan'[k].at
  BY <1>0, <1>2 DEF AsPlanned
<1>8. AsPlanned'
  BY <1>2, <1>3, <1>6, <1>7 DEF AsPlanned
<1> QED BY <1>4, <1>5, <1>8 DEF IInv

LEMMA WriteBlock0Keeps ==
    ASSUME IInv, WriteBlock0
    PROVE  IInv'
<1>0. Types /\ Seqs /\ Reached /\ N \in Nat
  BY ListFacts DEF IInv
<1>1. /\ stage = "super" /\ stage' \in {"done", "failed"}
      /\ super' = SbAreaBlocks + Blocks(MetadataBytes) + DataBlocks
      /\ UNCHANGED <<entries, i, off, plan, block, metaBlk, out, dataAt, inodeAt>>
  BY DEF WriteBlock0
<1>2. Len(plan) = N /\ metaBlk = SbAreaBlocks + Before[N] /\ out = (metaBlk + Blocks(End(N))) * BlockSize
  BY <1>0, <1>1 DEF Reached
<1>3. MetadataBytes = End(N) /\ DataBlocks = Before[N]
  BY <1>2, CountedAgain
<1>4. Blocks(End(N)) \in Nat /\ Before[N] \in Nat
  <2>1. End(N) \in Nat
    <3>1. \A k \in 1..Len(plan) : PlannedOf(k)
      BY DEF IInv, AsPlanned
    <3> QED BY <1>0, <1>2, <3>1, EndFacts
  <2>2. N \in 0..N /\ Before \in [0..N -> Nat]
    BY <1>0, BeforeFacts
  <2> QED BY <2>1, <2>2, UpIsBlocks
<1>5. super' \in Nat /\ super' = metaBlk + Blocks(End(N))
  BY <1>1, <1>2, <1>3, <1>4, AreaFacts
<1> QED BY <1>1, <1>2, <1>5, Stays

LEMMA FailKeeps ==
    ASSUME IInv, Fail
    PROVE  IInv'
<1>1. super \in Nat /\ super = 0
  BY DEF IInv, Types, Reached, Fail
<1> QED BY <1>1, Stays DEF Fail

LEMMA StutterKeeps ==
    ASSUME IInv, UNCHANGED vars
    PROVE  IInv'
<1>0. Types /\ Seqs /\ Reached /\ AsPlanned
  BY DEF IInv
<1>1. /\ entries' = entries /\ stage' = stage /\ i' = i /\ off' = off /\ plan' = plan /\ block' = block
      /\ metaBlk' = metaBlk /\ out' = out /\ dataAt' = dataAt /\ inodeAt' = inodeAt /\ super' = super
  BY DEF vars
<1>2. /\ N' = N /\ Before' = Before
      /\ \A k \in 1..Len(plan') : PlannedOf(k)'
      /\ \A k \in Nat : DataSize(k)' = DataSize(k) /\ End(k)' = End(k)
  BY <1>1, PlanStays
<1>3. Types' /\ Seqs'
  BY <1>0, <1>1, <1>2 DEF Types, Seqs
<1>4. End(i)' = End(i) /\ End(N)' = End(N) /\ (WrittenTo(i)' <=> WrittenTo(i))
  BY <1>1, <1>2 DEF End, Size, WrittenTo
<1>5. Reached'
  BY <1>0, <1>1, <1>2, <1>4 DEF Reached, Blocks
<1>6. /\ \A k \in 1..Len(block) : block[k] = IF DataSize(k) > 0 THEN SbAreaBlocks + Before[k - 1] ELSE 0
      /\ \A k \in 1..Len(dataAt) : dataAt[k] = (SbAreaBlocks + Before[k - 1]) * BlockSize
      /\ \A k \in 1..Len(inodeAt) : inodeAt[k] = plan[k].at
  BY <1>0 DEF AsPlanned
<1>7. AsPlanned'
  BY <1>1, <1>2, <1>6 DEF AsPlanned
<1> QED BY <1>3, <1>5, <1>7 DEF IInv

LEMMA StepOK == IInv /\ [Next]_vars => IInv'
<1> SUFFICES ASSUME IInv, [Next]_vars
             PROVE  IInv'
  OBVIOUS
<1>1. CASE PlanEntry
  BY <1>1, PlanEntryKeeps
<1>2. CASE PlanEnds
  BY <1>2, PlanEndsKeeps
<1>3. CASE AssignEntry
  BY <1>3, AssignEntryKeeps
<1>4. CASE AssignEnds
  BY <1>4, AssignEndsKeeps
<1>5. CASE DataEntry
  BY <1>5, DataEntryKeeps
<1>6. CASE DataEnds
  BY <1>6, DataEndsKeeps
<1>7. CASE InodeEntry
  BY <1>7, InodeEntryKeeps
<1>8. CASE MetaEnds
  BY <1>8, MetaEndsKeeps
<1>9. CASE WriteBlock0
  BY <1>9, WriteBlock0Keeps
<1>10. CASE Fail
  BY <1>10, FailKeeps
<1>11. CASE UNCHANGED vars
  BY <1>11, StutterKeeps
<1> QED BY <1>1, <1>2, <1>3, <1>4, <1>5, <1>6, <1>7, <1>8, <1>9, <1>10, <1>11 DEF Next

LEMMA Invariant == Spec => []IInv
  BY InitOK, StepOK, PTL DEF Spec
-----------------------------------------------------------------------------
(* Every variable of the writer keeps its range, for any list of entries   *)
(* (writeSeekable, writer.go:82).                                       *)
THEOREM Typed == Spec => []TypeOK
<1>1. IInv => TypeOK
  BY DEF IInv, Types, Seqs, Reached, Planned, TypeOK
<1> QED BY <1>1, Invariant, PTL

(* planLayout (layout.go:10): every inode starts at a nid and stays in its *)
(* block, inline data ends in that block, and no two inodes share a byte.  *)
THEOREM PlanIsSound == Spec => []PlanSound
<1>1. IInv => PlanSound
  <2> SUFFICES ASSUME IInv, NEW k \in 1..Len(plan)
               PROVE  /\ plan[k].at % Slot = 0
                      /\ plan[k].at \div BlockSize = (plan[k].at + entries[k].core - 1) \div BlockSize
                      /\ plan[k].layout = "inline" =>
                            (plan[k].at % BlockSize) + Header(entries[k]) + entries[k].size <= BlockSize
                      /\ k > 1 => plan[k - 1].at + Size(k - 1) <= plan[k].at
    BY DEF PlanSound
  <2>1. Types /\ Seqs /\ Reached /\ PlannedOf(k)
    BY DEF IInv, AsPlanned
  <2> DEFINE a == plan[k].at
             c == entries[k].core
  <2>2. a \in Nat /\ entries[k] \in EntryShape
    <3>1. Len(plan) <= N /\ N \in Nat /\ Len(plan) \in Nat /\ plan[k] \in Planned
      BY <2>1, ListFacts DEF Seqs, Reached
    <3>2. k \in 1..N
      BY <3>1
    <3> QED BY <2>1, <3>1, <3>2, ListFacts DEF Planned
  <2>3. c \in {32, 64} /\ a % Slot = 0 /\ (a % B) + c <= B
    BY <2>1, <2>2, EntryFacts DEF PlannedOf, B
  <2>4. a \div B = (a + c - 1) \div B
    <3> DEFINE q == a \div B
               r == a % B
    <3>1. q \in Nat /\ r \in 0..(B - 1) /\ a = q * B + r /\ B \in Nat \ {0} /\ q * B \in Nat
      BY <2>2, InBlock, BlockFacts
    <3>2. r + c <= B
      BY <2>3
    <3> HIDE DEF q, r, a, c
    <3>3. r + c - 1 \in 0..(B - 1) /\ a + c - 1 = q * B + (r + c - 1) /\ a + c - 1 \in Nat
      BY <2>3, <3>1, <3>2
    <3>4. (a + c - 1) \div B = q
      BY <3>1, <3>3, DivisionUnique
    <3> QED BY <3>4 DEF q
  <2>5. k > 1 => plan[k - 1].at + Size(k - 1) <= a
    BY <2>1 DEF PlannedOf, End
  <2>6. plan[k].layout = "inline" =>
          (plan[k].at % BlockSize) + Header(entries[k]) + entries[k].size <= BlockSize
    BY <2>1 DEF PlannedOf
  <2> QED BY <2>3, <2>4, <2>5, <2>6 DEF B
<1> QED BY <1>1, Invariant, PTL

(* writeMetadataInodes pads with at most one block of zeros: the next      *)
(* inode is planned in the block the buffer ends in, or right behind it.   *)
LEMMA PaddingFits ==
    ASSUME IInv, stage = "meta", i < N
    PROVE  plan[i + 1].at - off \in 0..BlockSize
<1>0. Types /\ Seqs /\ Reached /\ AsPlanned /\ N \in Nat /\ i \in Nat /\ B \in Nat \ {0}
  BY ListFacts, BlockFacts DEF IInv
<1> DEFINE a == plan[i + 1].at
           z == End(i)
<1>1. Len(plan) = N /\ WrittenTo(i) /\ off \in Nat
  BY <1>0 DEF Reached, Types
<1>2. i + 1 \in 1..Len(plan) /\ i \in 0..Len(plan) /\ i + 1 # 0 /\ (i + 1) - 1 = i
  BY <1>0, <1>1
<1>3. PlannedOf(i + 1) /\ plan[i + 1] \in Planned
  BY <1>0, <1>2 DEF AsPlanned, Seqs
<1>4. a \in Nat /\ z <= a /\ a <= Up(z, B)
  BY <1>2, <1>3 DEF PlannedOf, Planned, B
<1>5. z \in Nat
  <2>1. Len(plan) <= N /\ \A k \in 1..Len(plan) : PlannedOf(k)
    BY <1>0, <1>1 DEF AsPlanned
  <2> QED BY <1>0, <1>2, <2>1, EndFacts
<1>6. off <= z
  BY <1>1 DEF WrittenTo
<1>7. Up(z, B) \in Nat /\ Up(z, B) < z + B /\ \A q \in Nat : z <= q * B => Up(z, B) <= q * B
  BY <1>0, <1>5, UpFacts
<1>8. a - off <= B
  <2>1. CASE off = z
    BY <1>0, <1>1, <1>4, <1>5, <1>7, <2>1
  <2>2. CASE off # z
    <3> DEFINE p == plan[i].at
               d == p \div B
    <3>1. i # 0
      BY <1>1, <2>2 DEF WrittenTo, End
    <3>2. p \in Nat
      <4>1. plan[i] \in Planned
        BY <1>0, <1>2, <3>1 DEF Seqs
      <4> QED BY <4>1 DEF Planned
    <3>3. p < off /\ z <= d * B + B
      BY <1>0, <1>1, <2>2, <3>1 DEF WrittenTo, B
    <3> HIDE DEF p
    <3>a. d \in Nat /\ d * B \in Nat /\ d * B + B = (d + 1) * B
      BY <3>2, InBlock
    <3>b. d * B <= p
      BY <1>0, <3>2, Division
    <3> HIDE DEF d, z, a
    <3>4. d \in Nat /\ d * B \in Nat /\ d * B <= p /\ d * B + B = (d + 1) * B /\ d + 1 \in Nat
      BY <3>a, <3>b
    <3>5. Up(z, B) <= (d + 1) * B
      BY <1>7, <3>3, <3>4
    <3> QED BY <1>0, <1>1, <1>4, <1>7, <3>2, <3>3, <3>4, <3>5
  <2> QED BY <2>1, <2>2
<1> QED BY <1>0, <1>1, <1>4, <1>5, <1>6, <1>8 DEF B

(* writeDataBlocks and writeMetadataInodes (writer.go:605, 282): inodes and *)
(* data land at the nid and block the plan gave out, the zeros between two *)
(* inodes fit the block they are taken from, also behind an inline file    *)
(* whose reader came up short.                                             *)
THEOREM WrittenWhereItWasPlanned == Spec => []WrittenAsPlanned
<1>1. IInv => WrittenAsPlanned
  <2> SUFFICES ASSUME IInv
               PROVE  WrittenAsPlanned
    OBVIOUS
  <2>1. Types /\ Seqs /\ Reached /\ AsPlanned /\ N \in Nat
    BY ListFacts DEF IInv
  <2>2. ASSUME NEW k \in 1..Len(dataAt), DataSize(k) > 0
        PROVE  dataAt[k] = block[k] * BlockSize
    <3>1. stage \notin {"plan", "assign"}
      BY <2>1 DEF Reached
    <3>2. Len(block) = N /\ Len(dataAt) <= N /\ Len(dataAt) \in Nat
      BY <2>1, <3>1 DEF Reached, Seqs
    <3>3. k \in 1..Len(block)
      BY <2>1, <3>2
    <3> QED BY <2>1, <2>2, <3>3 DEF AsPlanned
  <2>3. stage = "meta" => out = metaBlk * BlockSize
    BY <2>1 DEF Reached
  <2>4. \A k \in 1..Len(inodeAt) : inodeAt[k] = plan[k].at
    BY <2>1 DEF AsPlanned
  <2> QED BY <2>2, <2>3, <2>4, PaddingFits DEF WrittenAsPlanned
<1> QED BY <1>1, Invariant, PTL

(* writeBlock0 (writer.go:209): the blocks the superblock counts are those *)
(* that have been written, whatever came up short before.                  *)
THEOREM SuperblockCountsAll == Spec => []SuperCountsAll
<1>1. IInv => SuperCountsAll
  BY DEF IInv, Reached, SuperCountsAll
<1> QED BY <1>1, Invariant, PTL
=============================================================================
