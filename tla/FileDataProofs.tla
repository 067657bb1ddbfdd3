---------------------------- MODULE FileDataProofs ----------------------------
(***************************************************************************)
(* Proofs about the Writer's store, for any files, sizes and block sizes.  *)
(* Everything a finished file refers to lies in front of the end of the    *)
(* store (Behind), whatever fails and whichever Files are open; while no   *)
(* call has failed and Files are used one at a time, an open File's bytes  *)
(* are the end of the store (Writing), so they are what Close records.     *)
(***************************************************************************)
EXTENDS FileData, NaturalLemmas

B == BlockSize

StoreOK ==
    /\ dataMode \in BOOLEAN /\ spooled \in BOOLEAN
    /\ failed \in BOOLEAN /\ done \in BOOLEAN
    /\ store \in Seq(Cell) /\ off = Len(store)
Data == [made : BOOLEAN, fileClosed : BOOLEAN, start : Nat, spoolOff : Nat,
         size : Nat, chunks : Seq(Chunk), direct : Seq(Cell)]
Handle == [open : BOOLEAN, start : Nat, written : Nat]
EntOK == ent \in [File -> Data] /\ handle \in [File -> Handle]

(* A File's bytes, its entry's range of the spool and its chunks, to the   *)
(* end of their last block, are in the store.                              *)
BehindOf(f) ==
    /\ handle[f].start + handle[f].written <= off
    /\ ent[f].spoolOff <= handle[f].start
    /\ ~dataMode /\ ent[f].direct = <<>> => ent[f].spoolOff + ent[f].size <= off
    /\ \A i \in 1..Len(ent[f].chunks) :
         (ent[f].chunks[i].block + ent[f].chunks[i].count) * B <= off
Behind == \A f \in File : BehindOf(f)

IInv == StoreOK /\ EntOK /\ Behind

-----------------------------------------------------------------------------
(* closeDataFile pads to a whole number of blocks.                         *)
LEMMA PadToBlock ==
    ASSUME NEW n \in Nat
    PROVE  /\ PadTo(n) \in 0..(B - 1)
           /\ \E q \in Nat : n + PadTo(n) = q * B
           /\ PadTo(n) = 0 <=> n % B = 0
<1> USE ParamAssumption DEF B
<1> DEFINE r == n % B
           d == n \div B
<1>1. r \in 0..(B - 1) /\ d \in Nat /\ n = d * B + r
  BY Division
<1>2. PadTo(n) = (B - r) % B
  BY DEF PadTo
<1> HIDE DEF r, d
<1>3. CASE r = 0
  <2>1. B % B = 0
    OBVIOUS
  <2>2. PadTo(n) = 0
    BY <1>2, <1>3, <2>1
  <2>3. n + PadTo(n) = d * B
    BY <1>1, <1>3, <2>2
  <2> QED BY <1>1, <1>3, <2>2, <2>3 DEF r
<1>4. CASE r # 0
  <2>1. (B - r) % B = B - r
    BY <1>1, <1>4
  <2>2. n + PadTo(n) = (d + 1) * B /\ PadTo(n) = B - r
    <3>1. (d + 1) * B = d * B + B /\ d * B \in Nat
      BY <1>1
    <3> QED BY <1>1, <1>2, <2>1, <3>1
  <2>3. d + 1 \in Nat /\ B - r \in 0..(B - 1) /\ B - r # 0
    BY <1>1, <1>4
  <2> QED BY <1>4, <2>2, <2>3 DEF r
<1> QED BY <1>3, <1>4

(* Blocks in parts of MaxCount: all but the last are whole.                *)
LEMMA PartFact ==
    ASSUME NEW total \in Nat, NEW i \in 1..Units(total, MaxCount)
    PROVE  /\ (i - 1) * MaxCount \in Nat /\ i * MaxCount = (i - 1) * MaxCount + MaxCount
           /\ i < Units(total, MaxCount) => i * MaxCount <= total
           /\ i = Units(total, MaxCount) => total - (i - 1) * MaxCount \in 1..MaxCount
<1> USE ParamAssumption
<1> DEFINE parts == Units(total, MaxCount)
<1>1. parts \in Nat /\ total <= parts * MaxCount /\ parts * MaxCount < total + MaxCount
  BY RoundedUp
<1> HIDE DEF parts
<1>2. i \in 1..parts
  BY DEF parts
<1>3. (i - 1) * MaxCount \in Nat /\ i * MaxCount = (i - 1) * MaxCount + MaxCount
  BY <1>1, <1>2
<1>4. i < parts => i * MaxCount <= total
  <2>1. ASSUME i < parts
        PROVE  (i + 1) * MaxCount <= parts * MaxCount
    BY <1>1, <1>2, <2>1
  <2>2. (i + 1) * MaxCount = i * MaxCount + MaxCount
    BY <1>1, <1>2
  <2> QED BY <1>1, <1>3, <2>1, <2>2
<1>5. i = parts => total - (i - 1) * MaxCount \in 1..MaxCount
  BY <1>1, <1>3
<1> QED BY <1>3, <1>4, <1>5 DEF parts

(* closeDataFile splits the blocks of a file into chunks that 16 bits can  *)
(* count, and none of them ends behind the last block.                     *)
LEMMA ChunksForOK ==
    ASSUME NEW start \in Nat, NEW n \in Nat
    PROVE  /\ ChunksFor(start, n) \in Seq(Chunk)
           /\ \A i \in 1..Len(ChunksFor(start, n)) :
                ChunksFor(start, n)[i].block + ChunksFor(start, n)[i].count <= start \div B + Units(n, B)
           /\ n = 0 => ChunksFor(start, n) = <<>>
<1> USE ParamAssumption DEF B
<1> DEFINE first == start \div B
           total == Units(n, B)
           parts == Units(total, MaxCount)
           chunk(i) == [block |-> first + (i - 1) * MaxCount,
                        count |-> IF i < parts THEN MaxCount ELSE total - (i - 1) * MaxCount]
<1>1. first \in Nat
  BY Division
<1>2. total \in Nat /\ (n = 0 <=> total = 0)
  BY RoundedUp
<1>3. parts \in Nat /\ total <= parts * MaxCount /\ parts * MaxCount < total + MaxCount
      /\ (total = 0 <=> parts = 0)
  <2> HIDE DEF total
  <2> QED BY <1>2, RoundedUp
<1>4. ChunksFor(start, n) = [i \in 1..parts |-> chunk(i)]
  BY DEF ChunksFor, CeilDiv, Units
<1> HIDE DEF first, total, parts
<1>5. ASSUME NEW i \in 1..parts
      PROVE  chunk(i) \in Chunk /\ chunk(i).block + chunk(i).count <= first + total
  <2>1. /\ (i - 1) * MaxCount \in Nat /\ i * MaxCount = (i - 1) * MaxCount + MaxCount
        /\ i < parts => i * MaxCount <= total
        /\ i = parts => total - (i - 1) * MaxCount \in 1..MaxCount
    BY <1>2, PartFact DEF parts
  <2>3. CASE i < parts
    BY <1>1, <1>2, <2>1, <2>3 DEF Chunk
  <2>4. CASE i = parts
    BY <1>1, <1>2, <2>1, <2>4 DEF Chunk
  <2> QED BY <1>3, <2>3, <2>4
<1> HIDE DEF chunk
<1>6. ChunksFor(start, n) \in Seq(Chunk) /\ Len(ChunksFor(start, n)) = parts
  BY <1>3, <1>4, <1>5
<1>7. \A i \in 1..parts : ChunksFor(start, n)[i] = chunk(i)
  BY <1>4
<1>8. n = 0 => ChunksFor(start, n) = <<>>
  BY <1>2, <1>3, <1>6
<1> QED BY <1>5, <1>6, <1>7, <1>8 DEF first, total

-----------------------------------------------------------------------------
LEMMA CellSeqs ==
    ASSUME NEW f \in File, NEW n \in Nat
    PROVE  /\ \A from \in Int :
                CellsOf(f, from, n) \in Seq(Cell) /\ Len(CellsOf(f, from, n)) = n
           /\ Copied(f, n) \in Seq(Cell) /\ Len(Copied(f, n)) = n
           /\ Padding(n) \in Seq(Cell) /\ Len(Padding(n)) = n
  BY DEF CellsOf, Copied, Padding, Pad, Cell

(* The store only grows.                                                   *)
LEMMA StoreGrows ==
    ASSUME StoreOK, NEW x \in Seq(Cell), store' = store \o x
    PROVE  /\ store' \in Seq(Cell) /\ Len(store') = off + Len(x) /\ off \in Nat
           /\ \A i \in 1..off : store'[i] = store[i]
<1>1. store \in Seq(Cell) /\ off = Len(store) /\ Len(store) \in Nat
  BY DEF StoreOK
<1>2. (store \o x) \in Seq(Cell) /\ Len(store \o x) = Len(store) + Len(x)
  BY <1>1
<1>3. \A i \in 1..Len(store) : (store \o x)[i] = store[i]
  BY <1>1
<1> QED BY <1>1, <1>2, <1>3

(* The files a step does not touch stay behind the end.                    *)
LEMMA OthersBehind ==
    ASSUME IInv, NEW g \in File, ent'[g] = ent[g], handle'[g] = handle[g],
           off' \in Nat, off <= off', dataMode' = dataMode
    PROVE  BehindOf(g)'
<1>1. BehindOf(g) /\ off \in Nat /\ ent[g] \in Data /\ handle[g] \in Handle
  BY DEF IInv, Behind, StoreOK, EntOK
<1>2. \A i \in 1..Len(ent[g].chunks) :
        (ent[g].chunks[i].block + ent[g].chunks[i].count) * B \in Nat
  <2> SUFFICES ASSUME NEW i \in 1..Len(ent[g].chunks)
               PROVE  (ent[g].chunks[i].block + ent[g].chunks[i].count) * B \in Nat
    OBVIOUS
  <2>1. ent[g].chunks[i] \in Chunk
    BY <1>1 DEF Data
  <2> QED BY <2>1, ParamAssumption DEF Chunk, B
<1> QED BY <1>1, <1>2 DEF BehindOf, Data, Handle

LEMMA IInvInit == Init => IInv
<1> SUFFICES ASSUME Init
             PROVE  IInv
  OBVIOUS
<1> USE ParamAssumption
<1>1. StoreOK
  <2>1. [i \in 1..Prior |-> Old] \in Seq(Cell) /\ <<>> \in Seq(Cell)
    BY DEF Old, Cell
  <2> QED BY <2>1 DEF Init, StoreOK
<1>2. NoEntry \in Data /\ NoHandle \in Handle
  BY DEF NoEntry, NoHandle, Data, Handle
<1>3. EntOK
  BY <1>2 DEF Init, EntOK
<1>4. ASSUME NEW f \in File
      PROVE  BehindOf(f)
  <2>1. ent[f] = NoEntry /\ handle[f] = NoHandle /\ off \in Nat
    BY <1>1 DEF Init, StoreOK
  <2> QED BY <2>1 DEF BehindOf, NoEntry, NoHandle
<1> QED BY <1>1, <1>3, <1>4 DEF IInv, Behind

LEMMA CreateKeeps ==
    ASSUME IInv, NEW f \in File, Create(f) \/ CreateFails(f)
    PROVE  IInv'
<1>1. StoreOK' /\ off' = off /\ off \in Nat /\ dataMode' = dataMode
  <2>1. (spooled \/ ~dataMode) \in BOOLEAN
    OBVIOUS
  <2>2. off \in Nat /\ StoreOK
    BY DEF IInv, StoreOK
  <2>3. CASE Create(f)
    BY <2>1, <2>2, <2>3 DEF StoreOK, Create
  <2>4. CASE CreateFails(f)
    BY <2>2, <2>4 DEF StoreOK, CreateFails
  <2> QED BY <2>3, <2>4
<1>2. CASE Create(f)
  <2> DEFINE e == [NoEntry EXCEPT !.made = TRUE, !.start = off,
                                  !.spoolOff = IF dataMode THEN 0 ELSE off]
             h == [open |-> TRUE, start |-> off, written |-> 0]
  <2>1. ent' = [ent EXCEPT ![f] = e] /\ handle' = [handle EXCEPT ![f] = h]
    BY <1>2 DEF Create
  <2>2. e \in Data /\ h \in Handle
    <3>1. NoEntry \in Data /\ (IF dataMode THEN 0 ELSE off) \in Nat
      BY <1>1 DEF NoEntry, Data
    <3> QED BY <1>1, <3>1 DEF Data, Handle
  <2>3. EntOK' /\ ent'[f] = e /\ handle'[f] = h
        /\ \A g \in File \ {f} : ent'[g] = ent[g] /\ handle'[g] = handle[g]
    <3> HIDE DEF e, h
    <3> QED BY <2>1, <2>2 DEF IInv, EntOK
  <2>4. BehindOf(f)'
    BY <1>1, <2>3 DEF BehindOf, NoEntry
  <2>5. \A g \in File \ {f} : BehindOf(g)'
    BY <1>1, <2>3, OthersBehind
  <2> QED BY <1>1, <2>3, <2>4, <2>5 DEF IInv, Behind
<1>3. CASE CreateFails(f)
  <2>1. ent' = [ent EXCEPT ![f] = [ent[f] EXCEPT !.made = TRUE]] /\ handle' = handle
    BY <1>3 DEF CreateFails
  <2>2. ent[f] \in Data /\ [ent[f] EXCEPT !.made = TRUE] \in Data
    BY DEF IInv, EntOK, Data
  <2>3. EntOK' /\ ent'[f] = [ent[f] EXCEPT !.made = TRUE]
        /\ \A g \in File \ {f} : ent'[g] = ent[g]
    BY <2>1, <2>2 DEF IInv, EntOK
  <2>4. BehindOf(f)'
    BY <1>1, <2>1, <2>2, <2>3 DEF IInv, Behind, BehindOf, Data
  <2>5. \A g \in File \ {f} : BehindOf(g)'
    BY <1>1, <2>1, <2>3, OthersBehind
  <2> QED BY <1>1, <2>3, <2>4, <2>5 DEF IInv, Behind
<1> QED BY <1>2, <1>3

LEMMA WriteKeeps ==
    ASSUME IInv, NEW f \in File, NEW n \in 1..MaxLen, NEW m \in 0..n, Write(f, n, m)
    PROVE  IInv'
<1> DEFINE h == [handle[f] EXCEPT !.written = @ + m]
<1>0. handle[f] \in Handle /\ m \in Nat /\ n \in Nat
  BY ParamAssumption DEF IInv, EntOK
<1>1. StoreOK' /\ off' = off + m /\ off \in Nat /\ dataMode' = dataMode
  <2>1. store' = store \o CellsOf(f, handle[f].written, m) /\ off' = off + m
    BY DEF Write
  <2>2. handle[f].written \in Int
    BY <1>0 DEF Handle
  <2>3. store' \in Seq(Cell) /\ Len(store') = off + m /\ off \in Nat
    <3>1. /\ CellsOf(f, handle[f].written, m) \in Seq(Cell)
          /\ Len(CellsOf(f, handle[f].written, m)) = m
      BY <1>0, <2>2, CellSeqs
    <3> QED BY <2>1, <3>1, StoreGrows DEF IInv
  <2> QED BY <1>0, <2>1, <2>3 DEF Write, IInv, StoreOK
<1>2. handle' = [handle EXCEPT ![f] = h] /\ ent' = ent
  BY DEF Write
<1>3. h \in Handle /\ h.start = handle[f].start /\ h.written = handle[f].written + m
  BY <1>0 DEF Handle
<1> HIDE DEF h
<1>4. EntOK' /\ handle'[f] = h /\ \A g \in File \ {f} : handle'[g] = handle[g]
  BY <1>2, <1>3 DEF IInv, EntOK
<1>5. BehindOf(f)'
  <2>1. BehindOf(f) /\ ent[f] \in Data
    BY DEF IInv, Behind, EntOK
  <2>2. \A i \in 1..Len(ent[f].chunks) :
          (ent[f].chunks[i].block + ent[f].chunks[i].count) * B <= off'
    <3> SUFFICES ASSUME NEW i \in 1..Len(ent[f].chunks)
                 PROVE  (ent[f].chunks[i].block + ent[f].chunks[i].count) * B <= off'
      OBVIOUS
    <3>1. ent[f].chunks[i] \in Chunk
      BY <2>1 DEF Data
    <3>2. (ent[f].chunks[i].block + ent[f].chunks[i].count) * B \in Int
      BY <3>1, ParamAssumption DEF Chunk, B
    <3>3. (ent[f].chunks[i].block + ent[f].chunks[i].count) * B <= off
      BY <2>1 DEF BehindOf
    <3> HIDE DEF B
    <3> QED BY <1>0, <1>1, <3>2, <3>3
  <2>3. handle'[f].start + handle'[f].written <= off' /\ ent[f].spoolOff <= handle'[f].start
    BY <1>0, <1>1, <1>3, <1>4, <2>1 DEF BehindOf, Handle
  <2>4. ~dataMode /\ ent[f].direct = <<>> => ent[f].spoolOff + ent[f].size <= off'
    BY <1>0, <1>1, <2>1 DEF BehindOf, Data
  <2> QED BY <1>1, <1>2, <2>2, <2>3, <2>4 DEF BehindOf
<1>6. \A g \in File \ {f} : BehindOf(g)'
  BY <1>0, <1>1, <1>2, <1>4, OthersBehind
<1> QED BY <1>1, <1>4, <1>5, <1>6 DEF IInv, Behind

(* A range that ends in front of the end of a block has its chunks there.  *)
LEMMA ChunksBehind ==
    ASSUME NEW start \in Nat, NEW n \in Nat, NEW k \in Nat, start + n <= k * B,
           NEW i \in 1..Len(ChunksFor(start, n))
    PROVE  (ChunksFor(start, n)[i].block + ChunksFor(start, n)[i].count) * B <= k * B
<1> DEFINE first == start \div B
           total == Units(n, B)
           c == ChunksFor(start, n)[i]
<1>0. B \in Nat \ {0}
  BY ParamAssumption DEF B
<1>1. first \in Nat /\ first * B <= start
  BY <1>0, Division
<1>2. c \in Chunk /\ c.block + c.count <= first + total
  <2>1. /\ ChunksFor(start, n) \in Seq(Chunk)
        /\ \A j \in 1..Len(ChunksFor(start, n)) :
             ChunksFor(start, n)[j].block + ChunksFor(start, n)[j].count <= first + total
    BY ChunksForOK
  <2> HIDE DEF first, total
  <2> QED BY <2>1
<1>3. total \in Nat
  BY <1>0, RoundedUp
<1>4. first <= k
  <2> HIDE DEF first
  <2>1. first * B < (k + 1) * B
    BY <1>0, <1>1
  <2> QED BY <1>0, <1>1, <2>1, ProductOrder
<1>5. total <= k - first
  <2>1. (k - first) * B = k * B - first * B /\ k - first \in Nat
    BY <1>0, <1>1, <1>4
  <2>2. n <= (k - first) * B
    <3> HIDE DEF first
    <3> QED BY <1>0, <1>1, <2>1
  <2> HIDE DEF first
  <2> QED BY <1>0, <2>1, <2>2, RoundUpLeast
<1> HIDE DEF first, total, c
<1>6. c.block + c.count \in Nat /\ c.block + c.count <= k
  BY <1>1, <1>2, <1>3, <1>5, ParamAssumption DEF Chunk
<1>7. (c.block + c.count) * B <= k * B
  BY <1>0, <1>6, ProductMonotone
<1> QED BY <1>7 DEF c

LEMMA CloseFileKeeps ==
    ASSUME IInv, NEW f \in File, NEW q \in 0..(BlockSize - 1), CloseFile(f, q)
    PROVE  IInv'
<1> DEFINE h == handle[f]
           pad == IF dataMode /\ h.written > 0 THEN PadTo(off) ELSE 0
           cs == IF dataMode /\ q = pad
                 THEN ent[f].chunks \o ChunksFor(h.start, h.written) ELSE ent[f].chunks
           e == [ent[f] EXCEPT !.fileClosed = TRUE, !.size = h.written, !.chunks = cs]
<1>0. /\ h \in Handle /\ h.start \in Nat /\ h.written \in Nat /\ ent[f] \in Data /\ BehindOf(f)
      /\ off \in Nat /\ q \in Nat /\ B \in Nat \ {0}
  BY ParamAssumption DEF IInv, EntOK, Handle, StoreOK, Behind, B
<1>1. StoreOK' /\ off' = off + q /\ dataMode' = dataMode
  <2>1. store' = store \o Padding(q) /\ off' = off + q
    BY DEF CloseFile
  <2>2. store' \in Seq(Cell) /\ Len(store') = off + q
    BY <1>0, <2>1, CellSeqs, StoreGrows DEF IInv
  <2>3. failed' \in BOOLEAN
    BY DEF CloseFile
  <2> QED BY <2>1, <2>2, <2>3 DEF CloseFile, IInv, StoreOK
<1>2. ent' = [ent EXCEPT ![f] = e] /\ handle' = [handle EXCEPT ![f] = [h EXCEPT !.open = FALSE]]
  BY DEF CloseFile
<1>3. /\ ChunksFor(h.start, h.written) \in Seq(Chunk) /\ ent[f].chunks \in Seq(Chunk)
  BY <1>0, ChunksForOK DEF Data
<1>4. cs \in Seq(Chunk)
  BY <1>3
<1>5. \A i \in 1..Len(cs) : (cs[i].block + cs[i].count) * B <= off'
  <2>1. \A i \in 1..Len(ent[f].chunks) :
          (ent[f].chunks[i].block + ent[f].chunks[i].count) * B <= off'
    <3> SUFFICES ASSUME NEW i \in 1..Len(ent[f].chunks)
                 PROVE  (ent[f].chunks[i].block + ent[f].chunks[i].count) * B <= off'
      OBVIOUS
    <3>1. (ent[f].chunks[i].block + ent[f].chunks[i].count) * B <= off
      BY <1>0 DEF BehindOf
    <3>2. ent[f].chunks[i] \in Chunk
      BY <1>3
    <3>3. (ent[f].chunks[i].block + ent[f].chunks[i].count) * B \in Int
      BY <1>0, <3>2, ParamAssumption DEF Chunk
    <3> QED BY <1>0, <1>1, <3>1, <3>3
  <2>2. CASE dataMode /\ q = pad
    <3> DEFINE new == ChunksFor(h.start, h.written)
    <3>1. \A i \in 1..Len(new) : (new[i].block + new[i].count) * B <= off'
      <4>1. CASE h.written = 0
        <5>1. new = <<>>
          BY <1>0, <4>1, ChunksForOK
        <5> QED BY <5>1
      <4>2. CASE h.written > 0
        <5>1. PICK k \in Nat : off + PadTo(off) = k * B
          BY <1>0, PadToBlock
        <5>2. off' = k * B
          BY <1>1, <2>2, <4>2, <5>1
        <5>3. h.start + h.written <= k * B
          BY <1>0, <1>1, <5>2 DEF BehindOf
        <5> QED BY <1>0, <5>2, <5>3, ChunksBehind
      <4> QED BY <1>0, <4>1, <4>2
    <3>2. cs = ent[f].chunks \o new
      BY <2>2
    <3> HIDE DEF cs, new
    <3>3. \A i \in 1..Len(cs) : cs[i] = IF i <= Len(ent[f].chunks) THEN ent[f].chunks[i]
                                        ELSE new[i - Len(ent[f].chunks)]
      BY <1>3, <3>2 DEF new
    <3>4. /\ Len(cs) = Len(ent[f].chunks) + Len(new)
          /\ Len(new) \in Nat /\ Len(ent[f].chunks) \in Nat
      BY <1>3, <3>2 DEF new
    <3> SUFFICES ASSUME NEW i \in 1..Len(cs)
                 PROVE  (cs[i].block + cs[i].count) * B <= off'
      OBVIOUS
    <3>5. CASE i <= Len(ent[f].chunks)
      BY <2>1, <3>3, <3>4, <3>5
    <3>6. CASE i > Len(ent[f].chunks)
      <4>1. i - Len(ent[f].chunks) \in 1..Len(new) /\ cs[i] = new[i - Len(ent[f].chunks)]
        BY <3>3, <3>4, <3>6
      <4> QED BY <3>1, <4>1
    <3> QED BY <3>4, <3>5, <3>6
  <2>3. CASE ~(dataMode /\ q = pad)
    BY <2>1, <2>3
  <2> QED BY <2>2, <2>3
<1> HIDE DEF cs
<1>6. /\ e \in Data /\ e.chunks = cs /\ e.size = h.written
      /\ e.spoolOff = ent[f].spoolOff /\ e.direct = ent[f].direct
  BY <1>0, <1>4 DEF Data
<1>7. /\ [h EXCEPT !.open = FALSE] \in Handle
      /\ [h EXCEPT !.open = FALSE].start = h.start /\ [h EXCEPT !.open = FALSE].written = h.written
  BY <1>0 DEF Handle
<1> HIDE DEF e, h
<1>8. EntOK' /\ ent'[f] = e /\ handle'[f] = [h EXCEPT !.open = FALSE]
      /\ \A g \in File \ {f} : ent'[g] = ent[g] /\ handle'[g] = handle[g]
  BY <1>2, <1>6, <1>7 DEF IInv, EntOK
<1>9. BehindOf(f)'
  <2>1. h.start + h.written <= off' /\ ent[f].spoolOff <= h.start
    BY <1>0, <1>1 DEF BehindOf, h
  <2>2. ent[f].spoolOff + h.written <= off'
    BY <1>0, <2>1, <1>1 DEF Data
  <2> QED BY <1>5, <1>6, <1>7, <1>8, <2>1, <2>2 DEF BehindOf
<1>10. \A g \in File \ {f} : BehindOf(g)'
  BY <1>0, <1>1, <1>8, OthersBehind
<1> QED BY <1>1, <1>8, <1>9, <1>10 DEF IInv, Behind

(* An entry a copy replaces: it refers to its own source, or to chunks     *)
(* that end in front of the end of the store.                              *)
LEMMA ReplacedBehind ==
    ASSUME IInv, NEW f \in File, NEW e \in Data,
           StoreOK', dataMode' = dataMode, off' \in Nat, off <= off',
           handle' = handle, ent' = [ent EXCEPT ![f] = e],
           e.spoolOff = 0, ~dataMode => e.direct # <<>>,
           \A i \in 1..Len(e.chunks) : (e.chunks[i].block + e.chunks[i].count) * B <= off'
    PROVE  IInv'
<1>1. EntOK' /\ ent'[f] = e /\ \A g \in File \ {f} : ent'[g] = ent[g]
  BY DEF IInv, EntOK
<1>2. BehindOf(f)'
  <2>1. handle[f] \in Handle /\ BehindOf(f) /\ off \in Nat
    BY DEF IInv, EntOK, Behind, StoreOK
  <2>2. handle[f].start + handle[f].written <= off'
    BY <2>1 DEF BehindOf, Handle
  <2>3. 0 <= handle[f].start
    BY <2>1 DEF Handle
  <2> QED BY <1>1, <2>2, <2>3 DEF BehindOf
<1>3. \A g \in File \ {f} : BehindOf(g)'
  BY <1>1, OthersBehind
<1> QED BY <1>1, <1>2, <1>3 DEF IInv, Behind

LEMMA CopyKeeps ==
    ASSUME IInv, NEW f \in File, NEW n \in 1..MaxLen, CopyData(f, n)
    PROVE  IInv'
<1>0. n \in Nat \ {0} /\ off \in Nat /\ B \in Nat \ {0}
  BY ParamAssumption DEF IInv, StoreOK, B
<1>1. /\ Copied(f, n) \in Seq(Cell) /\ Len(Copied(f, n)) = n
      /\ NoEntry \in Data /\ handle' = handle /\ dataMode' = dataMode
  BY <1>0, CellSeqs DEF NoEntry, Data, CopyData
<1>2. CASE dataMode
  <2> DEFINE e == [NoEntry EXCEPT !.made = TRUE, !.fileClosed = TRUE, !.start = off,
                                  !.size = n, !.chunks = ChunksFor(off, n)]
             pad == PadTo(off + n)
  <2>1. /\ store' = store \o Copied(f, n) \o Padding(pad) /\ off' = off + n + pad
        /\ ent' = [ent EXCEPT ![f] = e]
    BY <1>2 DEF CopyData
  <2>2. off + n \in Nat
    BY <1>0
  <2>3. pad \in Nat /\ \E k \in Nat : off + n + pad = k * B
    <3>1. PadTo(off + n) \in 0..(B - 1) /\ \E k \in Nat : (off + n) + PadTo(off + n) = k * B
      BY <2>2, PadToBlock
    <3> QED BY <1>0, <3>1
  <2> HIDE DEF pad
  <2>4. StoreOK' /\ off' \in Nat /\ off <= off'
    <3>1. /\ store \in Seq(Cell) /\ Len(store) = off /\ Padding(pad) \in Seq(Cell)
          /\ Len(Padding(pad)) = pad
      BY <2>3, CellSeqs DEF IInv, StoreOK
    <3>2. store \o Copied(f, n) \in Seq(Cell) /\ Len(store \o Copied(f, n)) = off + n
      BY <1>1, <3>1
    <3> DEFINE x == store \o Copied(f, n)
    <3>3. store' = x \o Padding(pad)
      BY <2>1
    <3> HIDE DEF x
    <3>4. store' \in Seq(Cell) /\ Len(store') = off + n + pad
      <4>1. x \in Seq(Cell) /\ Len(x) = off + n
        BY <3>2 DEF x
      <4>2. x \o Padding(pad) \in Seq(Cell) /\ Len(x \o Padding(pad)) = Len(x) + Len(Padding(pad))
        BY <3>1, <4>1
      <4> QED BY <1>0, <2>3, <3>1, <3>3, <4>1, <4>2
    <3> QED BY <1>0, <2>1, <2>3, <3>4 DEF CopyData, IInv, StoreOK
  <2>5. ChunksFor(off, n) \in Seq(Chunk)
    BY <1>0, ChunksForOK
  <2>6. \A i \in 1..Len(ChunksFor(off, n)) :
          (ChunksFor(off, n)[i].block + ChunksFor(off, n)[i].count) * B <= off'
    <3>1. PICK k \in Nat : off + n + pad = k * B
      BY <2>3
    <3>2. off + n <= k * B
      BY <1>0, <2>3, <3>1
    <3> QED BY <1>0, <2>1, <3>1, <3>2, ChunksBehind
  <2>7. e \in Data /\ e.spoolOff = 0 /\ e.chunks = ChunksFor(off, n)
    <3>1. e \in Data /\ e.spoolOff = NoEntry.spoolOff /\ e.chunks = ChunksFor(off, n)
      BY <1>0, <1>1, <2>5 DEF Data
    <3> QED BY <3>1 DEF NoEntry
  <2> HIDE DEF e
  <2> QED BY <1>1, <1>2, <2>1, <2>4, <2>6, <2>7, ReplacedBehind
<1>3. CASE ~dataMode
  <2> DEFINE e == [NoEntry EXCEPT !.made = TRUE, !.fileClosed = TRUE, !.size = n,
                                  !.direct = Copied(f, n)]
  <2>1. ent' = [ent EXCEPT ![f] = e] /\ store' = store /\ off' = off
    BY <1>3 DEF CopyData
  <2>2. StoreOK'
    BY <2>1 DEF CopyData, IInv, StoreOK
  <2>3. e \in Data /\ e.spoolOff = 0 /\ e.chunks = <<>> /\ e.direct = Copied(f, n)
    BY <1>0, <1>1 DEF NoEntry, Data
  <2>4. e.direct # <<>>
    BY <1>0, <1>1, <2>3
  <2>5. off' \in Nat /\ off <= off'
    BY <1>0, <2>1
  <2>6. \A i \in 1..Len(e.chunks) : (e.chunks[i].block + e.chunks[i].count) * B <= off'
    <3> HIDE DEF e
    <3> QED BY <2>3
  <2> HIDE DEF e
  <2> QED BY <1>1, <2>1, <2>2, <2>3, <2>4, <2>5, <2>6, ReplacedBehind
<1> QED BY <1>2, <1>3

LEMMA CopyFailsKeeps ==
    ASSUME IInv, NEW f \in File, NEW n \in 1..MaxLen, NEW m \in 0..(MaxLen + BlockSize),
           CopyFails(f, n, m)
    PROVE  IInv'
<1> DEFINE e == [NoEntry EXCEPT !.made = TRUE, !.fileClosed = (m >= n), !.start = off, !.size = n]
           x == Copied(f, n) \o Padding(BlockSize)
<1>0. n \in Nat \ {0} /\ off \in Nat /\ B \in Nat \ {0} /\ m \in Nat
  BY ParamAssumption DEF IInv, StoreOK, B
<1>1. /\ store' = store \o SubSeq(x, 1, m) /\ off' = off + m
      /\ ent' = [ent EXCEPT ![f] = e] /\ handle' = handle /\ dataMode /\ dataMode' = dataMode
      /\ m < n + PadTo(off + n) /\ failed' = TRUE
  BY DEF CopyFails
<1>2. /\ Copied(f, n) \in Seq(Cell) /\ Len(Copied(f, n)) = n
      /\ Padding(BlockSize) \in Seq(Cell) /\ Len(Padding(BlockSize)) = BlockSize
  BY <1>0, CellSeqs DEF B
<1>3. x \in Seq(Cell) /\ Len(x) = n + BlockSize
  BY <1>2
<1>4. m <= n + BlockSize
  <2>1. off + n \in Nat
    BY <1>0
  <2>2. PadTo(off + n) \in 0..(B - 1)
    BY <2>1, PadToBlock
  <2> QED BY <1>0, <1>1, <2>2 DEF B
<1> HIDE DEF x
<1>5. SubSeq(x, 1, m) \in Seq(Cell) /\ Len(SubSeq(x, 1, m)) = m
  BY <1>0, <1>3, <1>4
<1>6. StoreOK' /\ off' \in Nat /\ off <= off'
  <2>1. store' \in Seq(Cell) /\ Len(store') = off + m
    BY <1>1, <1>5, StoreGrows DEF IInv
  <2>2. off + m \in Nat /\ off <= off + m
    BY <1>0
  <2> QED BY <1>1, <2>1, <2>2 DEF CopyFails, IInv, StoreOK
<1>7. e \in Data /\ e.spoolOff = 0 /\ e.chunks = <<>>
  <2>1. (m >= n) \in BOOLEAN /\ NoEntry \in Data
    BY DEF NoEntry, Data
  <2>2. e \in Data /\ e.spoolOff = NoEntry.spoolOff /\ e.chunks = NoEntry.chunks
    BY <1>0, <2>1 DEF Data
  <2> QED BY <2>2 DEF NoEntry
<1>8. \A i \in 1..Len(e.chunks) : (e.chunks[i].block + e.chunks[i].count) * B <= off'
  <2> HIDE DEF e
  <2> QED BY <1>7
<1> HIDE DEF e
<1> QED BY <1>1, <1>6, <1>7, <1>8, ReplacedBehind

LEMMA IInvStep == IInv /\ [Next]_vars => IInv'
<1> SUFFICES ASSUME IInv, [Next]_vars
             PROVE  IInv'
  OBVIOUS
<1>1. CASE Close \/ UNCHANGED vars
  BY <1>1 DEF Close, vars, IInv, StoreOK, EntOK, Behind, BehindOf
<1> QED BY <1>1, CreateKeeps, WriteKeeps, CloseFileKeeps, CopyKeeps, CopyFailsKeeps DEF Next

-----------------------------------------------------------------------------
(* dataOff and spoolOff are where the store ends, after failed and short   *)
(* writes too, and chunks hold at least one block and at most 65535.       *)
THEOREM Typed == Spec => []TypeOK
<1>1. IInv => TypeOK
  BY DEF IInv, StoreOK, EntOK, Data, Handle, TypeOK
<1> QED BY <1>1, IInvInit, IInvStep, PTL DEF Spec

(* closeDataFile and add: the blocks Close announces for the data device   *)
(* cover every chunk, for any block size and files open at the same time.  *)
THEOREM DeviceCoversChunks == Spec => []ChunksInDevice
<1>1. IInv => ChunksInDevice
  <2> SUFFICES ASSUME IInv, NEW f \in File, NEW i \in 1..Len(ent[f].chunks)
               PROVE  ent[f].chunks[i].block + ent[f].chunks[i].count <= CeilDiv(off)
    BY DEF ChunksInDevice
  <2> DEFINE q == ent[f].chunks[i].block + ent[f].chunks[i].count
  <2>1. off \in Nat /\ ent[f].chunks[i] \in Chunk /\ B \in Nat \ {0} /\ q * B <= off
    BY ParamAssumption DEF IInv, StoreOK, EntOK, Data, Behind, BehindOf, B
  <2>2. q \in Nat
    BY <2>1, ParamAssumption DEF Chunk
  <2>3. Units(off, B) \in Nat /\ off <= Units(off, B) * B
    BY <2>1, RoundedUp
  <2> HIDE DEF q
  <2>4. q * B < (Units(off, B) + 1) * B
    BY <2>1, <2>2, <2>3
  <2>5. q < Units(off, B) + 1
    BY <2>1, <2>2, <2>3, <2>4, ProductOrder
  <2> QED BY <2>2, <2>3, <2>5 DEF q, CeilDiv, Units, B
<1> QED BY <1>1, IInvInit, IInvStep, PTL DEF Spec

-----------------------------------------------------------------------------
(* No step takes away or changes what the store has.                       *)
LEMMA StoreExtends ==
    ASSUME IInv, [Next]_vars
    PROVE  /\ dataMode' = dataMode
           /\ off \in Nat /\ off' \in Nat /\ off <= off' /\ off = Len(store) /\ off' = Len(store')
           /\ \A i \in 1..off : store'[i] = store[i]
<1> DEFINE Extended == dataMode' = dataMode /\ off <= off' /\ \A i \in 1..off : store'[i] = store[i]
<1>0. StoreOK /\ StoreOK' /\ off \in Nat /\ off' \in Nat /\ off = Len(store) /\ off' = Len(store')
  BY IInvStep DEF IInv, StoreOK
<1>1. ASSUME NEW x \in Seq(Cell), store' = store \o x
      PROVE  off <= off' /\ \A i \in 1..off : store'[i] = store[i]
  BY <1>0, <1>1, StoreGrows
<1>2. ASSUME store' = store
      PROVE  off <= off' /\ \A i \in 1..off : store'[i] = store[i]
  BY <1>0, <1>2
<1>3. ASSUME NEW f \in File, NEW n \in 1..MaxLen, NEW m \in 0..n, Write(f, n, m)
      PROVE  Extended
  <2>1. handle[f].written \in Int /\ m \in Nat
    BY DEF IInv, EntOK, Handle
  <2>2. CellsOf(f, handle[f].written, m) \in Seq(Cell)
    BY <2>1, CellSeqs
  <2> QED BY <1>1, <1>3, <2>2 DEF Write
<1>4. ASSUME NEW f \in File, NEW q \in 0..(BlockSize - 1), CloseFile(f, q)
      PROVE  Extended
  <2>1. q \in Nat
    BY ParamAssumption
  <2>2. Padding(q) \in Seq(Cell)
    BY <2>1, CellSeqs
  <2> QED BY <1>1, <1>4, <2>2 DEF CloseFile
<1>5. ASSUME NEW f \in File, NEW n \in 1..MaxLen, CopyData(f, n)
      PROVE  Extended
  <2>1. CASE dataMode
    <3>1. store' = store \o Copied(f, n) \o Padding(PadTo(off + n))
      BY <1>5, <2>1 DEF CopyData
    <3>2. Copied(f, n) \in Seq(Cell) /\ n \in Nat
      BY ParamAssumption, CellSeqs
    <3>3. PadTo(off + n) \in Nat
      <4>1. off + n \in Nat
        BY <1>0, <3>2
      <4>2. PadTo(off + n) \in 0..(B - 1)
        BY <4>1, PadToBlock
      <4> QED BY <4>2, ParamAssumption DEF B
    <3>4. Padding(PadTo(off + n)) \in Seq(Cell)
      BY <3>3, CellSeqs
    <3> DEFINE x == Copied(f, n) \o Padding(PadTo(off + n))
    <3>5. x \in Seq(Cell) /\ store' = store \o x
      BY <1>0, <3>1, <3>2, <3>4 DEF StoreOK
    <3> HIDE DEF x
    <3> QED BY <1>1, <1>5, <3>5 DEF CopyData
  <2>2. CASE ~dataMode
    BY <1>2, <1>5, <2>2 DEF CopyData
  <2> QED BY <2>1, <2>2
<1>6. ASSUME NEW f \in File, NEW n \in 1..MaxLen, NEW m \in 0..(MaxLen + BlockSize), CopyFails(f, n, m)
      PROVE  Extended
  <2> DEFINE x == Copied(f, n) \o Padding(BlockSize)
  <2>1. n \in Nat /\ m \in Nat /\ BlockSize \in Nat
    BY ParamAssumption
  <2>2. /\ Copied(f, n) \in Seq(Cell) /\ Len(Copied(f, n)) = n
        /\ Padding(BlockSize) \in Seq(Cell) /\ Len(Padding(BlockSize)) = BlockSize
    BY <2>1, CellSeqs
  <2>3. x \in Seq(Cell) /\ Len(x) = n + BlockSize
    BY <2>2
  <2>4. m <= n + BlockSize
    <3>1. off + n \in Nat
      BY <1>0, <2>1
    <3>2. PadTo(off + n) \in 0..(B - 1) /\ m < n + PadTo(off + n)
      BY <1>6, <3>1, PadToBlock DEF CopyFails
    <3> QED BY <2>1, <3>2 DEF B
  <2>5. store' = store \o SubSeq(x, 1, m) /\ dataMode' = dataMode
    BY <1>6 DEF CopyFails
  <2> HIDE DEF x
  <2>6. SubSeq(x, 1, m) \in Seq(Cell)
    BY <2>1, <2>3, <2>4
  <2> QED BY <1>1, <2>5, <2>6
<1>7. ASSUME (\E f \in File : Create(f) \/ CreateFails(f)) \/ Close \/ UNCHANGED vars
      PROVE  Extended
  <2>1. dataMode' = dataMode /\ store' = store
    BY <1>7 DEF Create, CreateFails, Close, vars
  <2> QED BY <1>0, <2>1
<1>8. Extended
  <2> HIDE DEF Extended
  <2> QED BY <1>3, <1>4, <1>5, <1>6, <1>7 DEF Next
<1> QED BY <1>0, <1>8

LEMMA CellsKept ==
    ASSUME IInv, [Next]_vars, NEW from \in Nat, NEW n \in Nat, from + n <= off
    PROVE  Cells(from, n)' = Cells(from, n)
<1> SUFFICES ASSUME NEW i \in 1..n
             PROVE  (IF from + i <= Len(store') THEN store'[from + i] ELSE Lost)
                      = IF from + i <= Len(store) THEN store[from + i] ELSE Lost
  BY DEF Cells
<1>1. from + i \in 1..off
  BY StoreExtends
<1> QED BY <1>1, StoreExtends

(* Content is only of cells in front of the end of the store.              *)
LEMMA ContentKept ==
    ASSUME IInv, [Next]_vars, NEW f \in File, ent'[f] = ent[f]
    PROVE  Content(f)' = Content(f)
<1> DEFINE e == ent[f]
           bs == [i \in 1..Len(e.chunks) |-> Blocks(e.chunks[i])]
           late == [i \in 1..Len(e.chunks) |-> Blocks(e.chunks[i])']
<1>0. e \in Data /\ BehindOf(f) /\ off \in Nat /\ B \in Nat \ {0}
  BY ParamAssumption DEF IInv, EntOK, Behind, StoreOK, B
<1>1. bs = late
  <2> SUFFICES ASSUME NEW i \in 1..Len(e.chunks)
               PROVE  Blocks(e.chunks[i])' = Blocks(e.chunks[i])
    OBVIOUS
  <2> DEFINE c == e.chunks[i]
  <2>1. c \in Chunk /\ (c.block + c.count) * B <= off /\ c'= c
    BY <1>0 DEF Data, BehindOf
  <2>2. c.block \in Nat /\ c.count \in Nat
    BY <2>1, ParamAssumption DEF Chunk
  <2> HIDE DEF c
  <2>3. /\ c.block * B \in Nat /\ c.count * B \in Nat
        /\ c.block * B + c.count * B = (c.block + c.count) * B
    BY <1>0, <2>2
  <2>4. c.block * B + c.count * B <= off
    BY <2>1, <2>3
  <2>5. Cells(c.block * B, c.count * B)' = Cells(c.block * B, c.count * B)
    BY <2>1, <2>3, <2>4, CellsKept
  <2> QED BY <2>1, <2>5 DEF Blocks, B, c
<1>2. ~dataMode /\ e.direct = <<>> => Cells(e.spoolOff, e.size)' = Cells(e.spoolOff, e.size)
  <2>1. e.spoolOff \in Nat /\ e.size \in Nat /\ e' = e
    BY <1>0 DEF Data
  <2> HIDE DEF e
  <2>2. ASSUME ~dataMode, e.direct = <<>>
        PROVE  Cells(e.spoolOff, e.size)' = Cells(e.spoolOff, e.size)
    <3>1. e.spoolOff + e.size <= off
      BY <1>0, <2>2 DEF BehindOf, e
    <3> QED BY <2>1, <3>1, CellsKept
  <2> QED BY <2>2
<1>3. dataMode' = dataMode /\ e' = e
  BY StoreExtends
<1> HIDE DEF e
<1>4. CASE dataMode
  <2>1. Content(f) = Take(FlattenSeq(bs), e.size)
    BY <1>4 DEF Content, e
  <2>2. Content(f)' = Take(FlattenSeq(late), e.size)
    BY <1>3, <1>4 DEF Content, e, Take
  <2> QED BY <1>1, <2>1, <2>2
<1>5. CASE ~dataMode /\ e.direct # <<>>
  BY <1>3, <1>5 DEF Content, Take, e
<1>6. CASE ~dataMode /\ e.direct = <<>>
  <2>1. Content(f) = Cells(e.spoolOff, e.size)
    BY <1>6 DEF Content, e
  <2>2. Content(f)' = Cells(e.spoolOff, e.size)'
    BY <1>3, <1>6 DEF Content, e
  <2> QED BY <1>2, <1>6, <2>1, <2>2
<1> QED BY <1>4, <1>5, <1>6

(* No File.Write, copy or error changes what the image gives for a file    *)
(* that is closed and not replaced, whoever else writes to the store.      *)
THEOREM FinishedFilesStay == Spec => EarlierFilesKept
<1>1. IInv /\ [Next]_vars =>
        [\A f \in File : ent[f].fileClosed /\ ent'[f] = ent[f] => Content(f)' = Content(f)]_vars
  BY ContentKept
<1> QED BY <1>1, IInvInit, IInvStep, PTL DEF Spec, EarlierFilesKept

-----------------------------------------------------------------------------
(* While no call has failed, an open File is the only one, its bytes are   *)
(* the end of the store, and in a data file it begins on a block.          *)
WritingOf(f) ==
    /\ ~ent[f].made => want[f] = <<>> /\ ~handle[f].open /\ ~ent[f].fileClosed
    /\ handle[f].open =>
         /\ ent[f].made /\ ~ent[f].fileClosed /\ ent[f].chunks = <<>> /\ ent[f].direct = <<>>
         /\ ~dataMode => ent[f].spoolOff = handle[f].start
         /\ handle[f].start + handle[f].written = off
         /\ want[f] = Cells(handle[f].start, handle[f].written)
         /\ dataMode => handle[f].start % B = 0
    /\ ent[f].fileClosed => Content(f) = want[f]
Writing ==
    /\ \A f \in File : WritingOf(f)
    /\ \A f, g \in File : handle[f].open /\ handle[g].open => f = g
    /\ dataMode /\ (\A f \in File : ~handle[f].open) => off % B = 0
WInv == IInv /\ want \in [File -> Seq(Cell)] /\ (~failed => Writing)

(* FlattenSeq of the pieces of a sequence is its beginning.                *)
First(g, n) == [j \in 1..n |-> g[j]]
Piece(g, from, to) == [j \in 1..(to - from) |-> g[from + j]]

LEMMA FlattenPieces ==
    ASSUME NEW S, NEW g \in Seq(S), NEW k \in Nat \ {0},
           NEW p, p[0] = 0, \A i \in 0..k : p[i] \in 0..Len(g), \A i \in 1..k : p[i - 1] <= p[i],
           NEW seqs, Len(seqs) = k,
           \A i \in 1..k : seqs[i] = Piece(g, p[i - 1], p[i])
    PROVE  FlattenSeq(seqs) = First(g, p[k])
<1> DEFINE Step(h) == [i \in 1..k |-> IF i = 1 THEN seqs[i] ELSE h[i - 1] \o seqs[i]]
           Part(i) == First(g, p[i])
           F == [i \in 1..k |-> Part(i)]
           f == CHOOSE h : h = Step(h)
<1>1. FlattenSeq(seqs) = f[k]
  BY DEF FlattenSeq
<1>2. \A i \in 1..k : p[i - 1] \in Nat /\ p[i] \in Nat /\ p[i - 1] <= p[i] /\ p[i] <= Len(g)
  OBVIOUS
<1>3. ASSUME NEW i \in 1..k
      PROVE  Part(i - 1) \o seqs[i] = Part(i)
  <2> DEFINE a == p[i - 1]
             b == p[i]
  <2>1. a \in Nat /\ b \in Nat /\ a <= b /\ b <= Len(g) /\ g \in Seq(S)
    BY <1>2
  <2>2. seqs[i] = [j \in 1..(b - a) |-> g[a + j]]
    BY DEF Piece
  <2> HIDE DEF a, b
  <2>3. [j \in 1..a |-> g[j]] \in Seq(S) /\ [j \in 1..(b - a) |-> g[a + j]] \in Seq(S)
    BY <2>1
  <2>4. [j \in 1..a |-> g[j]] \o [j \in 1..(b - a) |-> g[a + j]] = [j \in 1..b |-> g[j]]
    BY <2>1, <2>3
  <2> QED BY <2>2, <2>4 DEF a, b, First
<1>4. seqs[1] = Part(1)
  <2>1. 1 \in 1..k /\ 1 - 1 = 0 /\ p[1] \in Nat
    BY <1>2
  <2>2. seqs[1] = [j \in 1..(p[1] - p[1 - 1]) |-> g[p[1 - 1] + j]]
    BY <2>1 DEF Piece
  <2>3. seqs[1] = [j \in 1..p[1] |-> g[0 + j]]
    BY <2>1, <2>2
  <2>4. [j \in 1..p[1] |-> g[0 + j]] = [j \in 1..p[1] |-> g[j]]
    OBVIOUS
  <2> QED BY <2>3, <2>4 DEF First
<1> HIDE DEF Part
<1>5. F = Step(F)
  <2>1. \A i \in 1..k : i # 1 => i - 1 \in 1..k
    OBVIOUS
  <2>2. \A i \in 1..k : F[i] = Part(i)
    OBVIOUS
  <2>3. \A i \in 1..k : F[i] = IF i = 1 THEN seqs[i] ELSE F[i - 1] \o seqs[i]
    BY <1>3, <1>4, <2>1, <2>2
  <2> QED BY <2>3
<1>6. f = Step(f)
  <2> HIDE DEF Step, F
  <2> QED BY <1>5
<1>7. ASSUME NEW i \in 1..k
      PROVE  f[i] = IF i = 1 THEN seqs[i] ELSE f[i - 1] \o seqs[i]
  <2> HIDE DEF f
  <2> QED BY <1>6
<1> HIDE DEF f
<1>8. f[1] = Part(1) /\ \A i \in 2..k : f[i] = f[i - 1] \o seqs[i]
  <2>1. 1 \in 1..k /\ \A i \in 2..k : i \in 1..k /\ i # 1
    OBVIOUS
  <2>2. f[1] = seqs[1]
    BY <1>7, <2>1
  <2>3. ASSUME NEW i \in 2..k
        PROVE  f[i] = f[i - 1] \o seqs[i]
    BY <1>7, <2>1
  <2> QED BY <1>4, <2>2, <2>3
<1> DEFINE T == {i \in 0..k : i = 0 \/ f[i] = Part(i)}
<1>9. 0..k \subseteq T
  <2>1. 0 \in T
    OBVIOUS
  <2>2. ASSUME NEW i \in 0..k, i \in T, i < k
        PROVE  i + 1 \in T
    <3>1. i + 1 \in 1..k /\ (i + 1) - 1 = i
      BY <2>2
    <3>2. CASE i = 0
      BY <1>8, <3>1, <3>2
    <3>3. CASE i # 0
      <4>1. f[i] = Part(i) /\ i + 1 \in 2..k
        BY <2>2, <3>1, <3>3
      <4>2. f[i + 1] = Part(i) \o seqs[i + 1]
        BY <1>8, <3>1, <4>1
      <4>3. Part(i) \o seqs[i + 1] = Part(i + 1)
        BY <1>3, <3>1
      <4> QED BY <3>1, <4>2, <4>3
    <3> QED BY <3>2, <3>3
  <2> HIDE DEF T
  <2> QED BY <2>1, <2>2, BoundedInduction
<1>10. f[k] = Part(k)
  BY <1>9
<1> QED BY <1>1, <1>10 DEF Part

(* The cells of a store s.                                                 *)
CellsIn(s, from, n) == [i \in 1..n |-> IF from + i <= Len(s) THEN s[from + i] ELSE Lost]

(* The chunks of a range that begins on a block give back its bytes,       *)
(* however many chunks it takes.                                           *)
LEMMA ChunksCover ==
    ASSUME NEW S, NEW s \in Seq(S), NEW start \in Nat, NEW n \in Nat,
           start % B = 0, start + Units(n, B) * B <= Len(s)
    PROVE  Take(FlattenSeq([i \in 1..Len(ChunksFor(start, n)) |->
                              CellsIn(s, ChunksFor(start, n)[i].block * B, ChunksFor(start, n)[i].count * B)]), n)
             = CellsIn(s, start, n)
<1> DEFINE cs == ChunksFor(start, n)
           first == start \div B
           total == Units(n, B)
           parts == Units(total, MaxCount)
           seqs == [i \in 1..Len(cs) |-> CellsIn(s, cs[i].block * B, cs[i].count * B)]
<1>0. B \in Nat \ {0} /\ MaxCount \in Nat \ {0}
  BY ParamAssumption DEF B
<1>1. first \in Nat /\ start = first * B
  <2>1. first \in Nat /\ start = first * B + (start % B)
    BY <1>0, Division
  <2>2. first * B \in Nat
    BY <1>0, <2>1
  <2> HIDE DEF first
  <2> QED BY <2>1, <2>2
<1>2. total \in Nat /\ n <= total * B /\ (n = 0 <=> total = 0)
  BY <1>0, RoundedUp
<1>3. parts \in Nat /\ (total = 0 <=> parts = 0)
  <2> HIDE DEF total
  <2> QED BY <1>0, <1>2, RoundedUp
<1>4. cs = [i \in 1..parts |->
              [block |-> first + (i - 1) * MaxCount,
               count |-> IF i < parts THEN MaxCount ELSE total - (i - 1) * MaxCount]]
  BY DEF ChunksFor, CeilDiv, Units, B
<1>5. Len(cs) = parts
  <2> HIDE DEF cs, parts
  <2> QED BY <1>3, <1>4
<1>6. CASE n = 0
  BY <1>6 DEF Take, CellsIn
<1>7. CASE n # 0
  <2>1. parts \in Nat \ {0}
    BY <1>2, <1>3, <1>7
  <2> DEFINE len == total * B
             g == [j \in 1..len |-> s[start + j]]
             p == [i \in 0..parts |-> IF i < parts THEN (i * MaxCount) * B ELSE len]
  <2>2. len \in Nat /\ start + len <= Len(s) /\ n <= len
    <3>1. start + len <= Len(s)
      OBVIOUS
    <3> HIDE DEF total
    <3> QED BY <1>0, <1>2, <3>1
  <2> HIDE DEF cs, first, total, parts, seqs, len
  <2>12. \A i \in 0..parts : p[i] = IF i < parts THEN (i * MaxCount) * B ELSE len
    OBVIOUS
  <2>13. p = [i \in 0..parts |-> p[i]]
    OBVIOUS
  <2> HIDE DEF p
  <2>3. g \in Seq(S) /\ Len(g) = len
    BY <2>2
  <2>4. ASSUME NEW i \in 1..parts
        PROVE  /\ p[i - 1] \in 0..len /\ p[i] \in 0..len /\ p[i - 1] <= p[i]
               /\ cs[i].block * B = start + p[i - 1] /\ cs[i].count * B = p[i] - p[i - 1]
    <3>1. /\ (i - 1) * MaxCount \in Nat /\ i * MaxCount = (i - 1) * MaxCount + MaxCount
          /\ i < parts => i * MaxCount <= total
          /\ i = parts => total - (i - 1) * MaxCount \in 1..MaxCount
      BY <1>2, PartFact DEF parts
    <3> DEFINE a == (i - 1) * MaxCount
               c == IF i < parts THEN MaxCount ELSE total - a
    <3>2. a \in Nat /\ c \in Nat /\ a + c <= total /\ (i < parts => a + c = i * MaxCount)
          /\ (i = parts => a + c = total)
      BY <1>0, <1>2, <2>1, <3>1
    <3>3. cs[i].block = first + a /\ cs[i].count = c
      BY <1>4
    <3>8. i - 1 \in 0..parts /\ i - 1 < parts /\ i \in 0..parts /\ (i < parts \/ i = parts)
      BY <2>1
    <3>4. p[i - 1] = a * B
      BY <2>12, <3>8
    <3>9. p[i] = IF i < parts THEN (i * MaxCount) * B ELSE total * B
      BY <2>12, <3>8 DEF len
    <3> HIDE DEF a, c
    <3>5. p[i] = (a + c) * B
      <4>1. CASE i < parts
        BY <3>2, <3>9, <4>1
      <4>2. CASE i = parts
        BY <3>2, <3>9, <4>2
      <4> QED BY <3>8, <4>1, <4>2
    <3>6. (a + c) * B = a * B + c * B /\ a * B \in Nat /\ c * B \in Nat /\ (a + c) * B <= total * B
      BY <1>0, <1>2, <3>2
    <3>7. (first + a) * B = first * B + a * B
      BY <1>0, <1>1, <3>2
    <3> QED BY <1>1, <2>2, <3>3, <3>4, <3>5, <3>6, <3>7 DEF len
  <2>5. p \in [0..parts -> 0..len] /\ p[0] = 0
    <3>4. 0 \in 0..parts /\ parts \in 0..parts /\ 0 < parts /\ ~(parts < parts)
      BY <2>1
    <3>5. p[0] = (0 * MaxCount) * B /\ p[parts] = len
      BY <2>12, <3>4
    <3>1. p[0] = 0 /\ p[parts] = len
      BY <1>0, <3>5
    <3>2. ASSUME NEW i \in 0..parts
          PROVE  p[i] \in 0..len
      <4>1. CASE i = 0
        BY <2>2, <3>1, <4>1
      <4>2. CASE i # 0
        <5>1. i \in 1..parts
          BY <2>1, <4>2
        <5> QED BY <2>4, <5>1
      <4> QED BY <4>1, <4>2
    <3> QED BY <2>13, <3>1, <3>2
  <2>6. Len(seqs) = parts
    BY <1>5, <2>1 DEF seqs
  <2>7. ASSUME NEW i \in 1..parts
        PROVE  seqs[i] = Piece(g, p[i - 1], p[i])
    <3>1. seqs[i] = CellsIn(s, start + p[i - 1], p[i] - p[i - 1])
      BY <1>5, <2>4 DEF seqs
    <3> SUFFICES ASSUME NEW j \in 1..(p[i] - p[i - 1])
                 PROVE  (IF (start + p[i - 1]) + j <= Len(s) THEN s[(start + p[i - 1]) + j] ELSE Lost)
                          = g[p[i - 1] + j]
      BY <3>1 DEF CellsIn, Piece
    <3>4. p[i - 1] \in 0..len /\ p[i] \in 0..len
      BY <2>4
    <3>2. p[i - 1] + j \in 1..len /\ (start + p[i - 1]) + j = start + (p[i - 1] + j)
      BY <2>2, <3>4
    <3>3. (start + p[i - 1]) + j <= Len(s)
      BY <2>2, <3>2
    <3> QED BY <3>2, <3>3 DEF g
  <2>8. FlattenSeq(seqs) = First(g, p[parts])
    <3>1. (\A i \in 0..parts : p[i] \in 0..Len(g)) /\ p[0] = 0
      BY <2>3, <2>5
    <3>2. \A i \in 1..parts : p[i - 1] <= p[i]
      BY <2>4
    <3>3. \A i \in 1..parts : seqs[i] = Piece(g, p[i - 1], p[i])
      BY <2>7
    <3>4. g \in Seq(S) /\ p[0] = 0
      BY <2>3, <3>1
    <3> HIDE DEF g
    <3> QED BY <2>1, <2>6, <3>1, <3>2, <3>3, <3>4, FlattenPieces
  <2>9. p[parts] = len
    <3>1. parts \in 0..parts /\ ~(parts < parts)
      BY <2>1
    <3> QED BY <2>12, <3>1
  <2>10. FlattenSeq(seqs) = g
    BY <2>8, <2>9 DEF First
  <2>11. Take(g, n) = CellsIn(s, start, n)
    <3> SUFFICES ASSUME NEW i \in 1..n
                 PROVE  (IF i <= Len(g) THEN g[i] ELSE Lost) = IF start + i <= Len(s) THEN s[start + i] ELSE Lost
      BY DEF Take, CellsIn
    <3>1. i \in 1..len /\ start + i <= Len(s)
      BY <2>2
    <3>2. i <= Len(g)
      BY <2>2, <2>3, <3>1
    <3>3. g[i] = s[start + i]
      BY <3>1
    <3> QED BY <3>1, <3>2, <3>3
  <2> QED BY <2>10, <2>11 DEF seqs, cs
<1> QED BY <1>6, <1>7

LEMMA SeqByCells ==
    ASSUME NEW S, NEW c \in Seq(S), NEW s, NEW from \in Nat, from + Len(c) <= Len(s), Len(s) \in Nat,
           \A i \in 1..Len(c) : c[i] = s[from + i]
    PROVE  c = CellsIn(s, from, Len(c))
<1> DEFINE d == CellsIn(s, from, Len(c))
<1>1. \A i \in 1..Len(c) : d[i] = s[from + i]
  BY DEF CellsIn
<1>2. d = [i \in 1..Len(c) |-> d[i]]
  BY DEF CellsIn
<1> HIDE DEF d
<1>3. c = [i \in 1..Len(c) |-> c[i]]
  OBVIOUS
<1> QED BY <1>1, <1>2, <1>3 DEF d

LEMMA RangeContent ==
    ASSUME NEW f \in File, store' \in Seq(Cell), NEW start \in Nat, NEW n \in Nat, ent'[f].size = n,
           dataMode' => /\ start % B = 0 /\ start + Units(n, B) * B <= Len(store')
                        /\ ent'[f].chunks = ChunksFor(start, n),
           ~dataMode' => ent'[f].direct = <<>> /\ ent'[f].spoolOff = start
    PROVE  Content(f)' = CellsIn(store', start, n)
<1>1. CASE dataMode'
  <2> DEFINE cs == ChunksFor(start, n)
             bs == [i \in 1..Len(cs) |-> CellsIn(store', cs[i].block * B, cs[i].count * B)]
  <2>1. Content(f)' = Take(FlattenSeq(bs), n)
    <3>1. ent'[f].chunks = cs
      BY <1>1
    <3> HIDE DEF cs
    <3> QED BY <1>1, <3>1 DEF Content, Blocks, Cells, CellsIn, Take, B
  <2>2. Take(FlattenSeq(bs), n) = CellsIn(store', start, n)
    BY <1>1, ChunksCover
  <2> QED BY <2>1, <2>2
<1>2. CASE ~dataMode'
  BY <1>2 DEF Content, Cells, CellsIn
<1> QED BY <1>1, <1>2

LEMMA CellsInKept ==
    ASSUME IInv, [Next]_vars, NEW from \in Nat, NEW n \in Nat, from + n <= off
    PROVE  CellsIn(store', from, n) = CellsIn(store, from, n)
<1>1. Cells(from, n)' = Cells(from, n)
  BY CellsKept
<1> QED BY <1>1 DEF Cells, CellsIn

(* A file that is not being written stays as it is while others are.       *)
LEMMA OthersWritten ==
    ASSUME IInv, [Next]_vars, NEW g \in File, WritingOf(g), ~handle[g].open,
           handle'[g] = handle[g], ent'[g] = ent[g], want'[g] = want[g]
    PROVE  WritingOf(g)'
<1>1. Content(g)' = Content(g)
  BY ContentKept
<1> QED BY <1>1 DEF WritingOf

LEMMA WInit ==
    ASSUME Init, Prior % BlockSize = 0
    PROVE  WInv
<1>1. IInv
  BY IInvInit
<1>2. want \in [File -> Seq(Cell)]
  BY DEF Init
<1>3. \A f \in File : want[f] = <<>> /\ handle[f] = NoHandle /\ ent[f] = NoEntry
  BY DEF Init
<1>4. \A f \in File : WritingOf(f)
  BY <1>3 DEF WritingOf, NoHandle, NoEntry
<1>5. dataMode => off % B = 0
  <2>1. ASSUME dataMode
        PROVE  off = Prior
    BY <2>1, ParamAssumption DEF Init
  <2> QED BY <2>1 DEF B
<1>6. \A f \in File : ~handle[f].open
  BY <1>3 DEF NoHandle
<1> QED BY <1>1, <1>2, <1>4, <1>5, <1>6 DEF WInv, Writing

LEMMA WCreate ==
    ASSUME IInv, Writing, Sequential, NEW f \in File, Create(f)
    PROVE  Writing'
<1> DEFINE e == [NoEntry EXCEPT !.made = TRUE, !.start = off,
                                !.spoolOff = IF dataMode THEN 0 ELSE off]
           h == [open |-> TRUE, start |-> off, written |-> 0]
<1>1. ent' = [ent EXCEPT ![f] = e] /\ handle' = [handle EXCEPT ![f] = h]
      /\ want' = want /\ off' = off /\ dataMode' = dataMode
  BY DEF Create
<1>2. ~ent[f].made /\ \A g \in File : ~handle[g].open
  BY DEF Create, Free
<1>3. /\ e.made /\ ~e.fileClosed /\ e.chunks = <<>> /\ e.direct = <<>>
      /\ ~dataMode => e.spoolOff = off
  BY DEF NoEntry
<1>4. h.open /\ h.start = off /\ h.written = 0
  OBVIOUS
<1> HIDE DEF e, h
<1>5. ent'[f] = e /\ handle'[f] = h
      /\ \A g \in File \ {f} : ent'[g] = ent[g] /\ handle'[g] = handle[g]
  BY <1>1 DEF IInv, EntOK
<1>6. off \in Nat /\ off + 0 = off /\ (dataMode => off % B = 0)
  BY <1>2 DEF Writing, IInv, StoreOK
<1>7. WritingOf(f)'
  <2>1. want[f] = <<>>
    BY <1>2 DEF Writing, WritingOf
  <2>2. CellsIn(store', h.start, h.written) = <<>>
    BY <1>4, <1>6 DEF CellsIn
  <2>3. h.start + h.written = off'
    BY <1>1, <1>4, <1>6 DEF IInv, StoreOK
  <2>4. Cells(handle[f].start, handle[f].written)' = CellsIn(store', h.start, h.written)
    BY <1>5 DEF Cells, CellsIn
  <2>5. ~dataMode' => e.spoolOff = h.start
    BY <1>1, <1>3, <1>4
  <2>6. dataMode' => h.start % B = 0
    BY <1>1, <1>4, <1>6
  <2>7. want'[f] = Cells(handle[f].start, handle[f].written)'
    BY <1>1, <2>1, <2>2, <2>4
  <2> QED BY <1>3, <1>5, <2>3, <2>5, <2>6, <2>7 DEF WritingOf
<1>8. \A g \in File \ {f} : WritingOf(g)'
  BY <1>1, <1>2, <1>5, OthersWritten DEF Writing, Next
<1>9. \A g \in File \ {f} : ~handle'[g].open
  BY <1>2, <1>5
<1> QED BY <1>4, <1>5, <1>7, <1>8, <1>9 DEF Writing

LEMMA WWrite ==
    ASSUME IInv, Writing, want \in [File -> Seq(Cell)], ~failed', NEW f \in File, NEW n \in 1..MaxLen, NEW m \in 0..n,
           Write(f, n, m)
    PROVE  Writing'
<1> DEFINE h == [handle[f] EXCEPT !.written = @ + m]
           old == handle[f].written
           cells == CellsOf(f, old, m)
<1>0. handle[f] \in Handle /\ m \in Nat /\ old \in Nat /\ handle[f].start \in Nat /\ off \in Nat
      /\ store \in Seq(Cell) /\ Len(store) = off
  BY ParamAssumption DEF IInv, EntOK, Handle, StoreOK
<1>1. handle' = [handle EXCEPT ![f] = h] /\ ent' = ent /\ dataMode' = dataMode /\ handle[f].open
      /\ store' = store \o cells /\ off' = off + m /\ want' = [want EXCEPT ![f] = @ \o cells]
  BY DEF Write
<1>2. h.open = handle[f].open /\ h.start = handle[f].start /\ h.written = old + m
  BY <1>0 DEF Handle
<1>3. cells \in Seq(Cell) /\ Len(cells) = m
  <2>1. old \in Int
    BY <1>0
  <2> HIDE DEF old
  <2> QED BY <1>0, <2>1, CellSeqs
<1> HIDE DEF h, cells
<1>4. handle'[f] = h /\ \A g \in File \ {f} : handle'[g] = handle[g]
  BY <1>1 DEF IInv, EntOK
<1>5. want'[f] = want[f] \o cells /\ \A g \in File \ {f} : want'[g] = want[g]
  BY <1>1
<1>6. WritingOf(f)
  BY DEF Writing
<1>7. /\ ent[f].made /\ ~ent[f].fileClosed /\ ent[f].chunks = <<>> /\ ent[f].direct = <<>>
      /\ ~dataMode => ent[f].spoolOff = handle[f].start
      /\ handle[f].start + old = off
      /\ want[f] = Cells(handle[f].start, old)
      /\ dataMode => handle[f].start % B = 0
  BY <1>1, <1>6 DEF WritingOf
<1>8. want'[f] = CellsIn(store', h.start, h.written)
  <2> DEFINE s == handle[f].start
  <2>8. s \in Nat /\ old \in Nat /\ s + old = off /\ want[f] = Cells(s, old)
        /\ h.start = s /\ h.written = old + m
    BY <1>0, <1>2, <1>7
  <2> HIDE DEF s, old
  <2>9. store \in Seq(Cell) /\ Len(store) = off /\ off \in Nat /\ m \in Nat
    BY <1>0
  <2>1. Len(store') = off + m /\ \A i \in 1..(off + m) :
           store'[i] = IF i <= off THEN store[i] ELSE cells[i - off]
    BY <1>1, <1>3, <2>9, Joined
  <2>2. want[f] \in Seq(Cell) /\ want[f] = [i \in 1..old |-> IF s + i <= off THEN store[s + i] ELSE Lost]
    BY <2>8, <2>9 DEF Cells
  <2>3. Len(want[f]) = old
    BY <2>2, <2>8
  <2>4. \A i \in 1..old : want[f][i] = store[s + i]
    BY <2>2, <2>8, <2>9
  <2>5. /\ want'[f] \in Seq(Cell) /\ Len(want'[f]) = old + m
        /\ \A i \in 1..(old + m) : want'[f][i] = IF i <= old THEN want[f][i] ELSE cells[i - old]
    <3>1. want[f] \in Seq(Cell)
      BY <2>2
    <3> DEFINE w == want[f]
    <3> HIDE DEF w
    <3>2. w \in Seq(Cell) /\ Len(w) = old /\ want'[f] = w \o cells
      BY <1>5, <2>3, <3>1 DEF w
    <3>3. /\ w \o cells \in Seq(Cell) /\ Len(w \o cells) = old + m
          /\ \A i \in 1..(old + m) : (w \o cells)[i] = IF i <= old THEN w[i] ELSE cells[i - old]
      BY <1>3, <3>2, Joined
    <3> QED BY <3>2, <3>3 DEF w
  <2>6. ASSUME NEW i \in 1..(old + m)
        PROVE  want'[f][i] = store'[s + i]
    <3>1. s + i \in 1..(off + m) /\ (s + i <= off <=> i <= old) /\ (s + i) - off = i - old
      BY <2>8, <2>9
    <3>2. want'[f][i] = IF i <= old THEN want[f][i] ELSE cells[i - old]
      BY <2>5
    <3>3. store'[s + i] = IF s + i <= off THEN store[s + i] ELSE cells[(s + i) - off]
      BY <2>1, <3>1
    <3>4. CASE i <= old
      <4>1. i \in 1..old
        BY <2>8, <2>9, <3>4
      <4> QED BY <2>4, <3>1, <3>2, <3>3, <3>4, <4>1
    <3>5. CASE ~(i <= old)
      BY <3>1, <3>2, <3>3, <3>5
    <3> QED BY <3>4, <3>5
  <2>7. s + (old + m) <= off + m /\ off + m \in Nat
    BY <2>8, <2>9
  <2> DEFINE w == want'[f]
             st == store'
  <2> HIDE DEF w, st
  <2>10. w \in Seq(Cell) /\ Len(w) = old + m /\ s + Len(w) <= Len(st) /\ Len(st) \in Nat
         /\ \A i \in 1..Len(w) : w[i] = st[s + i]
    BY <2>1, <2>5, <2>6, <2>7 DEF w, st
  <2>11. w = CellsIn(st, s, Len(w))
    BY <2>8, <2>10, SeqByCells
  <2> QED BY <2>8, <2>10, <2>11 DEF w, st
<1>9. WritingOf(f)'
  <2>1. h.start + h.written = off'
    <3>1. handle[f].start + (old + m) = (handle[f].start + old) + m
      BY <1>0
    <3> HIDE DEF old
    <3> QED BY <1>1, <1>2, <1>7, <3>1
  <2>2. Cells(handle[f].start, handle[f].written)' = CellsIn(store', h.start, h.written)
    BY <1>4 DEF Cells, CellsIn
  <2> QED BY <1>1, <1>2, <1>4, <1>7, <1>8, <2>1, <2>2 DEF WritingOf
<1>10. \A g \in File \ {f} : ~handle[g].open
  BY <1>1 DEF Writing
<1>11. \A g \in File \ {f} : WritingOf(g)'
  BY <1>1, <1>4, <1>5, <1>10, OthersWritten DEF Writing, Next
<1>12. \A g \in File \ {f} : ~handle'[g].open
  BY <1>4, <1>10
<1> QED BY <1>1, <1>2, <1>4, <1>9, <1>11, <1>12 DEF Writing

LEMMA BlocksBehind ==
    ASSUME NEW start \in Nat, NEW n \in Nat, NEW k \in Nat, start % B = 0, start + n <= k * B
    PROVE  start + Units(n, B) * B <= k * B
<1> DEFINE first == start \div B
           total == Units(n, B)
<1>0. B \in Nat \ {0}
  BY ParamAssumption DEF B
<1>1. first \in Nat /\ start = first * B + (start % B) /\ first * B \in Nat
  BY <1>0, Division
<1> HIDE DEF first
<1>2. start = first * B
  BY <1>1
<1>3. first <= k
  <2>1. first * B < (k + 1) * B
    BY <1>0, <1>2
  <2> QED BY <1>0, <1>1, <2>1, ProductOrder
<1>4. (k - first) * B = k * B - first * B /\ k - first \in Nat
  BY <1>0, <1>1, <1>3
<1>5. n <= (k - first) * B
  BY <1>0, <1>2, <1>4
<1>6. total <= k - first /\ total \in Nat
  BY <1>0, <1>4, <1>5, RoundedUp, RoundUpLeast
<1> HIDE DEF total
<1>7. total * B <= (k - first) * B /\ total * B \in Nat
  BY <1>0, <1>4, <1>6, ProductMonotone
<1>8. start + total * B <= k * B
  <2>1. k * B \in Nat
    BY <1>0
  <2> QED BY <1>1, <1>2, <1>4, <1>7, <2>1
<1> QED BY <1>8 DEF total

LEMMA MultipleOfBlock ==
    ASSUME NEW k \in Nat
    PROVE  (k * B) % B = 0
<1>1. B \in Nat \ {0} /\ k * B \in Nat /\ 0 \in 0..(B - 1) /\ k * B = k * B + 0
  BY ParamAssumption DEF B
<1> QED BY <1>1, DivisionUnique

LEMMA WCloseFile ==
    ASSUME IInv, Writing, ~failed', NEW f \in File, NEW q \in 0..(BlockSize - 1), CloseFile(f, q)
    PROVE  Writing'
<1> DEFINE h == handle[f]
           start == h.start
           n == h.written
           pad == IF dataMode /\ n > 0 THEN PadTo(off) ELSE 0
           cs == IF dataMode /\ q = pad THEN ent[f].chunks \o ChunksFor(start, n) ELSE ent[f].chunks
           e == [ent[f] EXCEPT !.fileClosed = TRUE, !.size = n, !.chunks = cs]
           closed == [h EXCEPT !.open = FALSE]
<1>0. /\ h \in Handle /\ start \in Nat /\ n \in Nat /\ ent[f] \in Data
      /\ off \in Nat /\ q \in Nat /\ B \in Nat \ {0} /\ dataMode \in BOOLEAN
  BY ParamAssumption DEF IInv, EntOK, Handle, StoreOK, B
<1>1. /\ ent' = [ent EXCEPT ![f] = e] /\ handle' = [handle EXCEPT ![f] = closed]
      /\ off' = off + q /\ want' = want /\ dataMode' = dataMode /\ q = pad /\ h.open
  <2>1. q <= pad /\ ~(q < pad)
    BY DEF CloseFile
  <2>2. pad \in Nat
    BY <1>0, PadToBlock
  <2>3. q = pad
    <3> HIDE DEF pad
    <3> QED BY <1>0, <2>1, <2>2
  <2> QED BY <2>3 DEF CloseFile
<1>2. /\ ent[f].made /\ ent[f].chunks = <<>> /\ ent[f].direct = <<>>
      /\ ~dataMode => ent[f].spoolOff = start
      /\ start + n = off
      /\ want[f] = Cells(start, n)
      /\ dataMode => start % B = 0
  BY <1>1 DEF Writing, WritingOf
<1>3. dataMode => cs = ChunksFor(start, n)
  <2>1. ChunksFor(start, n) \in Seq(Chunk)
    BY <1>0, ChunksForOK
  <2> QED BY <1>1, <1>2, <2>1
<1>4. dataMode => \E k \in Nat : off' = k * B
  <2> SUFFICES ASSUME dataMode
               PROVE  \E k \in Nat : off' = k * B
    OBVIOUS
  <2>1. CASE n > 0
    BY <1>0, <1>1, <2>1, PadToBlock
  <2>2. CASE n = 0
    <3>1. off' = start
      BY <1>0, <1>1, <1>2, <2>2
    <3>2. start \div B \in Nat /\ start = (start \div B) * B + (start % B)
      BY <1>0, Division
    <3>3. start = (start \div B) * B
      <4> DEFINE d == start \div B
      <4>1. d * B \in Nat
        BY <1>0, <3>2
      <4> HIDE DEF d
      <4> QED BY <1>2, <3>2, <4>1 DEF d
    <3> QED BY <3>1, <3>2, <3>3
  <2> QED BY <1>0, <2>1, <2>2
<1> HIDE DEF cs
<1>5. /\ e.made = ent[f].made /\ e.fileClosed /\ e.size = n /\ e.chunks = cs
      /\ e.spoolOff = ent[f].spoolOff /\ e.direct = ent[f].direct
      /\ ~closed.open
  BY <1>0 DEF Data, Handle
<1> HIDE DEF e, closed, pad
<1>6. ent'[f] = e /\ handle'[f] = closed
      /\ \A g \in File \ {f} : ent'[g] = ent[g] /\ handle'[g] = handle[g]
  BY <1>1 DEF IInv, EntOK
<1>7. [Next]_vars
  BY DEF Next
<1>8. WritingOf(f)'
  <2>1. store' \in Seq(Cell) /\ Len(store') = off'
    BY <1>7, IInvStep DEF IInv, StoreOK
  <2>2. ASSUME dataMode
        PROVE  start % B = 0 /\ start + Units(n, B) * B <= Len(store') /\ cs = ChunksFor(start, n)
    <3>1. PICK k \in Nat : off' = k * B
      BY <1>4, <2>2
    <3>2. start + n <= k * B
      BY <1>0, <1>1, <1>2, <3>1
    <3> HIDE DEF start, n
    <3>3. start + Units(n, B) * B <= k * B
      BY <1>0, <1>2, <2>2, <3>2, BlocksBehind
    <3> QED BY <1>2, <1>3, <2>1, <2>2, <3>1, <3>3
  <2>3. start \in Nat /\ n \in Nat
    BY <1>0
  <2>4. Cells(start, n) = CellsIn(store, start, n)
    BY DEF Cells, CellsIn
  <2> HIDE DEF start, n
  <2>5. Content(f)' = CellsIn(store', start, n)
    BY <1>1, <1>2, <1>5, <1>6, <2>1, <2>2, <2>3, RangeContent
  <2>6. CellsIn(store', start, n) = CellsIn(store, start, n)
    <3>1. start + n <= off
      BY <1>0, <1>2
    <3> QED BY <1>7, <2>3, <3>1, CellsInKept
  <2> QED BY <1>1, <1>2, <1>5, <1>6, <2>4, <2>5, <2>6 DEF WritingOf
<1>9. \A g \in File \ {f} : ~handle[g].open
  BY <1>1 DEF Writing
<1>10. \A g \in File \ {f} : WritingOf(g)'
  BY <1>1, <1>6, <1>7, <1>9, OthersWritten DEF Writing
<1>11. \A g \in File : ~handle'[g].open
  BY <1>5, <1>6, <1>9
<1>12. dataMode' => off' % B = 0
  BY <1>1, <1>4, MultipleOfBlock
<1> QED BY <1>8, <1>10, <1>11, <1>12 DEF Writing

LEMMA WCopy ==
    ASSUME IInv, Writing, Sequential, NEW f \in File, NEW n \in 1..MaxLen, CopyData(f, n),
           want \in [File -> Seq(Cell)]
    PROVE  Writing'
<1> DEFINE old == Copied(f, n)
           pad == PadTo(off + n)
           d == [NoEntry EXCEPT !.made = TRUE, !.fileClosed = TRUE, !.start = off,
                                !.size = n, !.chunks = ChunksFor(off, n)]
           r == [NoEntry EXCEPT !.made = TRUE, !.fileClosed = TRUE, !.size = n, !.direct = old]
           e == IF dataMode THEN d ELSE r
<1>0. n \in Nat \ {0} /\ n \in Nat /\ off \in Nat /\ B \in Nat \ {0} /\ dataMode \in BOOLEAN
      /\ store \in Seq(Cell) /\ Len(store) = off
  BY ParamAssumption DEF IInv, StoreOK, B
<1>1. /\ ent' = [ent EXCEPT ![f] = e] /\ handle' = handle /\ want' = [want EXCEPT ![f] = old]
      /\ dataMode' = dataMode /\ (dataMode => off' = off + n + pad /\ store' = store \o old \o Padding(pad))
  BY DEF CopyData
<1>2. \A g \in File : ~handle[g].open
  BY DEF CopyData, Free
<1>3. dataMode => off % B = 0
  BY <1>2 DEF Writing
<1>4. old \in Seq(Cell) /\ Len(old) = n
  BY <1>0, CellSeqs
<1>5. pad \in Nat /\ \E k \in Nat : off + n + pad = k * B
  <2>1. off + n \in Nat
    BY <1>0
  <2>2. PadTo(off + n) \in 0..(B - 1) /\ \E k \in Nat : (off + n) + PadTo(off + n) = k * B
    BY <2>1, PadToBlock
  <2>3. pad \in 0..(B - 1) /\ \E k \in Nat : (off + n) + pad = k * B
    BY <2>2
  <2> HIDE DEF pad, old, d, r, e
  <2>4. off \in Nat /\ n \in Nat /\ B \in Nat
    BY <1>0
  <2>5. PICK k \in Nat : (off + n) + pad = k * B
    BY <2>3
  <2>6. pad \in Nat /\ off + n + pad = k * B
    BY <2>3, <2>4, <2>5
  <2> QED BY <2>6
<1>6. /\ d.made /\ d.fileClosed /\ d.size = n /\ d.chunks = ChunksFor(off, n)
      /\ r.made /\ r.fileClosed /\ r.size = n /\ r.direct = old
  BY DEF NoEntry
<1> HIDE DEF old, pad, d, r
<1>7. e.made /\ e.fileClosed /\ e.size = n
      /\ (dataMode => e.chunks = ChunksFor(off, n)) /\ (~dataMode => e.direct = old)
  BY <1>6
<1> HIDE DEF e
<1>8. /\ ent'[f] = e /\ want'[f] = old
      /\ \A g \in File \ {f} : ent'[g] = ent[g] /\ want'[g] = want[g]
  BY <1>1 DEF IInv, EntOK
<1>9. [Next]_vars
  BY DEF Next
<1>10. Content(f)' = old
  <2>1. CASE dataMode
    <3>1. store' \in Seq(Cell) /\ Len(store') = off'
      BY <1>9, IInvStep DEF IInv, StoreOK
    <3>2. off + Units(n, B) * B <= Len(store')
      <4>1. PICK k \in Nat : off + n + pad = k * B
        BY <1>5
      <4>2. off + n <= k * B
        BY <1>0, <1>5, <4>1
      <4>3. off + Units(n, B) * B <= k * B
        BY <1>0, <1>3, <2>1, <4>2, BlocksBehind
      <4> QED BY <1>1, <2>1, <3>1, <4>1, <4>3
    <3>3. Content(f)' = CellsIn(store', off, n)
      BY <1>0, <1>1, <1>3, <1>7, <1>8, <2>1, <3>1, <3>2, RangeContent
    <3>4. ASSUME NEW i \in 1..n
          PROVE  old[i] = store'[off + i]
      <4> DEFINE front == store \o old
      <4>1. front \in Seq(Cell) /\ Len(front) = off + n /\ front[off + i] = old[i]
        <5>1. off + i \in 1..(off + n) /\ ~(off + i <= off) /\ (off + i) - off = i
          BY <1>0
        <5>2. /\ front \in Seq(Cell) /\ Len(front) = off + n
              /\ \A j \in 1..(off + n) : front[j] = IF j <= off THEN store[j] ELSE old[j - off]
          BY <1>0, <1>4, Joined
        <5> QED BY <5>1, <5>2
      <4>2. Padding(pad) \in Seq(Cell) /\ Len(Padding(pad)) = pad
        BY <1>5, CellSeqs
      <4>3. store' = front \o Padding(pad)
        BY <1>1, <2>1
      <4> HIDE DEF front
      <4>4. off + i \in 1..(Len(front) + pad) /\ off + i <= Len(front)
        BY <1>0, <1>5, <4>1
      <4>5. store'[off + i] = front[off + i]
        BY <4>1, <4>2, <4>3, <4>4, Joined
      <4> QED BY <4>1, <4>5
    <3>5. off + n <= Len(store') /\ Len(store') \in Nat
      <4>1. off' = off + n + pad
        BY <1>1, <2>1
      <4> QED BY <1>0, <1>5, <3>1, <4>1
    <3> DEFINE st == store'
    <3> HIDE DEF st
    <3>6. old = CellsIn(st, off, Len(old))
      <4>1. off + Len(old) <= Len(st) /\ Len(st) \in Nat /\ \A i \in 1..Len(old) : old[i] = st[off + i]
        BY <1>4, <3>4, <3>5 DEF st
      <4> QED BY <1>0, <1>4, <4>1, SeqByCells
    <3> QED BY <1>4, <3>3, <3>6 DEF st
  <2>2. CASE ~dataMode
    <3>1. old # <<>>
      BY <1>0, <1>4
    <3>5. ent'[f].direct = old /\ ent'[f].size = n /\ ~dataMode'
      BY <1>1, <1>7, <1>8, <2>2
    <3>6. Content(f)' = Take(ent'[f].direct, ent'[f].size)
      BY <3>1, <3>5 DEF Content, Take
    <3>2. Content(f)' = Take(old, n)
      BY <3>5, <3>6
    <3>3. Take(old, n) = [i \in 1..n |-> old[i]]
      BY <1>0, <1>4 DEF Take
    <3>4. old = [i \in 1..n |-> old[i]]
      BY <1>4
    <3> QED BY <3>2, <3>3, <3>4
  <2> QED BY <1>0, <2>1, <2>2
<1>11. WritingOf(f)'
  BY <1>1, <1>2, <1>7, <1>8, <1>10 DEF WritingOf
<1>12. \A g \in File \ {f} : WritingOf(g)'
  BY <1>1, <1>2, <1>8, <1>9, OthersWritten DEF Writing
<1>13. dataMode' => off' % B = 0
  BY <1>1, <1>5, MultipleOfBlock
<1> QED BY <1>1, <1>2, <1>11, <1>12, <1>13 DEF Writing

(* What was handed over, also by calls that failed later.                  *)
LEMMA WantKept ==
    ASSUME IInv, [Next]_vars, want \in [File -> Seq(Cell)]
    PROVE  want' \in [File -> Seq(Cell)]
<1>1. ASSUME NEW f \in File, NEW n \in 1..MaxLen, NEW m \in 0..n, Write(f, n, m)
      PROVE  want' \in [File -> Seq(Cell)]
  <2> DEFINE x == CellsOf(f, handle[f].written, m)
  <2>1. handle[f].written \in Int /\ m \in Nat
    BY DEF IInv, EntOK, Handle
  <2>2. x \in Seq(Cell)
    BY <2>1, CellSeqs
  <2>3. want' = [want EXCEPT ![f] = want[f] \o x]
    BY <1>1 DEF Write
  <2> HIDE DEF x
  <2>4. want[f] \o x \in Seq(Cell)
    BY <2>2
  <2> QED BY <2>3, <2>4
<1>2. ASSUME NEW f \in File, NEW n \in 1..MaxLen, CopyData(f, n)
      PROVE  want' \in [File -> Seq(Cell)]
  <2>1. Copied(f, n) \in Seq(Cell)
    BY ParamAssumption, CellSeqs
  <2> QED BY <1>2, <2>1 DEF CopyData
<1>3. ASSUME UNCHANGED want
      PROVE  want' \in [File -> Seq(Cell)]
  BY <1>3
<1> QED BY <1>1, <1>2, <1>3 DEF Next, Create, CreateFails, CloseFile, CopyFails, Close, vars

LEMMA WInvStep ==
    ASSUME Sequential
    PROVE  WInv /\ [Next]_vars => WInv'
<1> SUFFICES ASSUME WInv, [Next]_vars
             PROVE  WInv'
  OBVIOUS
<1>1. IInv /\ IInv' /\ want \in [File -> Seq(Cell)] /\ want' \in [File -> Seq(Cell)]
  BY IInvStep, WantKept DEF WInv
<1>2. ASSUME ~failed'
      PROVE  Writing'
  <2>1. ~failed
    BY <1>2 DEF Next, Create, CreateFails, Write, CloseFile, CopyData, CopyFails, Close, vars
  <2>2. Writing
    BY <2>1 DEF WInv
  <2>3. CASE Close \/ UNCHANGED vars
    <3>1. /\ store' = store /\ off' = off /\ ent' = ent /\ handle' = handle /\ want' = want
          /\ dataMode' = dataMode
      BY <2>3 DEF Close, vars
    <3>2. \A f \in File : Content(f)' = Content(f)
      BY <1>1, <3>1, ContentKept
    <3>3. ASSUME NEW f \in File
          PROVE  WritingOf(f)'
      <4>1. Cells(handle[f].start, handle[f].written)' = Cells(handle[f].start, handle[f].written)
        BY <3>1 DEF Cells
      <4> QED BY <2>2, <3>1, <3>2, <4>1 DEF Writing, WritingOf
    <3> QED BY <2>2, <3>1, <3>3 DEF Writing
  <2>4. ASSUME NEW f \in File, Create(f) \/ CreateFails(f)
        PROVE  Writing'
    <3>1. Create(f)
      BY <1>2, <2>4 DEF CreateFails
    <3> QED BY <1>1, <2>2, <3>1, WCreate
  <2>5. ASSUME NEW f \in File, NEW n \in 1..MaxLen, NEW m \in 0..(MaxLen + BlockSize), CopyFails(f, n, m)
        PROVE  Writing'
    BY <1>2, <2>5 DEF CopyFails
  <2> QED BY <1>1, <1>2, <2>2, <2>3, <2>4, <2>5, WWrite, WCloseFile, WCopy DEF Next
<1> QED BY <1>1, <1>2 DEF WInv

(* mkfs.go:50, :658: while no call has failed, the image gives every       *)
(* finished file exactly the bytes it was given, however many chunks they  *)
(* take.  The caller uses one File at a time, and the data file it hands   *)
(* over ends on a block; file_interleaved and the README tell why.         *)
THEOREM ContentsAreWhatWasWritten ==
    ASSUME Sequential, Prior % BlockSize = 0
    PROVE  Spec => []Faithful
<1>1. Init => WInv
  BY WInit
<1>2. WInv => Faithful
  BY DEF WInv, Writing, WritingOf, Faithful
<1> QED BY <1>1, <1>2, WInvStep, PTL DEF Spec
=============================================================================
